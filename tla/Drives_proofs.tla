---------------------------- MODULE Drives_proofs ----------------------------
(***************************************************************************)
(* What the drive watcher guarantees for every set of disks, any number of *)
(* partitions, media, attempts, polls and restarts: a disk the installer   *)
(* was given is left alone, where the kernel says which disk it is.        *)
(***************************************************************************)
EXTENDS Drives, TLAPS

PollType == [pc : {"idle", "look", "parts", "own", "due", "mount"}, todo : SUBSET Disks,
             d : Disks \cup {0}, seq : Nat, devs : SUBSET (Parts \cup {0}),
             want : [Devs -> Nat], due : SUBSET Devs, b : Devs \cup {NoDev}]

MountType == [disk : Disks \cup {0}, seq : Nat, is : Nat]

SlotType == [seq : Nat, kind : {"none", "plain", "own", "iso", "bad", "whole"},
             parts : SUBSET Parts, ready : BOOLEAN]

TypeInv ==
  /\ slot \in [Disks -> SlotType] /\ count \in Nat
  /\ held \subseteq Disks
  /\ mounts \in [Devs -> MountType]
  /\ poll \in PollType

(* Poll looks at a disk that there is.                                     *)
LooksInv == poll.pc \in {"parts", "own"} => poll.d \in Disks

(* What Poll is about to mount, under the lock, is not known to be on the  *)
(* installer's disk: it looked at held with the lock, and Hold waits.      *)
MountFree == poll.pc = "mount" =>
  poll.b \in Devs /\ poll.d \in {0, poll.b[1]} /\ poll.d \notin held

(* A mount's disk is its own, unless it was not found, and Hold has taken  *)
(* every mount of the disks it was given away.                             *)
MountsFree == \A b \in Devs : mounts[b].disk \in {0, b[1]} /\ mounts[b].disk \notin held

IInv == TypeInv /\ LooksInv /\ MountFree /\ MountsFree
-----------------------------------------------------------------------------
(* What Poll and the mounts begin with is of its type.                     *)
LEMMA Nothings == /\ NoPoll \in PollType /\ NoPoll.pc = "idle"
                  /\ NoMount \in MountType /\ NoMount.disk = 0
                  /\ NoMedium \in SlotType
  BY DEF NoPoll, PollType, NoMount, MountType, NoMedium, SlotType

(* The invariant says what the run checks.                                 *)
LEMMA InvImplies == IInv => HeldUntouched
  BY DisksAssumption DEF IInv, MountsFree, HeldUntouched

(* The kiosk starts with nothing mounted and nothing held.                 *)
LEMMA InitInv == Init => IInv
  BY Nothings DEF Init, IInv, TypeInv, LooksInv, MountFree, MountsFree

(* Whatever is put in, taken out or written changes the slots alone.       *)
LEMMA MediaInv ==
  ASSUME IInv, NEW d \in Disks,
         \/ \E k \in Kinds : Insert(d, k)
         \/ \E p \in Parts : PartShows(d, p)
         \/ Readable(d) \/ Remove(d) \/ Install(d)
  PROVE  IInv'
<1> USE DEF IInv, TypeInv
<1>1. UNCHANGED <<held, mounts, poll>>
  BY DEF Insert, PartShows, Readable, Remove, Install, watcher
<1>2. slot' \in [Disks -> SlotType] /\ count' \in Nat
  <2>1. CASE \E k \in Kinds : Insert(d, k)
    BY <2>1, KindsAssumption DEF Insert, SlotType
  <2>2. CASE \E p \in Parts : PartShows(d, p)
    BY <2>2 DEF PartShows, SlotType
  <2>3. CASE Readable(d)
    BY <2>3 DEF Readable, SlotType
  <2>4. CASE Remove(d)
    BY <2>4, Nothings DEF Remove
  <2>5. CASE Install(d)
    BY <2>5 DEF Install, SlotType, watcher
  <2> QED BY <2>1, <2>2, <2>3, <2>4, <2>5
<1> QED BY <1>1, <1>2 DEF LooksInv, MountFree, MountsFree

(* Poll's look at the disks, without the lock, mounts nothing.             *)
LEMMA LookInv ==
  ASSUME IInv,
         \/ Start \/ Partitions \/ OwnDisk \/ Unlock
         \/ \E d \in Disks : MediumOf(d)
  PROVE  IInv'
<1> USE DEF IInv, TypeInv
<1>1. UNCHANGED <<slot, count, held, mounts>>
  BY DEF Start, Partitions, OwnDisk, Unlock, MediumOf, kept
<1>2. poll' \in PollType /\ LooksInv' /\ poll'.pc # "mount"
  <2>1. CASE Start
    BY <2>1, Nothings DEF Start, PollType, LooksInv
  <2>2. CASE Partitions
    BY <2>2 DEF Partitions, PollType, LooksInv, SlotType
  <2>3. CASE OwnDisk
    BY <2>3 DEF OwnDisk, PollType, LooksInv
  <2>4. CASE Unlock
    BY <2>4, Nothings DEF Unlock, LooksInv
  <2>5. CASE \E d \in Disks : MediumOf(d)
    <3>1. PICK d \in Disks : MediumOf(d)
      BY <2>5
    <3>2. slot[d].seq \in Nat
      BY DEF SlotType
    <3>3. CASE slot[d] = NoMedium
      BY <3>1, <3>3 DEF MediumOf, PollType, LooksInv
    <3>4. CASE slot[d] # NoMedium
      BY <3>1, <3>2, <3>4 DEF MediumOf, PollType, LooksInv
    <3> QED BY <3>3, <3>4
  <2> QED BY <2>1, <2>2, <2>3, <2>4, <2>5
<1> QED BY <1>1, <1>2 DEF MountFree, MountsFree

(* With the lock Poll unmounts, and looks at what is due.                  *)
LEMMA LockInv == ASSUME IInv, Lock PROVE IInv'
<1> USE DEF IInv, TypeInv, Lock
<1>1. poll' \in PollType /\ LooksInv' /\ MountFree'
  BY DEF PollType, LooksInv, MountFree
<1>2. mounts' \in [Devs -> MountType]
  BY Nothings
<1>3. MountsFree'
  BY Nothings, DisksAssumption DEF MountsFree
<1> QED BY <1>1, <1>2, <1>3

(* What is due is left out when it is found on a held disk.                *)
LEMMA DiskOfInv == ASSUME IInv, NEW b \in Devs, DiskOf(b) PROVE IInv'
<1> USE DEF IInv, TypeInv
<1>1. UNCHANGED <<slot, count, held, mounts>>
  BY DEF DiskOf, kept
<1>2. b[1] \in Disks /\ Found(b) \in {0, b[1]}
  BY DEF Devs, Found
<1>3. CASE Found(b) \in held
  <2>1. poll' = [poll EXCEPT !.due = poll.due \ {b}]
    BY <1>3 DEF DiskOf
  <2> QED BY <1>1, <2>1 DEF PollType, LooksInv, MountFree, MountsFree
<1>4. CASE Found(b) \notin held
  <2> PICK f \in Disks \cup {0} : f = Found(b)
    BY <1>2
  <2>1. poll' = [poll EXCEPT !.pc = "mount", !.due = poll.due \ {b}, !.b = b, !.d = f]
    BY <1>4 DEF DiskOf
  <2>2. poll' \in PollType
    BY <2>1 DEF PollType
  <2>3. poll'.pc = "mount" /\ poll'.b = b /\ poll'.d = Found(b)
    BY <2>1 DEF PollType
  <2> QED BY <1>1, <1>2, <1>4, <2>2, <2>3 DEF LooksInv, MountFree, MountsFree
<1> QED BY <1>3, <1>4

(* A mount is one that diskOf has cleared.                                 *)
LEMMA MountInv == ASSUME IInv, Mount PROVE IInv'
<1> USE DEF IInv, TypeInv
<1> DEFINE b == poll.b
<1>1. /\ poll.pc = "mount" /\ b \in Devs /\ b[1] \in Disks
      /\ poll.d \in {0, b[1]} /\ poll.d \notin held
  BY DEF Mount, MountFree, Devs
<1>2. UNCHANGED <<slot, count, held>>
  BY DEF Mount
<1>3. poll' \in PollType /\ LooksInv' /\ MountFree'
  BY DEF Mount, PollType, LooksInv, MountFree
<1>4. CASE UNCHANGED mounts
  BY <1>2, <1>3, <1>4 DEF MountsFree
<1>5. CASE mounts' = [mounts EXCEPT ![b] = [disk |-> poll.d, seq |-> poll.want[b], is |-> slot[b[1]].seq]]
  <2> DEFINE m == [disk |-> poll.d, seq |-> poll.want[b], is |-> slot[b[1]].seq]
  <2>1. m \in MountType /\ m.disk = poll.d
    BY <1>1 DEF MountType, SlotType, PollType
  <2> HIDE DEF m
  <2>2. mounts' = [mounts EXCEPT ![b] = m]
    BY <1>5 DEF m
  <2>3. mounts'[b] = m /\ \A x \in Devs : x # b => mounts'[x] = mounts[x]
    BY <1>1, <2>2
  <2>4. MountsFree'
    <3> SUFFICES ASSUME NEW x \in Devs
                 PROVE  mounts'[x].disk \in {0, x[1]} /\ mounts'[x].disk \notin held
      BY <1>2 DEF MountsFree
    <3>1. CASE x = b
      BY <1>1, <2>1, <2>3, <3>1
    <3>2. CASE x # b
      BY <2>3, <3>2 DEF MountsFree
    <3> QED BY <3>1, <3>2
  <2>5. mounts' \in [Devs -> MountType]
    BY <2>1, <2>2
  <2> QED BY <1>2, <1>3, <2>4, <2>5
<1> QED BY <1>4, <1>5 DEF Mount

(* Hold unmounts the disk it gives away, and waits for Poll's mounts.      *)
LEMMA HoldInv == ASSUME IInv, NEW d \in Disks, Hold(d) PROVE IInv'
<1> USE DEF IInv, TypeInv, Hold
<1>1. \A b \in Devs : mounts'[b] = IF mounts[b].disk = d THEN NoMount ELSE mounts[b]
  OBVIOUS
<1>2. mounts' \in [Devs -> MountType]
  BY Nothings
<1>3. MountsFree'
  BY <1>1, Nothings, DisksAssumption DEF MountsFree
<1>4. LooksInv' /\ MountFree'
  BY DEF LooksInv, MountFree
<1> QED BY <1>2, <1>3, <1>4

(* A process that dies takes what it held and knew with it.                *)
LEMMA ProcessInv == ASSUME IInv, Crash \/ Startup PROVE IInv'
  BY Nothings DEF IInv, TypeInv, Crash, Startup, Fresh, LooksInv, MountFree, MountsFree

(* Every step keeps the invariant.                                         *)
LEMMA NextInv == IInv /\ [Next]_vars => IInv'
<1> SUFFICES ASSUME IInv, [Next]_vars PROVE IInv'
  OBVIOUS
<1>1. CASE UNCHANGED vars
  BY <1>1 DEF vars, IInv, TypeInv, LooksInv, MountFree, MountsFree
<1>2. CASE Next
  BY <1>2, MediaInv, LookInv, LockInv, DiskOfInv, MountInv, HoldInv, ProcessInv DEF Next, Poll
<1> QED BY <1>1, <1>2

(* The watcher's process has nothing mounted that it knows to be on a disk *)
(* the installer was given, nor anything of such a disk at all but a       *)
(* partition that did not show when its disk was asked for, whatever Poll  *)
(* had seen before Hold and however many disks there are (Hold, Poll).     *)
THEOREM HeldDiskUntouched == Spec => []HeldUntouched
<1>1. Spec => []IInv
  BY InitInv, NextInv, PTL DEF Spec
<1> QED BY <1>1, InvImplies, PTL
=============================================================================
