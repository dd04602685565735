------------------------------- MODULE Drives --------------------------------
(***************************************************************************)
(* The drive watcher (internal/usb/drives.go): once a second Poll looks at *)
(* what is in the kiosk's USB drives and card slots, unmounts what has     *)
(* gone and mounts what has come, under /media, where the session engine   *)
(* finds it; Hold takes a disk away from it for good, for the installer to *)
(* write over (ui/install.go: startInstall).                               *)
(*                                                                         *)
(* Poll looks without the lock, at a disk's medium, then its partitions,   *)
(* then whose it is, and acts under the lock on what it saw; in between,   *)
(* media are swapped, partitions show up, a stick becomes readable, the    *)
(* installer takes a disk, and its partitions come and go.  The kiosk's    *)
(* process may die and be started again: the kernel keeps its mounts, and  *)
(* the new process knows of none.                                          *)
(*                                                                         *)
(* Abstractions: every disk is one to mount (removable); the file system   *)
(* and the label of a block device are what the medium's kind says, once   *)
(* it is readable; the name a drive is mounted under, and syncLoop, have   *)
(* no part here.  The kernel and who plugs things in are external; it      *)
(* detaches what it is told to unmount, and mounts a block device a second *)
(* time only under another name.                                           *)
(***************************************************************************)
EXTENDS Naturals, FiniteSets

CONSTANTS
  Disks,      \* disk names: a drive or a card slot each
  Parts,      \* the partitions a medium may have, numbered from 1; 0 is the disk itself
  Kinds,      \* what may be put in: some of "plain", "own", "iso", "bad", "whole"
  Attempts,   \* mountAttempts: 3 in the code
  MaxMedia    \* bound: how many media are put in

ASSUME DisksAssumption == 0 \notin Disks
ASSUME PartsAssumption == Parts \subseteq Nat \ {0}
ASSUME KindsAssumption == Kinds \subseteq {"plain", "own", "iso", "bad", "whole"}
ASSUME CountsAssumption == Attempts \in Nat \ {0} /\ MaxMedia \in Nat

VARIABLES
  slot,     \* slot[d]: the medium in disk d: its number (diskseq), its kind, the
            \* partitions that show, and whether it is readable yet
  count,    \* how many media have been put in
  up,       \* whether the kiosk's process runs
  held,     \* disks the installer was given
  mounts,   \* mounts[b]: this process's mount of block device b: the disk (0: none)
            \* and the medium Poll took it for, and the medium it is
  left,     \* mounts the kernel still has of processes that died
  failed,   \* failed[b]: the attempts that failed, and on which medium
  own,      \* own[d]: the verdict on disk d, and what it was given on
  poll      \* Poll's place, and what it has seen

vars == <<slot, count, up, held, mounts, left, failed, own, poll>>

Devs == Disks \X (Parts \cup {0})
NoMedium == [seq |-> 0, kind |-> "none", parts |-> {}, ready |-> FALSE]
NoDev == <<0, 0>>
NoMount == [disk |-> 0, seq |-> 0, is |-> 0]
NoFailure == [seq |-> 0, n |-> 0]
NoVerdict == [seq |-> 0, devs |-> {}, own |-> FALSE]
NoPoll == [pc |-> "idle", todo |-> {}, d |-> 0, seq |-> 0, devs |-> {},
           want |-> [b \in Devs |-> 0], due |-> {}, b |-> NoDev]

(* NewDrives                                                               *)
Fresh == /\ held' = {} /\ mounts' = [b \in Devs |-> NoMount]
         /\ failed' = [b \in Devs |-> NoFailure] /\ own' = [d \in Disks |-> NoVerdict]
         /\ poll' = NoPoll

Init ==
  /\ slot = [d \in Disks |-> NoMedium] /\ count = 0
  /\ up = TRUE
  /\ held = {} /\ mounts = [b \in Devs |-> NoMount] /\ left = {}
  /\ failed = [b \in Devs |-> NoFailure] /\ own = [d \in Disks |-> NoVerdict]
  /\ poll = NoPoll
-----------------------------------------------------------------------------
(* External: a medium is put in; its partitions show one by one, and it    *)
(* can be read a moment after; it is taken out.                            *)

watcher == <<up, held, mounts, left, failed, own, poll>>

Insert(d, k) ==
  /\ slot[d] = NoMedium /\ count < MaxMedia
  /\ slot' = [slot EXCEPT ![d] = [seq |-> count + 1, kind |-> k, parts |-> {}, ready |-> FALSE]]
  /\ count' = count + 1
  /\ UNCHANGED watcher

PartShows(d, p) ==
  /\ slot[d].kind \in {"plain", "own", "bad"} /\ p \notin slot[d].parts
  /\ slot' = [slot EXCEPT ![d].parts = @ \cup {p}]
  /\ UNCHANGED count /\ UNCHANGED watcher

Readable(d) ==
  /\ slot[d] # NoMedium /\ ~slot[d].ready
  /\ slot' = [slot EXCEPT ![d].ready = TRUE]
  /\ UNCHANGED count /\ UNCHANGED watcher

Remove(d) ==
  /\ slot[d] # NoMedium
  /\ slot' = [slot EXCEPT ![d] = NoMedium]
  /\ UNCHANGED count /\ UNCHANGED watcher

(* blkid: whether it finds a file system on a block device, and whether    *)
(* that has a label SC_.                                                   *)
HasFS(b) ==
  LET m == slot[b[1]]
  IN  m.ready /\ \/ m.kind \in {"plain", "own"} /\ b[2] \in m.parts
                 \/ m.kind \in {"whole", "iso"} /\ b[2] = 0
SCLabel(b) == HasFS(b) /\ slot[b[1]].kind = "own"

(* isMedium: the ISO the kiosk was booted from.                            *)
IsMedium(d) == slot[d].ready /\ slot[d].kind = "iso"
-----------------------------------------------------------------------------
(* Poll: present, without the lock.                                        *)

kept == <<slot, count, up, held, mounts, left, failed>>

Start ==
  /\ up /\ poll.pc = "idle"
  /\ poll' = [NoPoll EXCEPT !.pc = "look", !.todo = Disks]
  /\ UNCHANGED own /\ UNCHANGED kept

(* mediumOf                                                                *)
MediumOf(d) ==
  /\ poll.pc = "look" /\ d \in poll.todo
  /\ poll' = IF slot[d] = NoMedium THEN [poll EXCEPT !.todo = @ \ {d}]
             ELSE [poll EXCEPT !.pc = "parts", !.d = d, !.seq = slot[d].seq]
  /\ UNCHANGED own /\ UNCHANGED kept

(* partitions                                                              *)
Partitions ==
  /\ poll.pc = "parts"
  /\ poll' = [poll EXCEPT !.pc = "own",
                          !.devs = IF slot[poll.d].parts = {} THEN {0} ELSE slot[poll.d].parts]
  /\ UNCHANGED own /\ UNCHANGED kept

(* ownDisk: the verdict there is on this medium and these partitions, else *)
(* a new one.                                                              *)
OwnDisk ==
  /\ poll.pc = "own"
  /\ LET d == poll.d
         mine == IsMedium(d) \/ \E p \in poll.devs : SCLabel(<<d, p>>)
         v == IF own[d].seq = poll.seq /\ own[d].devs = poll.devs THEN own[d]
              ELSE [seq |-> poll.seq, devs |-> poll.devs, own |-> mine]
     IN /\ own' = [own EXCEPT ![d] = v]
        /\ poll' = [poll EXCEPT !.pc = "look", !.todo = @ \ {d}, !.d = 0, !.seq = 0, !.devs = {},
                                !.want = [b \in Devs |-> IF b[1] = d /\ b[2] \in poll.devs /\ ~v.own
                                                         THEN poll.seq ELSE @[b]]]
  /\ UNCHANGED kept
-----------------------------------------------------------------------------
(* Poll, under the lock: the unmounts, then the mounts that are due.       *)

Stands(b) == mounts[b] # NoMount /\ poll.want[b] = mounts[b].seq /\ mounts[b].disk \notin held

(* The failures that count: those of the medium there is now.              *)
Failures(b, seq) == IF failed[b].seq = seq THEN failed[b].n ELSE 0

(* GoodMounted: the failures of whatever medium there was count.           *)
DueMutant(b) == poll.want[b] # 0 /\ ~Stands(b) /\ failed[b].n < Attempts

Due(b) == poll.want[b] # 0 /\ ~Stands(b) /\ Failures(b, poll.want[b]) < Attempts

(* StaleGoes: a mount goes when its block device has gone.                 *)
LockMutant ==
  /\ poll.pc = "look" /\ poll.todo = {}
  /\ mounts' = [b \in Devs |-> IF poll.want[b] # 0 /\ mounts[b].disk \notin held THEN mounts[b]
                               ELSE NoMount]
  /\ poll' = [poll EXCEPT !.pc = "due", !.due = {b \in Devs : mounts'[b] = NoMount /\ Due(b)}]
  /\ UNCHANGED <<slot, count, up, held, left, failed, own>>

Lock ==
  /\ poll.pc = "look" /\ poll.todo = {}
  /\ mounts' = [b \in Devs |-> IF Stands(b) THEN mounts[b] ELSE NoMount]
  /\ poll' = [poll EXCEPT !.pc = "due", !.due = {b \in Devs : Due(b)}]
  /\ UNCHANGED <<slot, count, up, held, left, failed, own>>

(* diskOf: the partition itself, which is no disk, while it does not show. *)
Found(b) == IF b[2] = 0 \/ b[2] \in slot[b[1]].parts THEN b[1] ELSE 0

(* HeldUntouched: only the mounts there are are held, not the new ones.    *)
DiskOfMutant(b) ==
  /\ poll.pc = "due" /\ b \in poll.due
  /\ poll' = [poll EXCEPT !.pc = "mount", !.due = @ \ {b}, !.b = b, !.d = Found(b)]
  /\ UNCHANGED own /\ UNCHANGED kept

(* diskOf, and whether that disk is held.                                  *)
DiskOf(b) ==
  /\ poll.pc = "due" /\ b \in poll.due
  /\ poll' = IF Found(b) \in held THEN [poll EXCEPT !.due = @ \ {b}]
             ELSE [poll EXCEPT !.pc = "mount", !.due = @ \ {b}, !.b = b, !.d = Found(b)]
  /\ UNCHANGED own /\ UNCHANGED kept

(* mount: what is in the drive by now.                                     *)
Mount ==
  /\ poll.pc = "mount"
  /\ LET b == poll.b
         seq == poll.want[b]
     IN  \/ /\ HasFS(b)
            /\ mounts' = [mounts EXCEPT ![b] = [disk |-> poll.d, seq |-> seq, is |-> slot[b[1]].seq]]
            /\ failed' = [failed EXCEPT ![b] = NoFailure]
         \/ /\ HasFS(b) => <<b, slot[b[1]].seq>> \in left
            /\ failed' = [failed EXCEPT ![b] = [seq |-> seq, n |-> Failures(b, seq) + 1]]
            /\ UNCHANGED mounts
  /\ poll' = [poll EXCEPT !.pc = "due", !.b = NoDev, !.d = 0]
  /\ UNCHANGED <<slot, count, up, held, left, own>>

Unlock ==
  /\ poll.pc = "due" /\ poll.due = {} /\ poll' = NoPoll
  /\ UNCHANGED own /\ UNCHANGED kept
-----------------------------------------------------------------------------
(* startInstall: Hold, with the lock; the installer writes the disk.       *)

Hold(d) ==
  /\ up /\ poll.pc \notin {"due", "mount"} /\ d \notin held /\ slot[d] # NoMedium
  /\ held' = held \cup {d}
  /\ mounts' = [b \in Devs |-> IF mounts[b].disk = d THEN NoMount ELSE mounts[b]]
  /\ UNCHANGED <<slot, count, up, left, failed, own, poll>>

Install(d) ==
  /\ up /\ d \in held /\ slot[d] # NoMedium
  /\ \E ps \in SUBSET Parts :
       slot' = [slot EXCEPT ![d] = [@ EXCEPT !.kind = "own", !.parts = ps, !.ready = TRUE]]
  /\ UNCHANGED count /\ UNCHANGED watcher

(* The process dies, and is started again (Startup); nothing unmounts what *)
(* it had mounted.                                                         *)
Crash ==
  /\ up /\ up' = FALSE
  /\ left' = left \cup {<<b, mounts[b].is>> : b \in {x \in Devs : mounts[x] # NoMount}}
  /\ Fresh
  /\ UNCHANGED <<slot, count>>

Startup ==
  /\ ~up /\ up' = TRUE
  /\ UNCHANGED <<slot, count, held, mounts, left, failed, own, poll>>

Poll == \/ Start \/ Partitions \/ OwnDisk \/ Lock \/ Mount \/ Unlock
        \/ \E d \in Disks : MediumOf(d)
        \/ \E b \in Devs : DiskOf(b)

Next ==
  \/ \E d \in Disks : \/ \E k \in Kinds : Insert(d, k)
                      \/ \E p \in Parts : PartShows(d, p)
                      \/ Readable(d) \/ Remove(d) \/ Hold(d) \/ Install(d)
  \/ Poll \/ Crash \/ Startup

Spec == Init /\ [][Next]_vars

(* Run polls for ever, and init starts the kiosk's process again.          *)
FairSpec == Spec /\ WF_vars(Poll) /\ WF_vars(Startup)
-----------------------------------------------------------------------------
(* Once the installer has been given a disk, this process has nothing on   *)
(* it mounted, also by a Poll that had seen it before, but for a partition *)
(* that did not show when Poll asked whose it was (Hold, Poll, diskOf).    *)
HeldUntouched == \A b \in Devs : b[1] \in held => mounts[b] = NoMount \/ mounts[b].disk = 0

(* The kernel has block device b mounted with medium q, whoever did it.    *)
Offered(b, q) == mounts[b].is = q \/ <<b, q>> \in left

(* "A drive pulled out is unmounted": also when another has been put in by *)
(* the next look, and when Poll took the one for the other, but for what a *)
(* process that died has left mounted (Poll, mediumOf).                    *)
StaleGoes ==
  \A b \in Devs, q \in 1..MaxMedia :
    (mounts[b].is = q /\ slot[b[1]].seq # q) ~> (~Offered(b, q) \/ <<b, q>> \in left)

(* A drive with files on it that is readable before its attempts are used  *)
(* up is offered in the end, whatever was in the drive before it and       *)
(* however often that failed, unless the process keeps dying (Poll,        *)
(* failure, ownDisk).                                                      *)
GoodMounted ==
  \A b \in Devs, q \in 1..MaxMedia :
    (/\ slot[b[1]].seq = q /\ slot[b[1]].kind = "plain" /\ HasFS(b)
     /\ Failures(b, q) < Attempts /\ b[1] \notin held)
    ~> (Offered(b, q) \/ slot[b[1]].seq # q \/ b[1] \in held \/ ~up)
=============================================================================
