-------------------------- MODULE BootUpdate_proofs --------------------------
(***************************************************************************)
(* What BootUpdate guarantees for every set of releases, machines and      *)
(* adapters, any number of faults, updates and restarts: its invariants,   *)
(* that it implements ABSlots and, with BootHistory's record of the boot   *)
(* before, how one boot bears on the next.                                 *)
(***************************************************************************)
EXTENDS BootHistory, TLAPS

(* GRUB has picked a slot and a kernel.                                    *)
MenuInv == phase = "menu" => boot.slot \in Slots /\ boot.kernel \in Kernels

(* The slot the machine runs from is whole and stays so.                   *)
BootInv == phase \in Running =>
             /\ boot.slot \in Slots
             /\ slots[boot.slot] = [rel |-> boot.rel, st |-> "whole"]
             /\ boot.kernel \in hw.loads[boot.rel]

Bootable(s) == slots[s].st = "whole" /\ hw.loads[slots[s].rel] # {}

WholeInv == \A s \in Slots : slots[s].st = "whole" => slots[s].rel \in Releases

(* Install works on the slot that is neither running nor the one to come   *)
(* back to, and the copy of grubenv it changes says so too.                *)
UpdInv == /\ upd # "idle" => /\ phase = "kiosk" /\ screen = "update" /\ power = ""
                             /\ updRel \in Releases
          /\ upd \notin {"idle", "check"} => env.boot = boot.slot
          /\ upd = "trywrite" => snap["upd"].boot = boot.slot

(* The power dialog and an update exclude each other, so the slot that a   *)
(* stale copy of grubenv comes back to is still bootable.                  *)
PowerInv == /\ power # "" => phase = "kiosk" /\ screen = "power" /\ upd = "idle"
            /\ power = "write" => Bootable(snap["driver"].boot)

IInv == /\ TypeOK
        /\ Bootable(env.boot)
        /\ WholeInv /\ MenuInv /\ BootInv /\ UpdInv /\ PowerInv
        /\ NeverStuck
-----------------------------------------------------------------------------
(* What the helpers of the model make of a well-formed grubenv is one.     *)

(* GRUB's changes to grubenv keep it well-formed, and keep the slot to     *)
(* come back to (build/grub-disk.cfg's first half).                        *)
LEMMA GrubEnvs ==
  ASSUME NEW e \in EnvType
  PROVE  /\ e.gfxtry # "" => GraphicsDied(e) \in EnvType /\ GraphicsDied(e).boot = e.boot
         /\ TryTaken(e) \in EnvType /\ TryTaken(e).boot = e.boot
         /\ \A k \in Kernels : /\ BootPending(e, k) \in EnvType
                               /\ BootPending(e, k).boot = e.boot
         /\ [e EXCEPT !.gfxsafe = {}] \in EnvType
         /\ [e EXCEPT !.gfxsafe = {}].boot = e.boot
  BY DEF EnvType, GraphicsDied, TryTaken, BootPending

(* So do /init's marks and the kiosk's changes, bootenv.MarkGood's alone   *)
(* changing the slot to come back to.                                      *)
LEMMA KioskEnvs ==
  ASSUME NEW e \in EnvType, boot \in BootType
  PROVE  /\ [e EXCEPT !.gfxtry = boot.gpus] \in EnvType
         /\ [e EXCEPT !.gfxtry = boot.gpus].boot = e.boot
         /\ GraphicsOK(e) \in EnvType /\ GraphicsOK(e).boot = e.boot
         /\ RetryGPUs(e) \in EnvType /\ RetryGPUs(e).boot = e.boot
         /\ TryOther(e) \in EnvType /\ TryOther(e).boot = e.boot
<1>1. boot.gpus \in GPUs \cup {""} /\ Other(boot.slot) \in Slots
  BY DEF BootType, Other, Slots
<1>2. 0 \in 0..(SafeRetryEvery - 1)
  BY CountsAssumption
<1>3. /\ [e EXCEPT !.gfxtry = boot.gpus] \in EnvType
      /\ [e EXCEPT !.gfxtry = boot.gpus].boot = e.boot
  BY <1>1 DEF EnvType
<1>4. GraphicsOK(e) \in EnvType /\ GraphicsOK(e).boot = e.boot
  BY DEF EnvType, GraphicsOK
<1>5. RetryGPUs(e) \in EnvType /\ RetryGPUs(e).boot = e.boot
  BY <1>1, <1>2 DEF EnvType, RetryGPUs
<1>6. TryOther(e) \in EnvType /\ TryOther(e).boot = e.boot
  BY <1>1 DEF EnvType, TryOther
<1> QED BY <1>3, <1>4, <1>5, <1>6

(* MarkGood names the slot and the kernel that run, and counts no further  *)
(* than SafeRetryEvery - 1.                                                *)
LEMMA MarkGoodEnv ==
  ASSUME NEW e \in EnvType, NEW nl \in BOOLEAN, boot \in BootType,
         boot.slot \in Slots, boot.kernel \in Kernels
  PROVE  MarkGood(e, nl) \in EnvType /\ MarkGood(e, nl).boot = boot.slot
<1>1. Keep(e) \in EnvType /\ Keep(e).boot = boot.slot /\ Keep(e).safeboots = e.safeboots
  BY DEF EnvType, BootType, Keep
<1>2. RetryGPUs(Keep(e)) \in EnvType /\ RetryGPUs(Keep(e)).boot = boot.slot
  BY <1>1, KioskEnvs
<1>3. ASSUME ~RetryDue(e)
      PROVE  [Keep(e) EXCEPT !.safeboots = @ + 1] \in EnvType
  <2>1. e.safeboots + 1 \in 0..(SafeRetryEvery - 1)
    <3>1. e.safeboots \in 0..(SafeRetryEvery - 1)
      BY DEF EnvType
    <3> QED BY <1>3, <3>1, CountsAssumption DEF RetryDue
  <2> QED BY <1>1, <2>1 DEF EnvType
<1>4. [Keep(e) EXCEPT !.gfxsafe = {}, !.gfxfail = "", !.safeboots = 0] \in EnvType
  <2>1. 0 \in 0..(SafeRetryEvery - 1)
    BY CountsAssumption
  <2> QED BY <1>1, <2>1 DEF EnvType
<1>5. /\ [Keep(e) EXCEPT !.safeboots = @ + 1].boot = boot.slot
      /\ [Keep(e) EXCEPT !.gfxsafe = {}, !.gfxfail = "", !.safeboots = 0].boot = boot.slot
  BY <1>1 DEF EnvType
<1> QED BY <1>1, <1>2, <1>3, <1>4, <1>5 DEF MarkGood
-----------------------------------------------------------------------------
(* The invariant holds at first, and every action keeps it.                *)

(* What sc-install writes into grubenv is well-formed.                     *)
LEMMA NewEnvType == NewEnv \in EnvType
<1>1. 0 \in 0..(SafeRetryEvery - 1)
  BY CountsAssumption
<1> QED BY <1>1 DEF NewEnv, EnvType, Slots, Kernels

(* So is a machine that runs nothing.                                      *)
LEMMA NoBootType == NoBoot \in BootType
  BY DEF NoBoot, BootType

(* A disk as sc-install leaves it, switched off.                           *)
LEMMA InitInv == Init => IInv
<1> SUFFICES ASSUME Init PROVE IInv
  OBVIOUS
<1>1. TypeOK
  BY NewEnvType, ReleasesNat, ScriptsAssumption
  DEF Init, KioskInit, TypeOK, Phases, BootType, NoBoot, SlotType, Slots, UpdPhases, MgPhases,
      NoTry, TriedType
<1>2. Bootable(env.boot) /\ WholeInv
  BY MachinesAssumption, ReleasesNat DEF Init, Bootable, WholeInv, NewEnv, Slots
<1>3. MenuInv /\ BootInv /\ UpdInv /\ PowerInv /\ NeverStuck
  BY DEF Init, KioskInit, MenuInv, BootInv, Running, UpdInv, PowerInv, NeverStuck
<1> QED BY <1>1, <1>2, <1>3 DEF IInv

(* The machine goes down.                                                  *)
LEMMA GoDownInv == IInv /\ GoDown /\ events' \in Nat => IInv'
<1> SUFFICES ASSUME IInv, GoDown, events' \in Nat PROVE IInv'
  OBVIOUS
<1> USE DEF IInv, GoDown, KioskGone, disk
<1>1. TypeOK'
  BY NewEnvType DEF TypeOK, Phases, BootType, NoBoot, UpdPhases, MgPhases
<1>2. Bootable(env.boot)' /\ WholeInv'
  BY DEF Bootable, WholeInv
<1>3. (MenuInv /\ BootInv /\ UpdInv /\ PowerInv /\ NeverStuck)'
  BY DEF MenuInv, BootInv, Running, UpdInv, PowerInv, NeverStuck
<1> QED BY <1>1, <1>2, <1>3

(* GRUB reads grubenv and picks.                                           *)
LEMMA GrubInv == IInv /\ (LoadEnv \/ PickSlot) => IInv'
<1> SUFFICES ASSUME IInv, LoadEnv \/ PickSlot PROVE IInv'
  OBVIOUS
<1> USE DEF IInv, kiosk
<1>1. CASE LoadEnv
  <2>1. env' \in EnvType /\ env'.boot = env.boot
    BY <1>1, GrubEnvs DEF LoadEnv, TypeOK
  <2>2. kpend' \in BOOLEAN
    BY <1>1 DEF LoadEnv, TypeOK, EnvType, KernelPending
  <2>3. TypeOK'
    BY <1>1, <2>1, <2>2 DEF LoadEnv, TypeOK, Phases
  <2> QED
    BY <1>1, <2>1, <2>3 DEF LoadEnv, Bootable, WholeInv, MenuInv, BootInv, Running, UpdInv,
                            PowerInv, NeverStuck
<1>2. CASE PickSlot
  <2> DEFINE k == IF kpend THEN Toggle(env.kernel) ELSE env.kernel
  <2>1. env.kernel \in Kernels /\ env.boot \in Slots /\ env.try \in Slots \cup {""} /\ k \in Kernels
    BY DEF TypeOK, EnvType, Toggle, Kernels
  <2>2. env' \in EnvType /\ env'.boot = env.boot
    <3>1. env' = TryTaken(env) \/ env' = BootPending(env, k)
      BY <1>2 DEF PickSlot
    <3> HIDE DEF k
    <3>2. env \in EnvType
      BY DEF TypeOK
    <3>3. /\ TryTaken(env) \in EnvType /\ TryTaken(env).boot = env.boot
          /\ BootPending(env, k) \in EnvType /\ BootPending(env, k).boot = env.boot
      BY <2>1, <3>2, GrubEnvs
    <3> QED BY <3>1, <3>3
  <2>3. boot' \in BootType /\ boot'.slot \in Slots /\ boot'.kernel \in Kernels
    BY <1>2, <2>1 DEF PickSlot, BootType, NoBoot
  <2>4. TypeOK'
    BY <1>2, <2>2, <2>3 DEF PickSlot, TypeOK, Phases
  <2> QED
    BY <1>2, <2>2, <2>3, <2>4 DEF PickSlot, Bootable, WholeInv, MenuInv, BootInv, Running,
                                  UpdInv, PowerInv, NeverStuck
<1> QED BY <1>1, <1>2

(* A kernel starts only from a whole slot (sc_start).                      *)
LEMMA StartInv ==
  ASSUME IInv, NEW k \in Kernels, NEW s \in Slots, NEW once \in BOOLEAN,
         NEW safe \in SUBSET GPUs, Start(k, s, once, safe)
  PROVE  /\ boot' \in BootType /\ boot'.slot = s /\ phase' = "init"
         /\ slots[s] = [rel |-> boot'.rel, st |-> "whole"]
         /\ boot'.kernel \in hw.loads[boot'.rel]
<1>1. slots[s] \in SlotType
  BY DEF IInv, TypeOK
<1>2. PICK g \in Adapters : boot' = [slot |-> s, kernel |-> k, rel |-> slots[s].rel,
                                     safe |-> safe, once |-> once, gpus |-> g]
  BY DEF Start
<1>3. boot' \in BootType
  BY <1>1, <1>2, GPUsAssumption DEF SlotType, BootType
<1>4. slots[s] = [rel |-> boot'.rel, st |-> "whole"]
  BY <1>1, <1>2 DEF Start, Loads, SlotType
<1> QED BY <1>2, <1>3, <1>4 DEF Start, Loads

(* The boot menu, by its timeout or by hand.                               *)
LEMMA BootDefaultInv == IInv /\ BootDefault => IInv'
<1> SUFFICES ASSUME IInv, BootDefault PROVE IInv'
  OBVIOUS
<1> USE DEF IInv
<1>0. /\ phase = "menu"
      /\ UNCHANGED <<hw, env, slots, loader, tried, failed, kpend, marked, screen, power, upd,
                     updRel, mg, mgNew, mgTry, pending, snap, events>>
  BY DEF BootDefault, kiosk, disk
<1>1. /\ boot.slot \in Slots /\ Other(boot.slot) \in Slots /\ boot.kernel \in Kernels
      /\ "lts" \in Kernels /\ env.gfxsafe \in SUBSET GPUs
  BY DEF BootDefault, MenuInv, Other, Slots, Kernels, TypeOK, EnvType
<1>2. CASE phase' = "stuck" /\ boot' = NoBoot
           /\ ~Loads(boot.kernel, boot.slot) /\ ~Loads("lts", boot.slot) /\ ~PreviousLoads
  <2>1. TypeOK'
    BY <1>0, <1>2, NoBootType DEF TypeOK, Phases
  <2>2. ~Loads(boot.kernel, env.boot)
    <3>1. env.boot = boot.slot \/ env.boot = Other(boot.slot)
      BY <1>1 DEF TypeOK, EnvType, Slots, Other
    <3> QED BY <1>2, <3>1 DEF PreviousLoads
  <2>3. slots[env.boot].rel \in Releases /\ hw.loads[slots[env.boot].rel] \notin {{}, Kernels}
    BY <1>1, <2>2 DEF Bootable, WholeInv, Loads, TypeOK, EnvType
  <2>4. NeverStuck'
    BY <1>0, <2>3 DEF NeverStuck
  <2> QED
    BY <1>0, <1>2, <2>1, <2>4 DEF Bootable, WholeInv, MenuInv, BootInv, Running,
                            UpdInv, PowerInv
<1>3. CASE \E k \in Kernels, s \in Slots : Start(k, s, FALSE, env.gfxsafe)
  <2>1. PICK k \in Kernels, s \in Slots : Start(k, s, FALSE, env.gfxsafe)
    BY <1>3
  <2>2. /\ boot' \in BootType /\ boot'.slot = s /\ phase' = "init"
        /\ slots[s] = [rel |-> boot'.rel, st |-> "whole"]
        /\ boot'.kernel \in hw.loads[boot'.rel]
    BY <1>1, <2>1, StartInv
  <2>3. TypeOK'
    BY <1>0, <2>2 DEF TypeOK, Phases
  <2> QED
    BY <1>0, <2>2, <2>3 DEF Bootable, WholeInv, MenuInv, BootInv, UpdInv, PowerInv,
                      NeverStuck
<1> QED BY <1>1, <1>2, <1>3 DEF BootDefault

(* An entry of the boot menu that someone picks.                           *)
LEMMA BootMenuInv == \A e \in Entries : IInv /\ BootMenu(e) => IInv'
<1> SUFFICES ASSUME IInv, NEW e \in Entries, BootMenu(e) PROVE IInv'
  OBVIOUS
<1> USE DEF IInv
<1>0. /\ phase = "menu"
      /\ UNCHANGED <<hw, slots, loader, tried, failed, kpend, marked, screen, power, upd,
                     updRel, mg, mgNew, mgTry, pending, snap, events>>
  BY DEF BootMenu, kiosk
<1>1. /\ boot.slot \in Slots /\ Other(boot.slot) \in Slots /\ boot.kernel \in Kernels
      /\ "lts" \in Kernels /\ env.gfxsafe \in SUBSET GPUs
  BY DEF BootMenu, MenuInv, Other, Slots, Kernels, TypeOK, EnvType
<1>2. env' \in EnvType /\ env'.boot = env.boot
  BY GrubEnvs DEF BootMenu, TypeOK
<1>3. CASE UNCHANGED <<phase, boot>>
  <2>1. TypeOK'
    BY <1>0, <1>2, <1>3 DEF TypeOK
  <2> QED
    BY <1>0, <1>2, <1>3, <2>1 DEF Bootable, WholeInv, MenuInv, BootInv, UpdInv, PowerInv,
                                  NeverStuck
<1>4. CASE \E k \in Kernels, s \in Slots, once \in BOOLEAN, safe \in SUBSET GPUs :
             Start(k, s, once, safe)
  <2>1. PICK k \in Kernels, s \in Slots, once \in BOOLEAN, safe \in SUBSET GPUs :
             Start(k, s, once, safe)
    BY <1>4
  <2>2. /\ boot' \in BootType /\ boot'.slot = s /\ phase' = "init"
        /\ slots[s] = [rel |-> boot'.rel, st |-> "whole"]
        /\ boot'.kernel \in hw.loads[boot'.rel]
    BY <2>1, StartInv
  <2>3. TypeOK'
    BY <1>0, <1>2, <2>2 DEF TypeOK, Phases
  <2> QED
    BY <1>0, <1>2, <2>2, <2>3 DEF Bootable, WholeInv, MenuInv, BootInv, UpdInv, PowerInv,
                            NeverStuck
<1> QED BY <1>1, <1>3, <1>4 DEF BootMenu

(* A write of grubenv, whole or failed.                                    *)
LEMMA EnvWriteEnv ==
  ASSUME NEW e \in EnvType, NEW ok \in BOOLEAN, EnvWrite(e, ok), env \in EnvType
  PROVE  env' \in EnvType /\ env' \in {env, e}
  BY DEF EnvWrite

(* A step of the boot from the kernel's start to the kiosk's: grubenv's    *)
(* marks may change, the slot to come back to does not.                    *)
LEMMA BootStepInv ==
  ASSUME IInv, phase \in Running, phase' \in Running, phase' # "kiosk", phase # "kiosk",
         env' \in EnvType, env'.boot = env.boot, marked' \in BOOLEAN,
         UNCHANGED <<hw, slots, loader, tried, failed, kpend, boot, screen, power, upd,
                     updRel, mg, mgNew, mgTry, pending, snap, events>>
  PROVE  IInv'
<1> USE DEF IInv
<1>0. phase' \in Phases
  BY DEF Phases, Running
<1>1. TypeOK'
  BY <1>0 DEF TypeOK
<1> QED
  BY <1>1 DEF Bootable, WholeInv, MenuInv, BootInv, Running, UpdInv, PowerInv, NeverStuck

(* /init: the firmware framebuffer or the driver.                          *)
LEMMA InitGraphicsInv == IInv /\ InitGraphics => IInv'
<1> SUFFICES ASSUME IInv, InitGraphics PROVE IInv'
  OBVIOUS
<1>1. env \in EnvType /\ boot \in BootType /\ marked \in BOOLEAN
  BY DEF IInv, TypeOK
<1>2. env' \in EnvType /\ env'.boot = env.boot /\ marked' \in BOOLEAN
  <2>1. CASE UNCHANGED <<env, marked>>
    BY <1>1, <2>1
  <2>2. CASE \E ok \in BOOLEAN : EnvWrite([env EXCEPT !.gfxtry = boot.gpus], ok) /\ marked' = ok
    BY <1>1, <2>2, KioskEnvs, EnvWriteEnv
  <2> QED BY <2>1, <2>2 DEF InitGraphics
<1>3. phase = "init" /\ phase' \in {"start", "driver"}
  BY DEF InitGraphics
<1> QED BY <1>2, <1>3, BootStepInv DEF InitGraphics, kiosk, Running

(* The driver gives a screen, and the mark goes.                           *)
LEMMA DriverUpInv == IInv /\ DriverUp => IInv'
<1> SUFFICES ASSUME IInv, DriverUp PROVE IInv'
  OBVIOUS
<1>1. env \in EnvType /\ boot \in BootType
  BY DEF IInv, TypeOK
<1>2. env' \in EnvType /\ env'.boot = env.boot
  <2>1. CASE env' = env
    BY <1>1, <2>1
  <2>2. CASE \E ok \in BOOLEAN : EnvWrite(GraphicsOK(env), ok)
    BY <1>1, <2>2, KioskEnvs, EnvWriteEnv
  <2> QED BY <2>1, <2>2 DEF DriverUp
<1> QED BY <1>2, BootStepInv DEF DriverUp, kiosk, Running

(* It gives none: a restart, or a kiosk that cannot draw.                  *)
LEMMA DriverDarkInv == IInv /\ DriverDark => IInv'
<1> SUFFICES ASSUME IInv, DriverDark PROVE IInv'
  OBVIOUS
<1>1. events \in Nat /\ env \in EnvType /\ marked \in BOOLEAN
  BY DEF IInv, TypeOK
<1>2. CASE GoDown /\ UNCHANGED events
  BY <1>1, <1>2, GoDownInv
<1>3. CASE phase' = "dark" /\ UNCHANGED <<hw, disk, kpend, boot, marked, kiosk, events>>
  BY <1>1, <1>3, BootStepInv DEF DriverDark, disk, kiosk, Running
<1> QED BY <1>2, <1>3 DEF DriverDark

(* Every way down.                                                         *)
LEMMA DownInv == IInv /\ (Die \/ Cut \/ Restart) => IInv'
<1> SUFFICES ASSUME IInv, Die \/ Cut \/ Restart PROVE IInv'
  OBVIOUS
<1>1. GoDown
  BY DEF Die, Cut, Restart
<1>2. events' = events \/ events' = events + 1
  BY DEF Die, Cut, Restart
<1>3. events \in Nat
  BY DEF IInv, TypeOK
<1> QED BY <1>1, <1>2, <1>3, GoDownInv

(* The kiosk's start and its crash.                                        *)
LEMMA KioskInv == IInv /\ (KioskStart \/ KioskCrash) => IInv'
<1> SUFFICES ASSUME IInv, KioskStart \/ KioskCrash PROVE IInv'
  OBVIOUS
<1>1. CASE KioskStart
  <2>1. tried' \in TriedType /\ failed' \in Releases \cup {0}
    <3>1. /\ tried \in TriedType
          /\ failed \in Releases \cup {0}
      BY DEF IInv, TypeOK
    <3>2. \/ tried' = tried /\ failed' = failed
          \/ tried' = NoTry /\ failed' = tried.rel
      BY <1>1 DEF KioskStart, Settle
    <3>3. tried.rel \in Releases \cup {0}
      BY <3>1 DEF TriedType
    <3>4. NoTry \in TriedType
      BY DEF NoTry, TriedType
    <3> QED BY <3>1, <3>2, <3>3, <3>4
  <2>2. /\ phase = "start" /\ phase' = "kiosk"
        /\ UNCHANGED <<hw, env, slots, loader, kpend, boot, marked, screen, power, upd,
                       updRel, mg, mgNew, mgTry, pending, snap, events>>
    BY <1>1 DEF KioskStart, kiosk
  <2>3. TypeOK'
    BY <2>1, <2>2 DEF IInv, TypeOK, Phases
  <2> QED
    BY <2>2, <2>3 DEF IInv, Bootable, WholeInv, MenuInv, BootInv, Running, UpdInv, PowerInv,
                      NeverStuck
<1>2. CASE KioskCrash
  <2>0. events' \in Nat
    <3>1. events' = events + 1
      BY <1>2 DEF KioskCrash
    <3>2. events \in Nat
      BY DEF IInv, TypeOK
    <3> QED BY <3>1, <3>2
  <2>1. /\ phase = "kiosk" /\ phase' = "start"
        /\ screen' = "list" /\ power' = "" /\ upd' = "idle" /\ updRel' = 0
        /\ mg' = "wait" /\ mgNew' = FALSE /\ mgTry' = 0 /\ pending' = FALSE
        /\ snap' = [g \in Routines |-> NewEnv]
        /\ UNCHANGED <<hw, env, slots, loader, tried, failed, kpend, boot, marked>>
    BY <1>2 DEF KioskCrash, KioskGone, disk
  <2>2. TypeOK'
    BY <2>0, <2>1, NewEnvType DEF IInv, TypeOK, Phases, UpdPhases, MgPhases
  <2> QED
    BY <2>1, <2>2 DEF IInv, Bootable, WholeInv, MenuInv, BootInv, Running, UpdInv, PowerInv,
                      NeverStuck
<1> QED BY <1>1, <1>2

(* The slot that runs is one GRUB can come back to.                        *)
LEMMA RunningBootable == IInv /\ phase \in Running => Bootable(boot.slot)
<1> SUFFICES ASSUME IInv, phase \in Running PROVE Bootable(boot.slot)
  OBVIOUS
<1>1. /\ slots[boot.slot] = [rel |-> boot.rel, st |-> "whole"]
      /\ boot.kernel \in hw.loads[boot.rel]
  BY DEF IInv, BootInv
<1>2. slots[boot.slot].st = "whole" /\ slots[boot.slot].rel = boot.rel
  BY <1>1
<1> QED BY <1>1, <1>2 DEF Bootable

(* A step of MarkGood's goroutine leaves an invariant state when grubenv   *)
(* stays well-formed and, if it changes, names the slot that runs.         *)
LEMMA ProveStepInv ==
  ASSUME IInv, phase = "kiosk", env' \in EnvType, env'.boot \in {env.boot, boot.slot},
         tried' \in TriedType,
         failed' \in Releases \cup {0}, loader' \in Scripts, mg' \in MgPhases,
         mgNew' \in BOOLEAN, mgTry' \in Nat, pending' \in BOOLEAN,
         snap' \in [Routines -> EnvType],
         snap'["upd"] = snap["upd"], snap'["driver"] = snap["driver"],
         UNCHANGED <<hw, slots, phase, kpend, boot, marked, screen, power, upd, updRel,
                     events>>
  PROVE  IInv'
<1>1. TypeOK'
  BY DEF IInv, TypeOK
<1>2. Bootable(env.boot)'
  <2>2. Bootable(boot.slot)
    BY RunningBootable DEF Running
  <2>3. Bootable(env.boot)
    BY DEF IInv
  <2> QED BY <2>2, <2>3 DEF Bootable
<1> QED
  BY <1>1, <1>2 DEF IInv, Bootable, WholeInv, MenuInv, BootInv, UpdInv, PowerInv, NeverStuck

(* The slot and the kernel that run are known ones.                        *)
LEMMA RunningBoot ==
  ASSUME IInv, phase = "kiosk"
  PROVE  boot.slot \in Slots /\ boot.kernel \in Kernels /\ boot.rel \in Releases
<1>1. /\ boot.slot \in Slots /\ boot.kernel \in hw.loads[boot.rel]
      /\ slots[boot.slot] = [rel |-> boot.rel, st |-> "whole"]
  BY DEF IInv, BootInv, Running
<1>2. boot.rel \in Releases
  BY <1>1 DEF IInv, WholeInv
<1>3. hw \in MachineType
  BY MachinesAssumption DEF IInv, TypeOK
<1>4. hw.loads[boot.rel] \in SUBSET Kernels
  BY <1>2, <1>3 DEF MachineType
<1> QED BY <1>1, <1>2, <1>4

(* main's goroutine: MarkGood's read, write and loader, and Kept.          *)
LEMMA ProvesInv == IInv /\ Proves => IInv'
<1> SUFFICES ASSUME IInv, Proves PROVE IInv'
  OBVIOUS
<1>1. /\ env \in EnvType /\ boot \in BootType /\ loader \in Scripts /\ mgNew \in BOOLEAN
      /\ tried \in TriedType
      /\ failed \in Releases \cup {0} /\ mg \in MgPhases /\ mgTry \in Nat
      /\ pending \in BOOLEAN /\ snap \in [Routines -> EnvType]
  BY DEF IInv, TypeOK
<1>2. phase = "kiosk"
  BY DEF Proves, MarkGoodRead, MarkGoodWrite, MarkGoodLoader, Kept
<1>3. /\ boot.slot \in Slots /\ boot.kernel \in Kernels /\ boot.rel \in Releases
  BY <1>2, RunningBoot
<1>4. mg' \in MgPhases
  BY <1>1 DEF Proves, MarkGoodRead, MarkGoodWrite, MarkGoodLoader, MarkGoodAgain, Kept,
              MgPhases
<1>5. CASE MarkGoodRead
  <2>1. mgNew' \in BOOLEAN /\ snap' \in [Routines -> EnvType]
        /\ snap'["upd"] = snap["upd"] /\ snap'["driver"] = snap["driver"]
    BY <1>1, <1>5 DEF MarkGoodRead, Routines
  <2> QED BY <1>1, <1>2, <1>4, <1>5, <2>1, ProveStepInv DEF MarkGoodRead, disk
<1>6. CASE MarkGoodWrite
  <2> DEFINE e == Modified(snap["mg"], MarkGood(snap["mg"], mgNew))
  <2>1. snap["mg"] \in EnvType
    BY <1>1 DEF Routines
  <2>2. /\ MarkGood(snap["mg"], mgNew) \in EnvType
        /\ MarkGood(snap["mg"], mgNew).boot = boot.slot
    BY <1>1, <1>3, <2>1, MarkGoodEnv
  <2>3. e \in EnvType /\ e.boot \in {env.boot, boot.slot}
    BY <1>1, <2>2 DEF Modified
  <2>4. \E ok \in BOOLEAN : EnvWrite(e, ok)
    BY <1>6 DEF MarkGoodWrite
  <2>5. env' \in EnvType /\ env'.boot \in {env.boot, boot.slot}
    <3> HIDE DEF e
    <3> QED BY <1>1, <2>3, <2>4, EnvWriteEnv
  <2>6. mgTry' \in Nat
    <3>1. mgTry' = mgTry \/ mgTry' = mgTry + 1
      BY <1>6 DEF MarkGoodWrite, MarkGoodAgain
    <3>2. mgTry \in Nat
      BY <1>1
    <3> QED BY <3>1, <3>2
  <2> QED BY <1>1, <1>2, <1>4, <1>6, <2>5, <2>6, ProveStepInv DEF MarkGoodWrite
<1>7. CASE MarkGoodLoader
  <2>1. loader' \in Scripts
    BY <1>1, <1>3, <1>7, ScriptsAssumption DEF MarkGoodLoader
  <2>2. mgTry' \in Nat
    <3>1. mgTry' = mgTry \/ mgTry' = mgTry + 1
      BY <1>7 DEF MarkGoodLoader, MarkGoodAgain
    <3>2. mgTry \in Nat
      BY <1>1
    <3> QED BY <3>1, <3>2
  <2> QED BY <1>1, <1>2, <1>4, <1>7, <2>1, <2>2, ProveStepInv DEF MarkGoodLoader
<1>8. CASE Kept
  <2>1. NoTry \in TriedType
    BY DEF NoTry, TriedType
  <2>2. /\ tried' \in TriedType
        /\ failed' \in Releases \cup {0}
    BY <1>1, <1>8, <2>1 DEF Kept
  <2>3. pending' \in BOOLEAN
    BY <1>1, <1>8 DEF Kept
  <2> QED BY <1>1, <1>2, <1>4, <1>8, <2>2, <2>3, ProveStepInv DEF Kept
<1> QED BY <1>5, <1>6, <1>7, <1>8 DEF Proves

(* The update dialog, and the power dialog before anything is chosen.      *)
LEMMA DialogInv ==
  ASSUME IInv, phase = "kiosk", upd = "idle", power = "", power' \in {"", "driver", "go"},
         screen' \in {"list", "update", "power"}, power' # "" => screen' = "power",
         pending' \in BOOLEAN, events' \in Nat,
         UNCHANGED <<hw, env, slots, loader, tried, failed, phase, kpend, boot, marked, upd,
                     updRel, mg, mgNew, mgTry, snap>>
  PROVE  IInv'
<1>1. TypeOK'
  BY DEF IInv, TypeOK
<1> QED
  BY <1>1 DEF IInv, Bootable, WholeInv, MenuInv, BootInv, UpdInv, PowerInv, NeverStuck

(* Each of those dialogs' steps.                                           *)
LEMMA DialogsInv ==
  IInv /\ (\/ OpenUpdate \/ CloseUpdate \/ OpenPower \/ ClosePower \/ RestartWhenIdle
           \/ \E c \in {"go", "driver"} : PowerChoose(c)) => IInv'
<1> SUFFICES ASSUME IInv, \/ OpenUpdate \/ CloseUpdate \/ OpenPower \/ ClosePower
                          \/ RestartWhenIdle \/ \E c \in {"go", "driver"} : PowerChoose(c)
             PROVE IInv'
  OBVIOUS
<1>1. events \in Nat /\ pending \in BOOLEAN
  BY DEF IInv, TypeOK
<1>2. CASE OpenUpdate \/ CloseUpdate
  BY <1>1, <1>2, DialogInv DEF OpenUpdate, CloseUpdate, UpdateDialog, disk
<1>3. CASE OpenPower
  <2>1. upd = "idle" /\ power = ""
    BY <1>3 DEF IInv, UpdInv, PowerInv, OpenPower
  <2> QED BY <1>1, <1>3, <2>1, DialogInv DEF OpenPower, NotPower
<1>4. CASE ClosePower
  <2>1. upd = "idle" /\ power = ""
    BY <1>4 DEF IInv, UpdInv, ClosePower
  <2> QED BY <1>1, <1>4, <2>1, DialogInv DEF ClosePower, NotPower
<1>5. CASE RestartWhenIdle
  <2>1. upd = "idle" /\ power = ""
    BY <1>5 DEF IInv, UpdInv, PowerInv, RestartWhenIdle
  <2> QED BY <1>1, <1>5, <2>1, DialogInv DEF RestartWhenIdle, NotPower
<1>6. CASE \E c \in {"go", "driver"} : PowerChoose(c)
  <2>1. PICK c \in {"go", "driver"} : PowerChoose(c)
    BY <1>6
  <2>2. upd = "idle" /\ power = "" /\ screen = "power"
    BY <2>1 DEF IInv, UpdInv, PowerChoose
  <2>3. events' \in Nat
    <3>1. events' = events + 1
      BY <2>1 DEF PowerChoose
    <3> QED BY <1>1, <3>1
  <2> QED BY <1>1, <2>1, <2>2, <2>3, DialogInv DEF PowerChoose, NotPower
<1> QED BY <1>2, <1>3, <1>4, <1>5, <1>6

(* A step of Install that leaves the slots alone.                          *)
LEMMA InstallStepInv ==
  ASSUME IInv, phase = "kiosk", screen = "update", power = "",
         upd' \in UpdPhases, updRel' \in Releases \cup {0},
         upd' # "idle" => updRel' \in Releases,
         env' \in EnvType, env'.boot = env.boot,
         upd' \notin {"idle", "check"} => env.boot = boot.slot,
         upd' = "trywrite" => snap'["upd"].boot = boot.slot,
         snap' \in [Routines -> EnvType], snap'["driver"] = snap["driver"],
         tried' \in TriedType, events' \in Nat,
         UNCHANGED <<hw, slots, loader, failed, phase, kpend, boot, marked, screen, power,
                     mg, mgNew, mgTry, pending>>
  PROVE  IInv'
<1>1. TypeOK'
  BY DEF IInv, TypeOK
<1> QED
  BY <1>1 DEF IInv, Bootable, WholeInv, MenuInv, BootInv, UpdInv, PowerInv, NeverStuck

(* A step of Install that writes into the other slot.                      *)
LEMMA WriteStepInv ==
  ASSUME IInv, phase = "kiosk", upd \notin {"idle", "check"}, upd' \in UpdPhases,
         upd' # "trywrite", NEW r \in Releases \cup {0}, NEW st \in {"whole", "part", "none"},
         st = "whole" => r \in Releases, SetTarget(st, r),
         UNCHANGED <<hw, env, tried, updRel, snap, events, loader, failed, phase, kpend, boot,
                     marked, screen, power, mg, mgNew, mgTry, pending>>
  PROVE  IInv'
<1>1. /\ env.boot = boot.slot /\ boot.slot \in Slots /\ Target \in Slots
      /\ Target # boot.slot /\ power = "" /\ screen = "update" /\ updRel \in Releases
  BY DEF IInv, UpdInv, BootInv, Running, Target, Other, Slots
<1>2. slots \in [Slots -> SlotType] /\ [rel |-> r, st |-> st] \in SlotType
  BY DEF IInv, TypeOK, SlotType
<1>3. /\ slots' \in [Slots -> SlotType]
      /\ slots'[boot.slot] = slots[boot.slot]
      /\ \A s \in Slots : slots'[s] = slots[s] \/ slots'[s] = [rel |-> r, st |-> st]
  BY <1>1, <1>2 DEF SetTarget
<1>4. TypeOK'
  BY <1>3 DEF IInv, TypeOK
<1>5. WholeInv'
  BY <1>3 DEF IInv, WholeInv
<1>6. Bootable(env.boot)'
  BY <1>1, <1>3 DEF IInv, Bootable
<1>7. BootInv'
  BY <1>3 DEF IInv, BootInv
<1>8. UpdInv' /\ PowerInv' /\ MenuInv' /\ NeverStuck'
  BY <1>1 DEF IInv, UpdInv, PowerInv, MenuInv, NeverStuck
<1> QED BY <1>4, <1>5, <1>6, <1>7, <1>8 DEF IInv

(* The update dialog starts an installation.                               *)
LEMMA StartUpdateInv == \A r \in Releases : IInv /\ StartUpdate(r) => IInv'
<1> SUFFICES ASSUME IInv, NEW r \in Releases, StartUpdate(r) PROVE IInv'
  OBVIOUS
<1>1. /\ env \in EnvType /\ snap \in [Routines -> EnvType]
      /\ tried \in TriedType
  BY DEF IInv, TypeOK
<1>2. power = ""
  BY DEF IInv, PowerInv, StartUpdate
<1>3. events' \in Nat
  <2>1. events \in Nat
    BY DEF IInv, TypeOK
  <2>2. events' = events + 1
    BY DEF StartUpdate
  <2> QED BY <2>1, <2>2
<1>4. upd' = "check" /\ upd' \in UpdPhases
  BY DEF StartUpdate, UpdPhases
<1> QED BY <1>1, <1>2, <1>3, <1>4, InstallStepInv DEF StartUpdate, NotInstall

(* Install, step by step.                                                  *)
LEMMA InstallsInv == IInv /\ Installs => IInv'
<1> SUFFICES ASSUME IInv, Installs PROVE IInv'
  OBVIOUS
<1>1. /\ env \in EnvType /\ boot \in BootType /\ updRel \in Releases \cup {0}
      /\ tried \in TriedType
      /\ snap \in [Routines -> EnvType] /\ slots \in [Slots -> SlotType]
  BY DEF IInv, TypeOK
<1>2. events \in Nat
  BY DEF IInv, TypeOK
<1>3. /\ phase = "kiosk" /\ upd # "idle" /\ screen = "update" /\ power = ""
      /\ updRel \in Releases /\ boot.slot \in Slots
  <2>1. phase = "kiosk" /\ upd # "idle"
    BY DEF Installs, InstallCheck, UnpackGet, ClearSlot, Download, RenameFiles, TryOtherRead,
           TryOtherWrite, Remember
  <2> QED BY <2>1 DEF IInv, UpdInv, BootInv, Running
<1>4. upd' \in UpdPhases
  BY DEF Installs, InstallCheck, UnpackGet, ClearSlot, Download, RenameFiles, TryOtherRead,
         TryOtherWrite, Remember, UpdPhases
<1>5. CASE InstallCheck
  <2>1. upd' \notin {"idle", "check"} => env.boot = boot.slot
    BY <1>5 DEF InstallCheck, Proven
  <2>2. upd' # "trywrite"
    BY <1>5 DEF InstallCheck
  <2> QED
    BY <1>1, <1>2, <1>3, <1>4, <1>5, <2>1, <2>2, InstallStepInv DEF InstallCheck, NotInstall
<1>6. CASE UnpackGet \/ Download
  <2>1. upd \notin {"idle", "check"} /\ upd' # "trywrite"
    BY <1>6 DEF UnpackGet, Download
  <2>2. env.boot = boot.slot
    BY <2>1 DEF IInv, UpdInv
  <2> QED
    BY <1>1, <1>2, <1>3, <1>4, <1>6, <2>1, <2>2, InstallStepInv
    DEF UnpackGet, Download, NotInstall
<1>7. CASE ClearSlot \/ RenameFiles
  <2>1. upd \notin {"idle", "check"} /\ upd' # "trywrite"
    BY <1>7 DEF ClearSlot, RenameFiles
  <2>2. env.boot = boot.slot
    BY <2>1 DEF IInv, UpdInv
  <2>3. UNCHANGED <<hw, env, tried, updRel, snap, events, loader, failed, phase, kpend, boot,
                    marked, screen, power, mg, mgNew, mgTry, pending>>
    BY <1>7 DEF ClearSlot, RenameFiles, NotInstall
  <2>4. CASE slots' = slots
    BY <1>1, <1>2, <1>3, <1>4, <2>1, <2>2, <2>3, <2>4, InstallStepInv
  <2>5. CASE SetTarget("part", slots[Target].rel)
    <3>1. slots[Target].rel \in Releases \cup {0}
      BY <1>1, <1>3 DEF SlotType, Target, Other, Slots
    <3> QED BY <1>3, <1>4, <2>1, <2>3, <2>5, <3>1, WriteStepInv
  <2>6. CASE SetTarget("none", 0) \/ SetTarget("part", updRel) \/ SetTarget("whole", updRel)
    BY <1>3, <1>4, <2>1, <2>3, <2>6, WriteStepInv
  <2> QED BY <1>7, <2>4, <2>5, <2>6 DEF ClearSlot, RenameFiles
<1>8. CASE TryOtherRead
  <2>1. env.boot = boot.slot
    BY <1>8 DEF IInv, UpdInv, TryOtherRead
  <2>2. /\ snap' \in [Routines -> EnvType] /\ snap'["driver"] = snap["driver"]
        /\ snap'["upd"] = env
    BY <1>1, <1>8 DEF TryOtherRead, Routines
  <2> QED
    BY <1>1, <1>2, <1>3, <1>4, <1>8, <2>1, <2>2, InstallStepInv DEF TryOtherRead, NotInstall
<1>9. CASE TryOtherWrite
  <2> DEFINE e == Modified(snap["upd"], TryOther(snap["upd"]))
  <2>1. env.boot = boot.slot /\ snap["upd"].boot = boot.slot /\ upd' # "trywrite"
    BY <1>9 DEF IInv, UpdInv, TryOtherWrite
  <2>2. snap["upd"] \in EnvType
    BY <1>1 DEF Routines
  <2>3. TryOther(snap["upd"]) \in EnvType /\ TryOther(snap["upd"]).boot = boot.slot
    BY <1>1, <2>1, <2>2, KioskEnvs
  <2>4. e \in EnvType /\ e.boot = env.boot
    BY <1>1, <2>1, <2>3 DEF Modified
  <2>5. \E ok \in BOOLEAN : EnvWrite(e, ok)
    BY <1>9 DEF TryOtherWrite
  <2>6. env' \in EnvType /\ env'.boot = env.boot
    <3> HIDE DEF e
    <3> QED BY <1>1, <2>4, <2>5, EnvWriteEnv
  <2> QED
    BY <1>1, <1>2, <1>3, <1>4, <1>9, <2>1, <2>6, InstallStepInv DEF TryOtherWrite, NotInstall
<1>10. CASE Remember
  <2>1. env.boot = boot.slot /\ upd' # "trywrite"
    BY <1>10 DEF IInv, UpdInv, Remember
  <2>2. tried' \in TriedType
    BY <1>3, <1>10 DEF Remember, Other, Slots, TriedType
  <2> QED
    BY <1>1, <1>2, <1>3, <1>4, <1>10, <2>1, <2>2, InstallStepInv DEF Remember, NotInstall
<1> QED BY <1>5, <1>6, <1>7, <1>8, <1>9, <1>10 DEF Installs

(* F4's "try driver": a stale copy of grubenv may come back, and with it   *)
(* an earlier slot to come back to, which is whole still.                  *)
LEMMA RetryGraphicsInv == IInv /\ (RetryGraphicsRead \/ RetryGraphicsWrite) => IInv'
<1> SUFFICES ASSUME IInv, RetryGraphicsRead \/ RetryGraphicsWrite PROVE IInv'
  OBVIOUS
<1>1. env \in EnvType /\ boot \in BootType /\ snap \in [Routines -> EnvType]
  BY DEF IInv, TypeOK
<1>2. phase = "kiosk" /\ power # "" /\ screen = "power" /\ upd = "idle"
  BY DEF RetryGraphicsRead, RetryGraphicsWrite, IInv, PowerInv
<1>3. UNCHANGED <<hw, slots, loader, tried, failed, phase, kpend, boot, marked, screen, upd,
                  updRel, mg, mgNew, mgTry, pending, events>>
  BY DEF RetryGraphicsRead, RetryGraphicsWrite, NotPower
<1>4. CASE RetryGraphicsRead
  <2>1. /\ snap' \in [Routines -> EnvType] /\ snap'["driver"] = env /\ env' = env
        /\ power' = "write"
    BY <1>1, <1>4 DEF RetryGraphicsRead, Routines
  <2>2. TypeOK'
    BY <1>3, <2>1 DEF IInv, TypeOK
  <2> QED
    BY <1>2, <1>3, <2>1, <2>2 DEF IInv, Bootable, WholeInv, MenuInv, BootInv, UpdInv,
                                  PowerInv, NeverStuck
<1>5. CASE RetryGraphicsWrite
  <2> DEFINE e == Modified(snap["driver"], RetryGPUs(snap["driver"]))
  <2>1. snap["driver"] \in EnvType
    BY <1>1 DEF Routines
  <2>2. /\ RetryGPUs(snap["driver"]) \in EnvType
        /\ RetryGPUs(snap["driver"]).boot = snap["driver"].boot
    BY <1>1, <2>1, KioskEnvs
  <2>3. e \in EnvType /\ e.boot \in {env.boot, snap["driver"].boot}
    BY <1>1, <2>2 DEF Modified
  <2>4. \E ok \in BOOLEAN : EnvWrite(e, ok)
    BY <1>5 DEF RetryGraphicsWrite
  <2>5. env' \in EnvType /\ env'.boot \in {env.boot, snap["driver"].boot}
    <3> HIDE DEF e
    <3> QED BY <1>1, <2>3, <2>4, EnvWriteEnv
  <2>6. snap' = snap /\ power' = "go"
    BY <1>5 DEF RetryGraphicsWrite
  <2>7. Bootable(env.boot) /\ Bootable(snap["driver"].boot)
    BY <1>5 DEF IInv, PowerInv, RetryGraphicsWrite
  <2>8. TypeOK'
    BY <1>3, <2>5, <2>6 DEF IInv, TypeOK
  <2>9. Bootable(env.boot)'
    BY <1>3, <2>5, <2>7 DEF Bootable
  <2> QED
    BY <1>2, <1>3, <2>6, <2>8, <2>9 DEF IInv, WholeInv, MenuInv, BootInv, UpdInv, PowerInv,
                                        NeverStuck
<1> QED BY <1>4, <1>5

(* Every step keeps the invariant.                                         *)
LEMMA NextInv == IInv /\ [Next]_vars => IInv'
<1> SUFFICES ASSUME IInv, [Next]_vars PROVE IInv'
  OBVIOUS
<1>1. CASE UNCHANGED vars
  <2>1. UNCHANGED <<hw, env, slots, loader, tried, failed, phase, kpend, boot, marked, screen,
                    power, upd, updRel, mg, mgNew, mgTry, pending, snap, events>>
    BY <1>1 DEF vars, disk, kiosk
  <2>2. TypeOK'
    BY <2>1 DEF IInv, TypeOK
  <2> QED
    BY <2>1, <2>2 DEF IInv, Bootable, WholeInv, MenuInv, BootInv, UpdInv, PowerInv, NeverStuck
<1>2. CASE Grub
  BY <1>2, GrubInv, BootDefaultInv DEF Grub
<1>3. CASE Boots
  BY <1>3, InitGraphicsInv, DriverUpInv, DriverDarkInv, DownInv, KioskInv DEF Boots
<1>4. CASE People
  BY <1>4, BootMenuInv, DialogsInv, StartUpdateInv DEF People
<1>5. CASE Powers
  BY <1>5, RetryGraphicsInv, DialogsInv, DownInv DEF Powers
<1> QED BY <1>1, <1>2, <1>3, <1>4, <1>5, ProvesInv, InstallsInv, DownInv, KioskInv DEF Next

(* The inductive invariant: what the running system, the boot loader, an   *)
(* installation and the power dialog each keep of the slots and grubenv.   *)
THEOREM Invariance == Spec => []IInv
<1>1. Init => IInv
  BY InitInv
<1>2. IInv /\ [Next]_vars => IInv'
  BY NextInv
<1> QED BY <1>1, <1>2, PTL DEF Spec

(* Every variable keeps its type; sc_gfxsafeboots stays below              *)
(* bootenv.safeRetryEvery.                                                 *)
THEOREM TypeCorrect == Spec => []TypeOK
<1>1. IInv => TypeOK
  BY DEF IInv
<1> QED BY <1>1, Invariance, PTL

(* The slot GRUB comes back to holds a whole release, whatever fails.      *)
THEOREM SlotToComeBackTo == Spec => []ProvenSlotWhole
<1>1. IInv => ProvenSlotWhole
  BY DEF IInv, Bootable, ProvenSlotWhole
<1> QED BY <1>1, Invariance, PTL

(* GRUB never stops at its menu unless a release has just one kernel that  *)
(* loads.                                                                  *)
THEOREM GrubGoesOn == Spec => []NeverStuck
<1>1. IInv => NeverStuck
  BY DEF IInv
<1> QED BY <1>1, Invariance, PTL
-----------------------------------------------------------------------------
(* BootUpdate implements ABSlots.                                          *)

(* A new installation is an initial state of the abstract one.             *)
LEMMA InitMap == Init => AB!ABInit
<1> SUFFICES ASSUME Init PROVE AB!ABInit
  OBVIOUS
<1>1. slots["A"].st = "whole" /\ slots["A"].rel = 1 /\ env.boot = "A" /\ "A" \in Slots
  BY DEF Init, NewEnv, Slots
<1>2. phase = "off"
  BY DEF Init
<1>3. \A s \in Slots : (IF slots[s].st = "whole" THEN slots[s].rel ELSE 0) \in Releases \cup {0}
  BY ReleasesNat DEF Init, Slots
<1> QED BY <1>1, <1>2, <1>3 DEF AB!ABInit, Running

(* Nothing the abstraction sees changes.                                   *)
LEMMA StutterMap ==
  ASSUME slots' = slots, env'.boot = env.boot,
         \/ phase \notin Running /\ phase' \notin Running
         \/ phase \in Running /\ phase' \in Running /\ boot'.slot = boot.slot
  PROVE  UNCHANGED AB!absVars
  BY DEF AB!absVars

(* The machine goes down there too, unless GRUB still had it.              *)
LEMMA DownMap == IInv /\ GoDown => AB!ABNext \/ UNCHANGED AB!absVars
<1> SUFFICES ASSUME IInv, GoDown PROVE AB!ABNext \/ UNCHANGED AB!absVars
  OBVIOUS
<1>1. slots' = slots /\ env' = env /\ phase' \notin Running
  BY DEF GoDown, disk, Running
<1>2. CASE phase \in Running
  <2>1. boot.slot # ""
    BY <1>2 DEF IInv, BootInv, Slots
  <2> QED BY <1>1, <1>2, <2>1 DEF AB!ABNext, AB!Down
<1>3. CASE phase \notin Running
  BY <1>1, <1>3, StutterMap
<1> QED BY <1>2, <1>3

(* The slot to come back to becomes another that is whole.                 *)
LEMMA AdoptMap ==
  ASSUME IInv, slots' = slots, env'.boot \in Slots, Bootable(env'.boot),
         phase \in Running, phase' \in Running, boot' = boot
  PROVE  AB!ABNext
<1>1. slots[env'.boot].st = "whole" /\ slots[env'.boot].rel # 0
  BY ReleasesNat DEF IInv, WholeInv, Bootable
<1>2. AB!Adopt(env'.boot)
  BY <1>1 DEF AB!Adopt
<1> QED BY <1>2 DEF AB!ABNext

(* The other slot is written.                                              *)
LEMMA RewriteMap ==
  ASSUME IInv, phase = "kiosk", upd \notin {"idle", "check"}, NEW r \in Releases \cup {0},
         NEW st \in {"whole", "part", "none"}, SetTarget(st, r),
         UNCHANGED <<env, phase, boot>>
  PROVE  AB!ABNext
<1>1. env.boot = boot.slot /\ Target \in Slots /\ Target # boot.slot /\ phase \in Running
  BY DEF IInv, UpdInv, BootInv, Running, Target, Other, Slots
<1>2. slots \in [Slots -> SlotType]
  BY DEF IInv, TypeOK
<1> DEFINE x == IF st = "whole" THEN r ELSE 0
           h == [s \in Slots |-> IF slots[s].st = "whole" THEN slots[s].rel ELSE 0]
<1>3. h' = [h EXCEPT ![Target] = x]
  BY <1>1, <1>2 DEF SetTarget
<1>4. x \in Releases \cup {0}
  OBVIOUS
<1>5. PICK t \in Slots : t = Target
  BY <1>1
<1>6. AB!Rewrite(t)
  BY <1>1, <1>3, <1>4, <1>5 DEF AB!Rewrite
<1> QED BY <1>6 DEF AB!ABNext

(* A kernel starts.                                                        *)
LEMMA StartMap ==
  ASSUME IInv, NEW k \in Kernels, NEW s \in Slots, NEW once \in BOOLEAN,
         NEW safe \in SUBSET GPUs, Start(k, s, once, safe), phase = "menu",
         slots' = slots, env'.boot = env.boot
  PROVE  AB!ABNext
<1>1. boot'.slot = s /\ phase' = "init"
  BY StartInv
<1>2. slots[s].st = "whole" /\ slots[s].rel # 0
  BY ReleasesNat DEF Start, Loads, IInv, WholeInv
<1>3. AB!Start(s)
  BY <1>1, <1>2 DEF AB!Start, Running
<1> QED BY <1>3 DEF AB!ABNext

(* Every step of the machine is one of the abstract specification, or      *)
(* changes nothing it sees.                                                *)
LEMMA StepMap == IInv /\ [Next]_vars => [AB!ABNext]_AB!absVars
<1> SUFFICES ASSUME IInv, [Next]_vars PROVE AB!ABNext \/ UNCHANGED AB!absVars
  OBVIOUS
<1>0. IInv'
  BY NextInv
<1>1. CASE UNCHANGED vars
  BY <1>1, StutterMap DEF vars, disk
<1>2. CASE LoadEnv \/ PickSlot
  <2>1. env'.boot = env.boot
    <3>1. env \in EnvType /\ env.kernel \in Kernels
      BY DEF IInv, TypeOK, EnvType
    <3>2. CASE LoadEnv
      BY <3>1, <3>2, GrubEnvs DEF LoadEnv
    <3>3. CASE PickSlot
      <4>1. \/ env' = TryTaken(env)
            \/ \E k \in Kernels : env' = BootPending(env, k)
        BY <3>1, <3>3 DEF PickSlot, Toggle, Kernels
      <4> QED BY <3>1, <4>1, GrubEnvs
    <3> QED BY <1>2, <3>2, <3>3
  <2>2. slots' = slots /\ phase \notin Running /\ phase' \notin Running
    BY <1>2 DEF LoadEnv, PickSlot, Running
  <2> QED BY <2>1, <2>2, StutterMap
<1>3. CASE BootDefault
  <2>1. /\ boot.slot \in Slots /\ Other(boot.slot) \in Slots /\ boot.kernel \in Kernels
        /\ "lts" \in Kernels /\ env.gfxsafe \in SUBSET GPUs
    BY <1>3 DEF BootDefault, IInv, MenuInv, Other, Slots, Kernels, TypeOK, EnvType
  <2>2. phase = "menu" /\ slots' = slots /\ env' = env
    BY <1>3 DEF BootDefault, disk
  <2>3. CASE phase' = "stuck"
    BY <2>2, <2>3, StutterMap DEF Running
  <2>4. CASE \E k \in Kernels, s \in Slots : Start(k, s, FALSE, env.gfxsafe)
    BY <2>1, <2>2, <2>4, StartMap
  <2> QED BY <1>3, <2>1, <2>3, <2>4 DEF BootDefault
<1>4. CASE \E e \in Entries : BootMenu(e)
  <2>1. PICK e \in Entries : BootMenu(e)
    BY <1>4
  <2>2. /\ boot.slot \in Slots /\ Other(boot.slot) \in Slots /\ boot.kernel \in Kernels
        /\ "lts" \in Kernels /\ env.gfxsafe \in SUBSET GPUs
    BY <2>1 DEF BootMenu, IInv, MenuInv, Other, Slots, Kernels, TypeOK, EnvType
  <2>3. phase = "menu" /\ slots' = slots
    BY <2>1 DEF BootMenu
  <2>4. env'.boot = env.boot
    <3>1. env' = env \/ env' = [env EXCEPT !.gfxsafe = {}]
      BY <2>1 DEF BootMenu
    <3>2. env \in EnvType
      BY DEF IInv, TypeOK
    <3> QED BY <3>1, <3>2, GrubEnvs
  <2>5. CASE UNCHANGED <<phase, boot>>
    BY <2>3, <2>4, <2>5, StutterMap DEF Running
  <2>6. CASE \E k \in Kernels, s \in Slots, once \in BOOLEAN, safe \in SUBSET GPUs :
               Start(k, s, once, safe)
    BY <2>3, <2>4, <2>6, StartMap
  <2> QED BY <2>1, <2>2, <2>5, <2>6 DEF BootMenu
<1>5. CASE GoDown
  BY <1>5, DownMap
<1>6. CASE InitGraphics \/ DriverUp
  <2>1. env'.boot = env.boot
    <3>1. env \in EnvType /\ boot \in BootType
      BY DEF IInv, TypeOK
    <3>2. \/ env' = env
          \/ \E ok \in BOOLEAN : EnvWrite([env EXCEPT !.gfxtry = boot.gpus], ok)
          \/ \E ok \in BOOLEAN : EnvWrite(GraphicsOK(env), ok)
      BY <1>6 DEF InitGraphics, DriverUp
    <3> QED BY <3>1, <3>2, KioskEnvs, EnvWriteEnv
  <2>2. slots' = slots /\ boot' = boot /\ phase \in Running /\ phase' \in Running
    BY <1>6 DEF InitGraphics, DriverUp, Running
  <2> QED BY <2>1, <2>2, StutterMap
<1>7. CASE DriverDark \/ KioskStart \/ KioskCrash
  <2>1. CASE GoDown
    BY <2>1, DownMap
  <2>2. CASE ~GoDown
    <3>1. slots' = slots /\ env' = env /\ boot' = boot /\ phase \in Running /\ phase' \in Running
      BY <1>7, <2>2 DEF DriverDark, KioskStart, KioskCrash, disk, Running
    <3> QED BY <3>1, StutterMap
  <2> QED BY <2>1, <2>2
<1>8. CASE Proves \/ RetryGraphicsRead \/ RetryGraphicsWrite
  <2>1. slots' = slots /\ boot' = boot /\ phase \in Running /\ phase' \in Running
    BY <1>8 DEF Proves, MarkGoodRead, MarkGoodWrite, MarkGoodLoader, Kept, RetryGraphicsRead,
                RetryGraphicsWrite, NotPower, disk, Running
  <2>2. env'.boot \in Slots /\ Bootable(env'.boot)
    <3>1. env' \in EnvType /\ Bootable(env.boot)'
      BY <1>0 DEF IInv, TypeOK
    <3>2. hw' = hw
      BY <1>8 DEF Proves, MarkGoodRead, MarkGoodWrite, MarkGoodLoader, Kept,
                  RetryGraphicsRead, RetryGraphicsWrite, NotPower
    <3> QED BY <2>1, <3>1, <3>2 DEF Bootable, EnvType
  <2> QED BY <2>1, <2>2, AdoptMap
<1>9. CASE \/ OpenUpdate \/ CloseUpdate \/ OpenPower \/ ClosePower \/ RestartWhenIdle
           \/ (\E c \in {"go", "driver"} : PowerChoose(c))
           \/ (\E r \in Releases : StartUpdate(r))
           \/ InstallCheck \/ UnpackGet \/ Download \/ TryOtherRead \/ Remember
  <2>1. /\ slots' = slots /\ env' = env /\ boot' = boot
        /\ phase \in Running /\ phase' \in Running
    BY <1>9 DEF OpenUpdate, CloseUpdate, UpdateDialog, OpenPower, ClosePower, RestartWhenIdle,
                PowerChoose, StartUpdate, InstallCheck, UnpackGet, Download, TryOtherRead,
                Remember, NotPower, NotInstall, disk, Running
  <2> QED BY <2>1, StutterMap
<1>10. CASE ClearSlot \/ RenameFiles
  <2>1. phase = "kiosk" /\ upd \notin {"idle", "check"} /\ UNCHANGED <<env, phase, boot>>
    BY <1>10 DEF ClearSlot, RenameFiles, NotInstall
  <2>2. updRel \in Releases /\ slots[Target].rel \in Releases \cup {0}
    <3>1. Target \in Slots
      BY DEF Target, Other, Slots
    <3> QED BY <2>1, <3>1 DEF IInv, UpdInv, TypeOK, SlotType
  <2>3. CASE slots' = slots
    BY <2>1, <2>3, StutterMap DEF Running
  <2>4. CASE SetTarget("part", slots[Target].rel) \/ SetTarget("none", 0)
    BY <2>1, <2>2, <2>4, RewriteMap
  <2>5. CASE SetTarget("part", updRel) \/ SetTarget("whole", updRel)
    BY <2>1, <2>2, <2>5, RewriteMap
  <2> QED BY <1>10, <2>3, <2>4, <2>5 DEF ClearSlot, RenameFiles
<1>11. CASE TryOtherWrite
  <2>1. slots' = slots /\ boot' = boot /\ phase \in Running /\ phase' \in Running
    BY <1>11 DEF TryOtherWrite, NotInstall, Running
  <2>2. env'.boot \in Slots /\ Bootable(env'.boot)
    <3>1. env' \in EnvType /\ Bootable(env.boot)'
      BY <1>0 DEF IInv, TypeOK
    <3>2. hw' = hw
      BY <1>11 DEF TryOtherWrite, NotInstall
    <3> QED BY <2>1, <3>1, <3>2 DEF Bootable, EnvType
  <2> QED BY <2>1, <2>2, AdoptMap
<1> QED
  <2>1. CASE Die \/ Cut \/ Restart
    BY <2>1, <1>5 DEF Die, Cut, Restart
  <2> QED
    BY <2>1, <1>1, <1>2, <1>3, <1>4, <1>6, <1>7, <1>8, <1>9, <1>10, <1>11
    DEF Next, Grub, Boots, Installs, People, Powers

(* The kiosk's disk install keeps what an A/B disk install promises: the   *)
(* slot to come back to and the one running are never written, only a slot *)
(* with a whole release becomes the one to come back to, and the machine   *)
(* starts only from such a slot.                                           *)
THEOREM Implements == Spec => Refinement
<1>1. Init => AB!ABInit
  BY InitMap
<1>2. IInv /\ [Next]_vars => [AB!ABNext]_AB!absVars
  BY StepMap
<1> QED BY <1>1, <1>2, Invariance, PTL DEF Spec, Refinement, AB!ABSpec
-----------------------------------------------------------------------------
(* One boot and the next: BootHistory's step properties.                   *)

(* grubenv as a boot from slot s with kernel k has it: recorded as good,   *)
(* pending, or of an update under trial, which GRUB comes back from.       *)
Good(e, s, k) == e.boot = s /\ e.kernel = k /\ ~e.kpending
Pending(e, s, k) == e.boot = s /\ e.kernel = k /\ e.kpending
Untried(e, s) == e.try = "" /\ e.boot = Other(s)

(* An update to try is in the other slot than the one to come back to.     *)
TryOK(e, s) == e.try = "" \/ (e.try = Other(s) /\ e.boot = s)

(* What a boot c of slot s, kernel k, leaves to the next one in e.         *)
Leaves(e, s, k, c) == /\ c.try /\ c.auto /\ ~c.proven => Untried(e, s)
                      /\ c.auto /\ ~c.try /\ ~c.proven => Pending(e, s, k)

CopyOK(e) == TryOK(e, boot.slot) /\ Leaves(e, boot.slot, boot.kernel, cur)

(* While the machine runs this holds of grubenv and of every copy of it    *)
(* that is about to be written back.                                       *)
CopiesInv == /\ CopyOK(env)
             /\ mg = "write" => CopyOK(snap["mg"])
             /\ upd = "trywrite" => CopyOK(snap["upd"])
             /\ power = "write" => CopyOK(snap["driver"])

(* A boot that was recorded stays so unless an update is to be tried, and  *)
(* one that MarkGood finds recorded already still is when it is done.      *)
StaysGood == env.try # "" \/ Good(env, boot.slot, boot.kernel)
RecordInv == /\ cur.proven /\ ~cur.driver => StaysGood
             /\ mg = "write" /\ ~cur.driver /\ Good(snap["mg"], boot.slot, boot.kernel)
                  => StaysGood

RunInv == /\ phase \in Running => CopiesInv /\ RecordInv
          /\ phase \in {"menu", "stuck", "init", "driver"} => env.try = ""
          /\ phase = "menu" => IF cur.try THEN env.boot = Other(boot.slot)
                                          ELSE Pending(env, boot.slot, boot.kernel)

(* MarkGood and the power dialog are the kiosk's.                          *)
WatchInv == /\ mg # "wait" => phase = "kiosk"
            /\ power \in {"driver", "write"} => cur.driver
            /\ phase \notin {"start", "dark", "kiosk"} => ~cur.proven /\ ~cur.driver

(* GRUB finds grubenv as the boot before left it.                          *)
GrubFinds == /\ env.try # "" => env.boot = Other(env.try)
             /\ Leaves(env, last.slot, last.kernel, last)
             /\ last.auto /\ ~last.try /\ ~last.proven =>
                  /\ phase = "off" => (last.gfx <=> env.gfxtry # "")
                  /\ phase = "grub" => (kpend <=> ~last.gfx)
             /\ last.proven /\ ~last.driver /\ env.try = "" =>
                  Good(env, last.slot, last.kernel) /\ ~kpend

BootFacts == [try : BOOLEAN, auto : BOOLEAN, proven : BOOLEAN, driver : BOOLEAN]

HInv == /\ cur \in BootFacts
        /\ RunInv /\ WatchInv
        /\ phase \in {"off", "grub"} => GrubFinds
-----------------------------------------------------------------------------
(* What each step adds to the record of this boot.                         *)

(* The boot's record keeps its type; the power, GRUB's choice and the      *)
(* kernel's start each set it.                                             *)
LEMMA WatchSteps ==
  ASSUME cur \in BootFacts, Watch
  PROVE  /\ cur' \in BootFacts
         /\ phase' = "off" => cur' = Fresh
         /\ phase = "grub" /\ phase' = "menu" =>
              (cur'.try <=> env.try # "") /\ ~cur'.auto /\ ~cur'.proven /\ ~cur'.driver
         /\ phase = "menu" /\ phase' = "init" =>
              /\ (cur'.try <=> cur.try) /\ (cur'.proven <=> cur.proven)
              /\ (cur'.driver <=> cur.driver)
              /\ cur'.auto => boot'.slot = boot.slot /\ boot'.kernel = boot.kernel
<1>1. CASE phase' = "off"
  BY <1>1 DEF Watch, Fresh, BootFacts
<1>2. CASE phase' # "off" /\ phase = "grub" /\ phase' = "menu"
  <2>1. cur' = [Fresh EXCEPT !.try = env.try # ""]
    BY <1>2 DEF Watch
  <2> QED BY <1>2, <2>1 DEF Fresh, BootFacts
<1>3. CASE phase' # "off" /\ phase = "menu" /\ phase' = "init"
  <2>1. cur' = [cur EXCEPT !.auto = boot'.slot = boot.slot /\ boot'.kernel = boot.kernel
                                    /\ ~boot'.once]
    BY <1>3 DEF Watch
  <2> QED BY <1>3, <2>1 DEF BootFacts
<1>4. CASE phase' # "off" /\ ~(phase = "grub" /\ phase' = "menu")
           /\ ~(phase = "menu" /\ phase' = "init")
  <2>1. cur' = [cur EXCEPT !.proven = cur.proven \/ Recorded,
                           !.driver = cur.driver \/ power' = "driver"]
    BY <1>4 DEF Watch
  <2> QED BY <1>4, <2>1 DEF BootFacts
<1> QED BY <1>1, <1>2, <1>3, <1>4

(* Any other step can only prove the boot or note F4.                      *)
LEMMA OtherSteps ==
  ASSUME cur \in BootFacts, Watch, phase' # "off", phase' # "menu", phase' # "init"
  PROVE  /\ (cur'.try <=> cur.try) /\ (cur'.auto <=> cur.auto)
         /\ (cur'.proven <=> cur.proven \/ Recorded)
         /\ (cur'.driver <=> cur.driver \/ power' = "driver")
<1>1. cur' = [cur EXCEPT !.proven = cur.proven \/ Recorded,
                         !.driver = cur.driver \/ power' = "driver"]
  BY DEF Watch
<1> QED BY <1>1 DEF BootFacts

(* A boot that ends is remembered with the mark it leaves.                 *)
LEMMA RemembersSteps ==
  ASSUME Remembers
  PROVE  /\ phase' = "off" /\ phase \in Running =>
              /\ last'.slot = boot.slot /\ last'.kernel = boot.kernel
              /\ (last'.gfx <=> env.gfxtry # "") /\ (last'.try <=> cur.try)
              /\ (last'.auto <=> cur.auto) /\ (last'.proven <=> cur.proven)
              /\ (last'.driver <=> cur.driver)
         /\ phase' = "off" /\ phase \notin Running \cup {"off"} =>
              ~last'.auto /\ ~last'.proven /\ ~last'.gfx
         /\ phase' # "off" => last' = last
<1>1. CASE phase' = "off" /\ phase \in Running
  BY <1>1 DEF Remembers, Ended
<1>2. CASE phase' = "off" /\ phase \notin Running \cup {"off"}
  BY <1>2 DEF Remembers, NoLast, Ended, Fresh
<1>3. CASE phase' # "off"
  BY <1>3 DEF Remembers
<1> QED BY <1>1, <1>2, <1>3
-----------------------------------------------------------------------------
(* The machine goes down: the next boot finds what this one left.          *)
LEMMA DownHist == IInv /\ HInv /\ GoDown /\ phase # "off" /\ History => HInv'
<1> SUFFICES ASSUME IInv, HInv, GoDown, phase # "off", History PROVE HInv'
  OBVIOUS
<1>1. /\ phase' = "off" /\ mg' = "wait" /\ power' = "" /\ ~kpend' /\ env' = env
  BY DEF GoDown, KioskGone, disk
<1>2. cur' \in BootFacts /\ cur' = Fresh
  BY <1>1, WatchSteps DEF HInv, History
<1>3. RunInv' /\ WatchInv'
  BY <1>1, <1>2 DEF RunInv, WatchInv, Running, Fresh
<1>4. CASE phase \in Running
  <2>1. /\ last'.slot = boot.slot /\ last'.kernel = boot.kernel
        /\ (last'.gfx <=> env.gfxtry # "") /\ (last'.try <=> cur.try)
        /\ (last'.auto <=> cur.auto) /\ (last'.proven <=> cur.proven)
        /\ (last'.driver <=> cur.driver)
    BY <1>1, <1>4, RemembersSteps DEF History
  <2>2. TryOK(env, boot.slot) /\ Leaves(env, boot.slot, boot.kernel, cur)
        /\ (cur.proven /\ ~cur.driver => StaysGood) /\ boot.slot \in Slots
    BY <1>4 DEF HInv, RunInv, CopiesInv, CopyOK, RecordInv, IInv, BootInv
  <2>3. env.try # "" => env.boot = Other(env.try)
    BY <2>2 DEF TryOK, Other, Slots
  <2>4. Leaves(env', last'.slot, last'.kernel, last')
    BY <1>1, <2>1, <2>2 DEF Leaves
  <2>5. GrubFinds'
    BY <1>1, <2>1, <2>2, <2>3, <2>4 DEF GrubFinds, StaysGood
  <2> QED BY <1>2, <1>3, <2>5 DEF HInv
<1>5. CASE phase \notin Running
  <2>1. ~last'.auto /\ ~last'.proven /\ ~last'.gfx
    BY <1>1, <1>5, RemembersSteps DEF History
  <2>2. phase \in {"grub", "menu", "stuck"}
    BY <1>5 DEF IInv, TypeOK, Phases, Running
  <2>3. env.try # "" => env.boot = Other(env.try)
    BY <2>2 DEF HInv, RunInv, GrubFinds
  <2>4. GrubFinds'
    BY <1>1, <2>1, <2>3 DEF GrubFinds, Leaves
  <2> QED BY <1>2, <1>3, <2>4 DEF HInv
<1> QED BY <1>4, <1>5

(* GRUB reads grubenv: a graphics mark takes the blame.                    *)
LEMMA LoadHist == IInv /\ HInv /\ LoadEnv /\ History => HInv'
<1> SUFFICES ASSUME IInv, HInv, LoadEnv, History PROVE HInv'
  OBVIOUS
<1>1. /\ phase = "off" /\ phase' = "grub" /\ UNCHANGED <<mg, power, boot>>
      /\ (kpend' <=> env.gfxtry = "" /\ env.kpending)
  BY DEF LoadEnv, kiosk, KernelPending
<1>2. env'.boot = env.boot /\ env'.try = env.try /\ env'.kernel = env.kernel
      /\ env'.kpending = env.kpending
  BY DEF LoadEnv, GraphicsDied, IInv, TypeOK, EnvType
<1>3. cur' \in BootFacts /\ ~cur'.proven /\ ~cur'.driver /\ last' = last
  BY <1>1, WatchSteps, OtherSteps, RemembersSteps
  DEF HInv, History, WatchInv, Recorded, IInv, PowerInv
<1>4. RunInv' /\ WatchInv'
  BY <1>1, <1>3 DEF RunInv, WatchInv, Running, HInv, IInv, PowerInv
<1>5. GrubFinds
  BY <1>1 DEF HInv
<1>6. Leaves(env', last'.slot, last'.kernel, last')
  BY <1>2, <1>3, <1>5 DEF GrubFinds, Leaves, Untried, Pending
<1>7. GrubFinds'
  BY <1>1, <1>2, <1>3, <1>5, <1>6 DEF GrubFinds, Good, Leaves, Pending
<1> QED BY <1>3, <1>4, <1>7 DEF HInv

(* GRUB picks: what it leaves in grubenv is right for a boot that dies.    *)
LEMMA PickHist == IInv /\ HInv /\ PickSlot /\ History => HInv'
<1> SUFFICES ASSUME IInv, HInv, PickSlot, History PROVE HInv'
  OBVIOUS
<1>1. phase = "grub" /\ phase' = "menu" /\ UNCHANGED <<mg, power>>
  BY DEF PickSlot, kiosk
<1>2. cur' \in BootFacts /\ (cur'.try <=> env.try # "") /\ ~cur'.proven /\ ~cur'.driver
  BY <1>1, WatchSteps DEF HInv, History
<1>3. env.try # "" => env.boot = Other(env.try)
  BY <1>1 DEF HInv, GrubFinds
<1>4. CASE env.try # ""
  <2>1. env'.try = "" /\ env'.boot = env.boot /\ boot'.slot = env.try
    BY <1>4 DEF PickSlot, TryTaken, NoBoot, IInv, TypeOK, EnvType
  <2> QED BY <1>1, <1>2, <1>3, <1>4, <2>1 DEF HInv, RunInv, WatchInv, Running, IInv, PowerInv
<1>5. CASE env.try = ""
  <2> DEFINE k == IF kpend THEN Toggle(env.kernel) ELSE env.kernel
  <2>1. env' = BootPending(env, k) /\ boot' = [NoBoot EXCEPT !.slot = env.boot, !.kernel = k]
    BY <1>5 DEF PickSlot
  <2> HIDE DEF k
  <2>2. /\ env'.try = "" /\ Pending(env', env.boot, k)
        /\ boot'.slot = env.boot /\ boot'.kernel = k
    BY <1>5, <2>1 DEF BootPending, Pending, NoBoot, IInv, TypeOK, EnvType
  <2> QED BY <1>1, <1>2, <1>5, <2>2 DEF HInv, RunInv, WatchInv, Running, IInv, PowerInv
<1> QED BY <1>4, <1>5

(* A kernel starts: as GRUB chose, or as someone at the menu did.          *)
LEMMA StartHist ==
  ASSUME IInv, HInv, History, phase = "menu", phase' = "init",
         env'.boot = env.boot, env'.try = env.try, env'.kernel = env.kernel,
         env'.kpending = env.kpending, UNCHANGED <<mg, power, upd, snap>>
  PROVE  HInv'
<1>1. /\ cur' \in BootFacts /\ (cur'.try <=> cur.try) /\ ~cur'.proven /\ ~cur'.driver
      /\ cur'.auto => boot'.slot = boot.slot /\ boot'.kernel = boot.kernel
  BY WatchSteps DEF HInv, History, WatchInv
<1>2. env.try = "" /\ IF cur.try THEN env.boot = Other(boot.slot)
                                 ELSE Pending(env, boot.slot, boot.kernel)
  BY DEF HInv, RunInv
<1>3. mg = "wait" /\ power = "" /\ upd = "idle"
  BY DEF HInv, WatchInv, IInv, PowerInv, UpdInv
<1>4. CopyOK(env)'
  BY <1>1, <1>2 DEF CopyOK, TryOK, Leaves, Untried, Pending
<1>5. CopiesInv' /\ RecordInv'
  BY <1>1, <1>3, <1>4 DEF CopiesInv, RecordInv
<1>6. RunInv' /\ WatchInv'
  BY <1>1, <1>2, <1>3, <1>5 DEF RunInv, WatchInv
<1> QED BY <1>1, <1>6 DEF HInv

(* The boot menu, by its timeout or by hand.                               *)
LEMMA MenuHist ==
  IInv /\ HInv /\ (BootDefault \/ \E e \in Entries : BootMenu(e)) /\ History => HInv'
<1> SUFFICES ASSUME IInv, HInv, BootDefault \/ \E e \in Entries : BootMenu(e), History
             PROVE  HInv'
  OBVIOUS
<1>1. /\ phase = "menu" /\ UNCHANGED <<mg, power, upd, snap>>
      /\ phase' = "init" \/ (phase' = "stuck" /\ env' = env)
         \/ (phase' = phase /\ boot' = boot)
  BY DEF BootDefault, BootMenu, Start, kiosk, disk
<1>2. env'.boot = env.boot /\ env'.try = env.try /\ env'.kernel = env.kernel
      /\ env'.kpending = env.kpending
  BY DEF BootDefault, BootMenu, disk, IInv, TypeOK, EnvType
<1>3. CASE phase' = "init"
  BY <1>1, <1>2, <1>3, StartHist
<1>4. ASSUME phase' # "init" PROVE HInv'
  <2>1. /\ phase' \in {"stuck", "menu"}
        /\ cur' = [cur EXCEPT !.proven = cur.proven \/ Recorded,
                              !.driver = cur.driver \/ power' = "driver"]
    BY <1>1, <1>4 DEF History, Watch
  <2>2. mg = "wait" /\ power = "" /\ ~Recorded /\ power' # "driver"
    BY <1>1 DEF HInv, WatchInv, IInv, PowerInv, Recorded
  <2>3. cur' \in BootFacts /\ (cur'.try <=> cur.try) /\ ~cur'.proven /\ ~cur'.driver
    BY <1>1, <2>1, <2>2 DEF HInv, WatchInv, BootFacts
  <2>4. RunInv' /\ WatchInv'
    BY <1>1, <1>2, <1>4, <2>1, <2>2, <2>3 DEF RunInv, WatchInv, HInv, Pending, Running
  <2> QED BY <2>1, <2>3, <2>4 DEF HInv
<1> QED BY <1>3, <1>4

(* A step of the running machine that leaves what GRUB picks from alone,   *)
(* and may take a new copy of grubenv.                                     *)
LEMMA StepHist ==
  ASSUME IInv, HInv, History, phase \in Running, phase' \in Running, phase' # "init",
         phase' = "driver" => phase = "init", boot' = boot,
         env'.boot = env.boot, env'.try = env.try, env'.kernel = env.kernel,
         env'.kpending = env.kpending,
         mg' = "write" => (mg = "write" /\ snap'["mg"] = snap["mg"]) \/ snap'["mg"] = env,
         upd' = "trywrite" => (upd = "trywrite" /\ snap'["upd"] = snap["upd"])
                              \/ snap'["upd"] = env,
         power' = "write" => (power = "write" /\ snap'["driver"] = snap["driver"])
                             \/ (power = "driver" /\ snap'["driver"] = env),
         mg = "write" => mg' = "write" \/ phase' # "kiosk",
         mg' # "wait" => phase' = "kiosk", power' = "driver" => phase' = "kiosk"
  PROVE  HInv'
<1>0. phase' # "off" /\ phase' # "menu" /\ phase' # "grub" /\ phase' # "stuck"
  BY DEF Running
<1>1. /\ cur' \in BootFacts
      /\ (cur'.try <=> cur.try) /\ (cur'.auto <=> cur.auto) /\ (cur'.proven <=> cur.proven)
      /\ (cur'.driver <=> cur.driver \/ power' = "driver")
  BY <1>0, WatchSteps, OtherSteps DEF HInv, History, Recorded
<1>2. ASSUME NEW e, NEW f, CopyOK(e), f.boot = e.boot, f.try = e.try, f.kernel = e.kernel,
             f.kpending = e.kpending
      PROVE  TryOK(f, boot'.slot) /\ Leaves(f, boot'.slot, boot'.kernel, cur')
  BY <1>1, <1>2 DEF CopyOK, TryOK, Leaves, Untried, Pending
<1>3. CopiesInv /\ RecordInv
  BY DEF HInv, RunInv
<1>4. CopyOK(env)'
  BY <1>2, <1>3 DEF CopiesInv, CopyOK
<1>5. CopiesInv'
  <2>1. mg' = "write" => CopyOK(snap["mg"])'
    BY <1>2, <1>3 DEF CopiesInv, CopyOK
  <2>2. upd' = "trywrite" => CopyOK(snap["upd"])'
    BY <1>2, <1>3 DEF CopiesInv, CopyOK
  <2>3. power' = "write" => CopyOK(snap["driver"])'
    BY <1>2, <1>3 DEF CopiesInv, CopyOK
  <2> QED BY <1>4, <2>1, <2>2, <2>3 DEF CopiesInv
<1>6. RecordInv'
  BY <1>1, <1>3 DEF RecordInv, StaysGood, Good
<1>7. power' \in {"driver", "write"} => cur'.driver
  BY <1>1 DEF HInv, WatchInv
<1>8. phase' \notin {"start", "dark", "kiosk"} => ~cur'.proven /\ ~cur'.driver
  <2>1. phase' \notin {"start", "dark", "kiosk"} => phase = "init" /\ power' # "driver"
    BY DEF Running
  <2> QED BY <1>1, <2>1 DEF HInv, WatchInv
<1>9. RunInv' /\ WatchInv'
  BY <1>0, <1>5, <1>6, <1>7, <1>8 DEF RunInv, WatchInv, HInv
<1> QED BY <1>0, <1>1, <1>9 DEF HInv

(* /init's marks, the kiosk's start and its crash.                         *)
LEMMA BootsHist ==
  ASSUME IInv, HInv, History,
         \/ InitGraphics \/ DriverUp \/ DriverDark \/ KioskStart \/ KioskCrash
  PROVE  HInv'
<1>1. CASE GoDown
  BY <1>1, DownHist DEF InitGraphics, DriverUp, DriverDark, KioskStart, KioskCrash, GoDown
<1>2. ASSUME ~GoDown PROVE HInv'
  <2>1. /\ phase \in Running /\ phase' \in Running /\ phase' # "init" /\ boot' = boot
        /\ phase' = "driver" => phase = "init"
    BY <1>2 DEF InitGraphics, DriverUp, DriverDark, KioskStart, KioskCrash, Running
  <2>2. /\ phase # "kiosk" => UNCHANGED <<mg, upd, power, snap>>
        /\ phase = "kiosk" => mg' = "wait" /\ upd' = "idle" /\ power' = "" /\ phase' # "kiosk"
    BY <1>2 DEF InitGraphics, DriverUp, DriverDark, KioskStart, KioskCrash, kiosk, KioskGone
  <2>3. phase # "kiosk" => mg = "wait" /\ upd = "idle" /\ power = ""
    BY DEF HInv, WatchInv, IInv, UpdInv, PowerInv
  <2>4. env'.boot = env.boot /\ env'.try = env.try /\ env'.kernel = env.kernel
        /\ env'.kpending = env.kpending
    <3>1. \/ env' = env \/ env' = [env EXCEPT !.gfxtry = boot.gpus]
          \/ env' = GraphicsOK(env)
      BY <1>2 DEF InitGraphics, DriverUp, DriverDark, KioskStart, KioskCrash, disk, EnvWrite
    <3> QED BY <3>1 DEF GraphicsOK, IInv, TypeOK, EnvType
  <2> QED BY <2>1, <2>2, <2>3, <2>4, StepHist
<1> QED BY <1>1, <1>2

(* Keep and TryOther, on a copy that is as it should be.                   *)
LEMMA GoodCopies ==
  ASSUME IInv, phase = "kiosk", NEW e \in EnvType, NEW nl \in BOOLEAN
  PROVE  /\ Good(MarkGood(e, nl), boot.slot, boot.kernel) /\ MarkGood(e, nl).try = e.try
         /\ TryOther(e).try = Other(boot.slot) /\ TryOther(e).boot = e.boot
         /\ TryOther(e).kernel = e.kernel /\ TryOther(e).kpending = e.kpending
         /\ RetryGPUs(e).boot = e.boot /\ RetryGPUs(e).try = e.try
         /\ RetryGPUs(e).kernel = e.kernel /\ RetryGPUs(e).kpending = e.kpending
<1>1. boot.slot \in Slots /\ boot.kernel \in Kernels /\ boot \in BootType
  BY RunningBoot DEF IInv, TypeOK
<1>2. /\ Keep(e) \in EnvType /\ Good(Keep(e), boot.slot, boot.kernel)
      /\ Keep(e).try = e.try
  BY <1>1 DEF Keep, EnvType, Good
<1>3. ASSUME NEW f \in EnvType
      PROVE  /\ RetryGPUs(f).boot = f.boot /\ RetryGPUs(f).try = f.try
             /\ RetryGPUs(f).kernel = f.kernel /\ RetryGPUs(f).kpending = f.kpending
  BY DEF RetryGPUs, EnvType
<1>4. Good(MarkGood(e, nl), boot.slot, boot.kernel) /\ MarkGood(e, nl).try = e.try
  BY <1>2, <1>3 DEF MarkGood, Good, EnvType
<1> QED BY <1>3, <1>4 DEF TryOther, EnvType

(* A write of grubenv by the kiosk: what it leaves there is to be shown.   *)
LEMMA WriteHist ==
  ASSUME IInv, HInv, History, phase = "kiosk", phase' = "kiosk", boot' = boot, snap' = snap,
         mg' = "write" => mg = "write", upd' = "trywrite" => upd = "trywrite",
         power' \in {"", "go", power}, CopyOK(env)', RecordInv'
  PROVE  HInv'
<1>1. /\ cur' \in BootFacts
      /\ (cur'.try <=> cur.try) /\ (cur'.auto <=> cur.auto) /\ (cur.proven => cur'.proven)
      /\ (cur.driver => cur'.driver)
  BY WatchSteps, OtherSteps DEF HInv, History
<1>2. ASSUME NEW e, CopyOK(e)
      PROVE  TryOK(e, boot'.slot) /\ Leaves(e, boot'.slot, boot'.kernel, cur')
  BY <1>1, <1>2 DEF CopyOK, Leaves
<1>3. CopiesInv
  BY DEF HInv, RunInv, Running
<1>4. CopiesInv'
  BY <1>2, <1>3 DEF CopiesInv, CopyOK
<1>5. WatchInv'
  BY <1>1 DEF HInv, WatchInv
<1> QED BY <1>1, <1>4, <1>5 DEF HInv, RunInv

(* MarkGood's write: recorded, or as if it had not been tried.             *)
LEMMA MarkGoodHist == IInv /\ HInv /\ MarkGoodWrite /\ History => HInv'
<1> SUFFICES ASSUME IInv, HInv, MarkGoodWrite, History PROVE HInv'
  OBVIOUS
<1> DEFINE M == MarkGood(snap["mg"], mgNew)
<1>1. /\ phase = "kiosk" /\ phase' = "kiosk" /\ mg = "write" /\ mg' # "write"
      /\ UNCHANGED <<boot, snap, upd, power>>
  BY DEF MarkGoodWrite, MarkGoodAgain
<1>2. env' = env \/ env' = Modified(snap["mg"], M)
  BY DEF MarkGoodWrite, EnvWrite
<1>3. snap["mg"] \in EnvType /\ mgNew \in BOOLEAN
  BY DEF IInv, TypeOK, Routines
<1>4. Good(M, boot.slot, boot.kernel) /\ M.try = snap["mg"].try
  BY <1>1, <1>3, GoodCopies
<1>5. /\ (cur'.try <=> cur.try) /\ (cur'.auto <=> cur.auto)
      /\ (cur'.proven <=> cur.proven \/ Recorded) /\ (cur'.driver <=> cur.driver)
  <2>1. power' # "driver" \/ cur.driver
    BY <1>1 DEF HInv, WatchInv
  <2> QED BY <1>1, <2>1, OtherSteps DEF HInv, History
<1>6. CopiesInv /\ RecordInv
  BY <1>1 DEF HInv, RunInv, Running
<1> HIDE DEF M
<1>7. CASE env' = Modified(snap["mg"], M)
  <2>1. cur'.proven
    BY <1>1, <1>5, <1>7 DEF Recorded, M
  <2>2. CASE env' = M
    <3>1. CopyOK(env)'
      BY <1>1, <1>4, <1>6, <2>1, <2>2 DEF CopiesInv, CopyOK, TryOK, Leaves, Good
    <3>2. RecordInv'
      BY <1>1, <1>4, <2>2 DEF RecordInv, StaysGood
    <3> QED BY <1>1, <3>1, <3>2, WriteHist
  <2>3. CASE env' = env /\ snap["mg"] = M
    <3>1. CopyOK(env)'
      BY <1>1, <1>6, <2>1, <2>3 DEF CopiesInv, CopyOK, Leaves
    <3>2. RecordInv'
      BY <1>1, <1>4, <1>5, <1>6, <2>3 DEF RecordInv, StaysGood
    <3> QED BY <1>1, <3>1, <3>2, WriteHist
  <2> QED BY <1>7, <2>2, <2>3 DEF Modified
<1>8. CASE env' = env /\ env' # Modified(snap["mg"], M)
  <2>1. cur'.proven <=> cur.proven
    BY <1>5, <1>8 DEF Recorded, M
  <2>2. CopyOK(env)' /\ RecordInv'
    BY <1>1, <1>5, <1>6, <1>8, <2>1 DEF CopiesInv, CopyOK, Leaves, RecordInv, StaysGood
  <2> QED BY <1>1, <2>2, WriteHist
<1> QED BY <1>2, <1>7, <1>8

(* TryOther's: the next boot is the update's.                              *)
LEMMA TryOtherHist == IInv /\ HInv /\ TryOtherWrite /\ History => HInv'
<1> SUFFICES ASSUME IInv, HInv, TryOtherWrite, History PROVE HInv'
  OBVIOUS
<1> DEFINE e == snap["upd"]
<1>1. /\ phase = "kiosk" /\ phase' = "kiosk" /\ upd = "trywrite" /\ upd' # "trywrite"
      /\ UNCHANGED <<boot, snap, mg, power>>
  BY DEF TryOtherWrite, NotInstall
<1>2. env' = env \/ env' = TryOther(e)
  BY DEF TryOtherWrite, EnvWrite, Modified
<1>3. e \in EnvType /\ mgNew \in BOOLEAN /\ e.boot = boot.slot /\ boot.slot \in Slots
  BY <1>1, RunningBoot DEF IInv, TypeOK, Routines, UpdInv
<1>4. CASE env' = env
  BY <1>1, <1>4, StepHist DEF Running, HInv, WatchInv, IInv, PowerInv
<1>5. CASE env' = TryOther(e)
  <2>1. /\ env'.try = Other(boot.slot) /\ env'.boot = boot.slot
        /\ env'.kernel = e.kernel /\ env'.kpending = e.kpending
    BY <1>1, <1>3, <1>5, GoodCopies
  <2>2. Other(boot.slot) # boot.slot /\ Other(boot.slot) # ""
    BY <1>3 DEF Other, Slots
  <2>3. TryOK(e, boot.slot) /\ Leaves(e, boot.slot, boot.kernel, cur)
    BY <1>1 DEF HInv, RunInv, CopiesInv, CopyOK, Running
  <2>4. (cur'.try <=> cur.try) /\ (cur'.auto <=> cur.auto) /\ (cur'.proven <=> cur.proven)
    BY <1>1, OtherSteps DEF HInv, History, Recorded
  <2>5. CopyOK(env)'
    BY <1>1, <1>3, <2>1, <2>2, <2>3, <2>4 DEF CopyOK, TryOK, Leaves, Untried, Pending
  <2>6. RecordInv'
    BY <2>1, <2>2 DEF RecordInv, StaysGood
  <2> QED BY <1>1, <2>5, <2>6, WriteHist
<1> QED BY <1>2, <1>4, <1>5

(* RetryGraphics's: it may undo MarkGood's, and F4 is on record.           *)
LEMMA RetryHist == IInv /\ HInv /\ RetryGraphicsWrite /\ History => HInv'
<1> SUFFICES ASSUME IInv, HInv, RetryGraphicsWrite, History PROVE HInv'
  OBVIOUS
<1> DEFINE e == snap["driver"]
<1>1. /\ phase = "kiosk" /\ phase' = "kiosk" /\ power = "write" /\ power' = "go"
      /\ UNCHANGED <<boot, snap, mg, upd>>
  BY DEF RetryGraphicsWrite, NotPower
<1>2. env' = env \/ env' = RetryGPUs(e)
  BY DEF RetryGraphicsWrite, EnvWrite, Modified
<1>3. e \in EnvType /\ mgNew \in BOOLEAN
  BY DEF IInv, TypeOK, Routines
<1>4. CASE env' = env
  BY <1>1, <1>4, StepHist DEF Running
<1>5. CASE env' = RetryGPUs(e)
  <2>1. env'.boot = e.boot /\ env'.try = e.try /\ env'.kernel = e.kernel
        /\ env'.kpending = e.kpending
    BY <1>1, <1>3, <1>5, GoodCopies
  <2>2. TryOK(e, boot.slot) /\ Leaves(e, boot.slot, boot.kernel, cur)
    BY <1>1 DEF HInv, RunInv, CopiesInv, CopyOK, Running
  <2>3. /\ (cur'.try <=> cur.try) /\ (cur'.auto <=> cur.auto) /\ (cur'.proven <=> cur.proven)
        /\ cur'.driver
    BY <1>1, OtherSteps DEF HInv, History, Recorded, WatchInv
  <2>4. CopyOK(env)'
    BY <1>1, <2>1, <2>2, <2>3 DEF CopyOK, TryOK, Leaves, Untried, Pending
  <2>5. RecordInv'
    BY <2>3 DEF RecordInv
  <2> QED BY <1>1, <2>4, <2>5, WriteHist
<1> QED BY <1>2, <1>4, <1>5

(* The steps of the kiosk that write nothing to grubenv.                   *)
QuietKiosk ==
  \/ MarkGoodRead \/ MarkGoodLoader \/ Kept \/ OpenUpdate \/ CloseUpdate
  \/ (\E r \in Releases : StartUpdate(r))
  \/ InstallCheck \/ UnpackGet \/ ClearSlot \/ Download \/ RenameFiles
  \/ TryOtherRead \/ Remember
  \/ OpenPower \/ ClosePower \/ (\E c \in {"go", "driver"} : PowerChoose(c))
  \/ RetryGraphicsRead \/ RestartWhenIdle

(* They leave what GRUB picks from as it is.                               *)
LEMMA KioskHist ==
  ASSUME IInv, HInv, History, QuietKiosk
  PROVE  HInv'
<1>1. phase = "kiosk" /\ phase' = "kiosk" /\ boot' = boot /\ env' = env
  BY DEF QuietKiosk, MarkGoodRead, MarkGoodLoader, Kept, OpenUpdate, CloseUpdate, UpdateDialog,
         StartUpdate, InstallCheck, UnpackGet, ClearSlot, Download, RenameFiles, TryOtherRead,
         Remember, OpenPower, ClosePower, PowerChoose, RetryGraphicsRead, RestartWhenIdle,
         NotInstall, NotPower, disk
<1>2. CASE MarkGoodRead
  <2>1. mg = "wait" /\ snap' = [snap EXCEPT !["mg"] = env] /\ UNCHANGED <<upd, power>>
    BY <1>2 DEF MarkGoodRead
  <2>2. snap'["mg"] = env /\ snap'["upd"] = snap["upd"] /\ snap'["driver"] = snap["driver"]
    BY <2>1 DEF IInv, TypeOK, Routines
  <2> QED BY <1>1, <2>1, <2>2, StepHist DEF Running
<1>3. CASE TryOtherRead
  <2>1. snap' = [snap EXCEPT !["upd"] = env] /\ UNCHANGED <<mg, power>>
    BY <1>3 DEF TryOtherRead, NotInstall
  <2>2. snap'["mg"] = snap["mg"] /\ snap'["upd"] = env /\ snap'["driver"] = snap["driver"]
    BY <2>1 DEF IInv, TypeOK, Routines
  <2> QED BY <1>1, <2>1, <2>2, StepHist DEF Running
<1>4. CASE RetryGraphicsRead
  <2>1. snap' = [snap EXCEPT !["driver"] = env] /\ power = "driver" /\ UNCHANGED <<mg, upd>>
    BY <1>4 DEF RetryGraphicsRead, NotPower
  <2>2. snap'["mg"] = snap["mg"] /\ snap'["upd"] = snap["upd"] /\ snap'["driver"] = env
    BY <2>1 DEF IInv, TypeOK, Routines
  <2> QED BY <1>1, <2>1, <2>2, StepHist DEF Running
<1>5. CASE ~MarkGoodRead /\ ~TryOtherRead /\ ~RetryGraphicsRead
  <2>1. /\ snap' = snap /\ (upd' = "trywrite" => upd = "trywrite")
        /\ mg' = mg \/ (mg # "write" /\ mg' # "write")
        /\ (power' = "write" => power = "write")
    BY <1>5
    DEF QuietKiosk, MarkGoodLoader, MarkGoodAgain, Kept, OpenUpdate, CloseUpdate, UpdateDialog,
        StartUpdate, InstallCheck, UnpackGet, ClearSlot, Download, RenameFiles, Remember,
        OpenPower, ClosePower, PowerChoose, RestartWhenIdle, NotInstall, NotPower
  <2> QED BY <1>1, <2>1, StepHist DEF Running
<1> QED BY <1>2, <1>3, <1>4, <1>5

(* A new disk has no boot before.                                          *)
LEMMA InitHist == HInit => HInv
<1> SUFFICES ASSUME HInit PROVE HInv
  OBVIOUS
<1>1. /\ phase = "off" /\ mg = "wait" /\ power = "" /\ env.try = ""
      /\ cur = Fresh /\ last = NoLast
  BY DEF HInit, Init, KioskInit, NewEnv
<1>2. cur \in BootFacts /\ ~cur.proven /\ ~cur.driver /\ ~last.auto /\ ~last.proven
  BY <1>1 DEF Fresh, NoLast, Ended, BootFacts
<1> QED BY <1>1, <1>2 DEF HInv, RunInv, WatchInv, GrubFinds, Leaves, Running

(* Every step keeps the history's invariant.                               *)
LEMMA NextHist == IInv /\ HInv /\ [HNext]_<<vars, hvars>> => HInv'
<1> SUFFICES ASSUME IInv, HInv, [HNext]_<<vars, hvars>> PROVE HInv'
  OBVIOUS
<1>1. CASE UNCHANGED <<vars, hvars>>
  <2>1. UNCHANGED <<env, phase, kpend, boot, power, upd, mg, snap, cur, last>>
    BY <1>1 DEF vars, hvars, disk, kiosk
  <2> QED
    BY <2>1 DEF HInv, RunInv, CopiesInv, CopyOK, RecordInv, StaysGood, WatchInv, GrubFinds
<1>2. ASSUME Next, History PROVE HInv'
  <2>1. CASE Die \/ Cut \/ Restart
    <3>1. GoDown /\ phase # "off"
      BY <2>1 DEF Die, Cut, Restart
    <3> QED BY <1>2, <3>1, DownHist
  <2>2. CASE Grub
    BY <1>2, <2>2, LoadHist, PickHist, MenuHist DEF Grub
  <2>3. CASE Boots
    BY <1>2, <2>1, <2>3, BootsHist DEF Boots
  <2>4. CASE Proves
    BY <1>2, <2>4, KioskHist, MarkGoodHist DEF Proves, QuietKiosk
  <2>5. CASE Installs
    BY <1>2, <2>5, KioskHist, TryOtherHist DEF Installs, QuietKiosk
  <2>6. CASE People
    BY <1>2, <2>6, KioskHist, MenuHist DEF People, QuietKiosk
  <2>7. CASE Powers
    BY <1>2, <2>1, <2>7, KioskHist, RetryHist DEF Powers, QuietKiosk
  <2> QED BY <1>2, <2>1, <2>2, <2>3, <2>4, <2>5, <2>6, <2>7, BootsHist DEF Next
<1> QED BY <1>1, <1>2 DEF HNext

(* The history only watches.                                               *)
LEMMA HistorySpec == HSpec => Spec
<1>1. HInit => Init
  BY DEF HInit
<1>2. [HNext]_<<vars, hvars>> => [Next]_vars
  BY DEF HNext
<1> QED BY <1>1, <1>2, PTL DEF HSpec, Spec

(* What every boot leaves for the next, whatever fails.                    *)
THEOREM HistoryInvariance == HSpec => [](IInv /\ HInv)
<1>1. HInit => HInv
  BY InitHist
<1>2. IInv /\ HInv /\ [HNext]_<<vars, hvars>> => HInv'
  BY NextHist
<1> QED BY <1>1, <1>2, HistorySpec, Invariance, PTL DEF HSpec

(* Only GRUB's choice leads from grubenv to the menu.                      *)
LEMMA OnlyPickPicks == Next /\ Picks => PickSlot
<1> SUFFICES ASSUME Next, Picks PROVE PickSlot
  OBVIOUS
<1>1. phase = "grub" /\ phase' = "menu"
  BY DEF Picks
<1>2. ~(Boots \/ Proves \/ Installs \/ Powers \/ People \/ Cut \/ KioskCrash)
  <2>1. ~GoDown
    BY <1>1 DEF GoDown
  <2>2. ~(Boots \/ Cut \/ KioskCrash \/ Powers)
    BY <1>1, <2>1
    DEF Boots, InitGraphics, DriverUp, DriverDark, Die, KioskStart, Cut, KioskCrash, Powers,
        RetryGraphicsRead, RetryGraphicsWrite, RestartWhenIdle, Restart
  <2>3. ~(Proves \/ Installs)
    BY <1>1 DEF Proves, MarkGoodRead, MarkGoodWrite, MarkGoodLoader, Kept, Installs,
                InstallCheck, UnpackGet, ClearSlot, Download, RenameFiles, TryOtherRead,
                TryOtherWrite, Remember
  <2>4. ~People
    BY <1>1 DEF People, BootMenu, OpenUpdate, CloseUpdate, UpdateDialog, StartUpdate,
                OpenPower, ClosePower, PowerChoose
  <2> QED BY <2>2, <2>3, <2>4
<1> QED BY <1>1, <1>2 DEF Next, Grub, LoadEnv, BootDefault

(* A machine that is off only switches on.                                 *)
LEMMA OffLoads == Next /\ phase = "off" => LoadEnv
<1> SUFFICES ASSUME Next, phase = "off" PROVE LoadEnv
  OBVIOUS
<1>1. ~(Boots \/ Cut \/ KioskCrash \/ Powers)
  BY DEF Boots, InitGraphics, DriverUp, DriverDark, Die, KioskStart, Cut, KioskCrash, Powers,
         RetryGraphicsRead, RetryGraphicsWrite, RestartWhenIdle, Restart
<1>2. ~(Proves \/ Installs)
  BY DEF Proves, MarkGoodRead, MarkGoodWrite, MarkGoodLoader, Kept, Installs,
         InstallCheck, UnpackGet, ClearSlot, Download, RenameFiles, TryOtherRead,
         TryOtherWrite, Remember
<1>3. ~People
  BY DEF People, BootMenu, OpenUpdate, CloseUpdate, UpdateDialog, StartUpdate,
         OpenPower, ClosePower, PowerChoose
<1> QED BY <1>1, <1>2, <1>3 DEF Next, Grub, PickSlot, BootDefault

(* What GRUB picks, from what it found.                                    *)
LEMMA PickSteps ==
  ASSUME IInv, [HNext]_<<vars, hvars>>, Picks
  PROVE  /\ phase = "grub"
         /\ env.try = "" => /\ boot'.slot = env.boot
                            /\ ~kpend => boot'.kernel = env.kernel
                            /\ kpend => boot'.kernel # env.kernel
<1>1. phase = "grub" /\ phase' # phase
  BY DEF Picks
<1>2. PickSlot
  BY <1>1, OnlyPickPicks DEF HNext, vars
<1>3. CASE env.try = ""
  <2>1. boot' = [NoBoot EXCEPT !.slot = env.boot,
                   !.kernel = IF kpend THEN Toggle(env.kernel) ELSE env.kernel]
    BY <1>2, <1>3 DEF PickSlot
  <2>2. Toggle(env.kernel) # env.kernel
    BY DEF Toggle, IInv, TypeOK, EnvType, Kernels
  <2> QED BY <1>1, <2>1, <2>2 DEF NoBoot
<1> QED BY <1>1, <1>3

(* A boot of an update that dies before bootenv.MarkGood's write is on the *)
(* disk is followed by the slot the update was installed from.             *)
THEOREM UpdateFallsBack == HSpec => TryFallsBack
<1>1. IInv /\ HInv /\ [HNext]_<<vars, hvars>> =>
        [Picks /\ last.try /\ last.auto /\ ~last.proven => boot'.slot = Other(last.slot)]_vars
  <2> SUFFICES ASSUME IInv, HInv, [HNext]_<<vars, hvars>>, Picks,
                      last.try, last.auto, ~last.proven
               PROVE  boot'.slot = Other(last.slot)
    OBVIOUS
  <2>1. phase = "grub" /\ (env.try = "" => boot'.slot = env.boot)
    BY PickSteps
  <2> QED BY <2>1 DEF HInv, GrubFinds, Leaves, Untried
<1> QED BY <1>1, HistoryInvariance, PTL DEF HSpec, TryFallsBack

(* One of the slot to come back to that dies outside the driver is         *)
(* followed by the same slot on its other kernel.                          *)
THEOREM KernelsAlternate == HSpec => KernelAlternates
<1>1. IInv /\ HInv /\ [HNext]_<<vars, hvars>> =>
        [Picks /\ last.auto /\ ~last.try /\ ~last.proven /\ ~last.gfx /\ env.try = ""
         => boot'.slot = last.slot /\ boot'.kernel # last.kernel]_vars
  <2> SUFFICES ASSUME IInv, HInv, [HNext]_<<vars, hvars>>, Picks, last.auto, ~last.try,
                      ~last.proven, ~last.gfx, env.try = ""
               PROVE  boot'.slot = last.slot /\ boot'.kernel # last.kernel
    OBVIOUS
  <2>1. phase = "grub" /\ boot'.slot = env.boot /\ (kpend => boot'.kernel # env.kernel)
    BY PickSteps
  <2> QED BY <2>1 DEF HInv, GrubFinds, Leaves, Pending
<1> QED BY <1>1, HistoryInvariance, PTL DEF HSpec, KernelAlternates

(* A boot that bootenv.MarkGood recorded is repeated.                      *)
THEOREM ProvenIsRepeated == HSpec => ProvenSticks
<1>1. IInv /\ HInv /\ [HNext]_<<vars, hvars>> =>
        [Picks /\ last.proven /\ ~last.driver /\ env.try = ""
         => boot'.slot = last.slot /\ boot'.kernel = last.kernel]_vars
  <2> SUFFICES ASSUME IInv, HInv, [HNext]_<<vars, hvars>>, Picks, last.proven, ~last.driver,
                      env.try = ""
               PROVE  boot'.slot = last.slot /\ boot'.kernel = last.kernel
    OBVIOUS
  <2>1. phase = "grub" /\ boot'.slot = env.boot /\ (~kpend => boot'.kernel = env.kernel)
    BY PickSteps
  <2> QED BY <2>1 DEF HInv, GrubFinds, Good
<1> QED BY <1>1, HistoryInvariance, PTL DEF HSpec, ProvenSticks
-----------------------------------------------------------------------------
(* The graphics mark, where a write of grubenv that reports an error did   *)
(* not reach the disk.                                                     *)

(* The mark is on the disk while the driver it is for starts, and when     *)
(* that was the end of the boot.                                           *)
MarkInv == /\ marked => phase = "driver" /\ boot.gpus # "" /\ env.gfxtry = boot.gpus
           /\ env.gfxtry # "" => phase = "off" \/ marked
           /\ upd = "trywrite" => snap["upd"].gfxtry = ""
           /\ power = "write" => snap["driver"].gfxtry = ""

(* sc_gfxfail names adapters whose driver died, and a mark that repeats it *)
(* ones whose driver died twice.                                           *)
DeathInv == /\ deaths \in [GPUs -> 0..2]
            /\ env.gfxfail # "" => deaths[env.gfxfail] # 0
            /\ phase = "off" /\ env.gfxtry # "" =>
                 /\ deaths[env.gfxtry] # 0
                 /\ env.gfxtry = env.gfxfail => deaths[env.gfxtry] = 2

(* A boot that died in the driver installed nothing and proved nothing.    *)
BlameInv == phase \in {"off", "grub"} /\ last.gfx => env.try = "" /\ ~last.proven

GInv == MarkInv /\ DeathInv /\ BlameInv

(* A death is counted, forgotten only when the marked driver comes up.     *)
LEMMA CountsSteps ==
  ASSUME Counts, deaths \in [GPUs -> 0..2]
  PROVE  /\ deaths' \in [GPUs -> 0..2]
         /\ \A g \in GPUs :
              /\ deaths[g] # 0 /\ ~(phase = "driver" /\ marked /\ phase' = "start" /\ boot.gpus = g)
                   => deaths'[g] # 0
              /\ phase = "driver" /\ marked /\ phase' = "off" /\ boot.gpus = g
                   => deaths'[g] # 0 /\ (deaths[g] # 0 => deaths'[g] = 2)
              /\ phase = "kiosk" /\ env'.gfxfail = g => env.gfxfail = g \/ deaths'[g] # 0
<1> DEFINE D(g) == CASE phase = "driver" /\ marked /\ phase' = "off" /\ boot.gpus = g ->
                          IF deaths[g] = 2 THEN 2 ELSE deaths[g] + 1
                     [] phase = "driver" /\ marked /\ phase' = "start" /\ boot.gpus = g -> 0
                     [] env'.gfxfail = g /\ env.gfxfail # g /\ phase = "kiosk" -> 1
                     [] OTHER -> deaths[g]
<1>1. deaths' = [g \in GPUs |-> D(g)]
  BY DEF Counts
<1>2. ASSUME NEW g \in GPUs
      PROVE  /\ D(g) \in 0..2
             /\ deaths[g] # 0 /\ ~(phase = "driver" /\ marked /\ phase' = "start" /\ boot.gpus = g)
                  => D(g) # 0
             /\ phase = "driver" /\ marked /\ phase' = "off" /\ boot.gpus = g
                  => D(g) # 0 /\ (deaths[g] # 0 => D(g) = 2)
             /\ phase = "kiosk" /\ env'.gfxfail = g => env.gfxfail = g \/ D(g) # 0
  <2>1. deaths[g] \in 0..2
    OBVIOUS
  <2> QED BY <2>1
<1> HIDE DEF D
<1>3. deaths' \in [GPUs -> 0..2] /\ \A g \in GPUs : deaths'[g] = D(g)
  BY <1>1, <1>2
<1> QED BY <1>2, <1>3

(* The machine goes down: in a marked driver, a death of it.               *)
LEMMA DownMark ==
  ASSUME IInv, HInv, GInv, GoDown, phase # "off", History
  PROVE  GInv'
<1>1. /\ phase' = "off" /\ ~marked' /\ env' = env /\ upd' = "idle" /\ power' = ""
  BY DEF GoDown, KioskGone, disk
<1>2. MarkInv'
  BY <1>1 DEF MarkInv
<1>3. env.gfxtry # "" => marked /\ phase = "driver" /\ boot.gpus = env.gfxtry
  BY DEF GInv, MarkInv
<1>4. env.gfxtry \in GPUs \cup {""} /\ env.gfxfail \in GPUs \cup {""}
  BY DEF IInv, TypeOK, EnvType
<1>5. DeathInv'
  BY <1>1, <1>3, <1>4, CountsSteps DEF GInv, DeathInv, History
<1>6. last'.gfx => env.gfxtry # "" /\ (last'.proven <=> cur.proven)
  <2>1. CASE phase \in Running
    BY <1>1, <2>1, RemembersSteps DEF History
  <2>2. CASE phase \notin Running
    BY <1>1, <2>2, RemembersSteps DEF History
  <2> QED BY <2>1, <2>2
<1>7. BlameInv'
  BY <1>1, <1>3, <1>6 DEF BlameInv, HInv, RunInv, WatchInv
<1> QED BY <1>2, <1>5, <1>7 DEF GInv

(* GRUB turns the mark into a failure counted, or into safe graphics.      *)
LEMMA LoadMark ==
  ASSUME IInv, GInv, LoadEnv, History
  PROVE  GInv'
<1>1. /\ phase = "off" /\ phase' = "grub" /\ UNCHANGED <<marked, upd, power, snap, boot>>
  BY DEF LoadEnv, kiosk
<1>2. /\ env'.try = env.try /\ env'.gfxtry = ""
      /\ env'.gfxfail \in {"", env.gfxfail, env.gfxtry}
  BY DEF LoadEnv, GraphicsDied, IInv, TypeOK, EnvType
<1>3. env.gfxtry \in GPUs \cup {""} /\ env.gfxfail \in GPUs \cup {""}
  BY DEF IInv, TypeOK, EnvType
<1>4. MarkInv'
  BY <1>1, <1>2 DEF GInv, MarkInv
<1>5. DeathInv'
  BY <1>1, <1>2, <1>3, CountsSteps DEF GInv, DeathInv, History
<1>6. BlameInv'
  BY <1>1, <1>2, RemembersSteps DEF GInv, BlameInv, History
<1> QED BY <1>4, <1>5, <1>6 DEF GInv

(* A step with no mark before it nor after.                                *)
LEMMA StepMark ==
  ASSUME IInv, IInv', GInv, History, phase \notin {"off", "driver"}, phase' \notin {"off", "grub"},
         ~marked', env'.gfxtry = "", env'.gfxfail = env.gfxfail \/ phase = "kiosk",
         upd' = "trywrite" => snap'["upd"].gfxtry = "",
         power' = "write" => snap'["driver"].gfxtry = ""
  PROVE  GInv'
<1>1. env.gfxfail \in GPUs \cup {""} /\ env'.gfxfail \in GPUs \cup {""}
  BY DEF IInv, TypeOK, EnvType
<1>2. MarkInv'
  BY DEF MarkInv
<1>3. DeathInv'
  BY <1>1, CountsSteps DEF GInv, DeathInv, History
<1>4. BlameInv'
  BY DEF BlameInv
<1> QED BY <1>2, <1>3, <1>4 DEF GInv

(* /init sets the mark before the driver, and takes it away after.         *)
LEMMA DriverMark ==
  ASSUME "io" \notin Faults, IInv, IInv', GInv, History, InitGraphics \/ DriverUp \/ DriverDark,
         ~GoDown
  PROVE  GInv'
<1>0. /\ phase \in {"init", "driver"} /\ phase' \in {"start", "driver", "dark"}
      /\ UNCHANGED <<boot, upd, power, snap>>
  BY DEF InitGraphics, DriverUp, DriverDark, kiosk
<1>1. upd = "idle" /\ power = ""
  BY <1>0 DEF IInv, UpdInv, PowerInv
<1>2. env \in EnvType /\ boot \in BootType /\ marked \in BOOLEAN
  BY DEF IInv, TypeOK
<1>3. BlameInv'
  BY <1>0 DEF BlameInv
<1>4. CASE InitGraphics
  <2>1. phase = "init" /\ phase' \in {"start", "driver"} /\ ~marked /\ env.gfxtry = ""
    BY <1>4 DEF InitGraphics, GInv, MarkInv
  <2>2. \/ env' = env /\ marked' = marked
        \/ /\ boot.gpus # "" /\ phase' = "driver" /\ marked'
           /\ env' = [env EXCEPT !.gfxtry = boot.gpus]
    <3>1. CASE \E ok \in BOOLEAN : /\ EnvWrite([env EXCEPT !.gfxtry = boot.gpus], ok)
                                    /\ marked' = ok /\ boot.gpus # "" /\ phase' = "driver"
      <4>1. PICK ok \in BOOLEAN : /\ EnvWrite([env EXCEPT !.gfxtry = boot.gpus], ok)
                                  /\ marked' = ok /\ boot.gpus # "" /\ phase' = "driver"
        BY <3>1
      <4>2. ok = TRUE /\ env' = [env EXCEPT !.gfxtry = boot.gpus]
        BY <4>1 DEF EnvWrite
      <4> QED BY <4>1, <4>2
    <3> QED BY <1>4, <3>1 DEF InitGraphics
  <2>3. env'.gfxfail = env.gfxfail
    BY <1>2, <2>2 DEF EnvType
  <2>4. MarkInv'
    <3>1. CASE env' = env /\ marked' = marked
      BY <1>0, <1>1, <2>1, <3>1 DEF MarkInv
    <3>2. CASE /\ boot.gpus # "" /\ phase' = "driver" /\ marked'
               /\ env' = [env EXCEPT !.gfxtry = boot.gpus]
      <4>1. env'.gfxtry = boot.gpus
        BY <1>2, <3>2 DEF EnvType
      <4> QED BY <1>0, <1>1, <3>2, <4>1 DEF MarkInv
    <3> QED BY <2>2, <3>1, <3>2
  <2>5. DeathInv'
    BY <1>2, <2>1, <2>3, CountsSteps DEF GInv, DeathInv, History, EnvType
  <2> QED BY <1>3, <2>4, <2>5 DEF GInv
<1>5. CASE DriverUp
  <2>1. phase = "driver" /\ phase' = "start" /\ ~marked'
    BY <1>5 DEF DriverUp
  <2>2. env' = IF marked THEN GraphicsOK(env) ELSE env
    BY <1>5 DEF DriverUp, EnvWrite
  <2>3. env'.gfxtry = "" /\ (marked => env'.gfxfail = "") /\ (~marked => env'.gfxfail = env.gfxfail)
    BY <1>2, <2>1, <2>2 DEF GraphicsOK, EnvType, GInv, MarkInv
  <2>4. MarkInv'
    BY <1>0, <1>1, <2>1, <2>3 DEF MarkInv
  <2>5. DeathInv'
    BY <1>2, <2>1, <2>3, CountsSteps DEF GInv, DeathInv, History, EnvType
  <2> QED BY <1>3, <2>4, <2>5 DEF GInv
<1>6. CASE DriverDark
  <2>1. phase = "driver" /\ phase' = "dark" /\ ~marked /\ ~marked' /\ env' = env
    BY <1>6 DEF DriverDark, disk
  <2>2. MarkInv'
    BY <1>0, <1>1, <2>1 DEF GInv, MarkInv
  <2>3. DeathInv'
    BY <1>2, <2>1, CountsSteps DEF GInv, DeathInv, History, EnvType
  <2> QED BY <1>3, <2>2, <2>3 DEF GInv
<1> QED BY <1>4, <1>5, <1>6

(* GRUB's menu, and the kiosk's steps: none of them leaves a mark.         *)
LEMMA MenuMark ==
  ASSUME IInv, IInv', GInv, History,
         PickSlot \/ BootDefault \/ (\E e \in Entries : BootMenu(e)) \/ KioskStart \/ KioskCrash
  PROVE  GInv'
<1>1. /\ phase \in {"grub", "menu", "start", "kiosk"} /\ marked' = marked
      /\ phase' \in {"menu", "stuck", "init", "kiosk", "start"}
  BY DEF PickSlot, BootDefault, BootMenu, Start, KioskStart, KioskCrash
<1>2. ~marked' /\ env.gfxtry = ""
  BY <1>1 DEF GInv, MarkInv
<1>3. env'.gfxtry = "" /\ env'.gfxfail = env.gfxfail
  BY <1>2 DEF PickSlot, TryTaken, BootPending, BootDefault, BootMenu, KioskStart, KioskCrash,
              disk, IInv, TypeOK, EnvType
<1>4. phase # "kiosk" => upd' = "idle" /\ power' = ""
  BY DEF PickSlot, BootDefault, BootMenu, KioskStart, KioskCrash, kiosk, IInv, UpdInv, PowerInv
<1>5. phase = "kiosk" => upd' = "idle" /\ power' = ""
  BY DEF PickSlot, BootDefault, BootMenu, KioskStart, KioskCrash, KioskGone
<1> QED BY <1>1, <1>2, <1>3, <1>4, <1>5, StepMark

(* A step of the kiosk, given what grubenv and its copies come to.         *)
LEMMA KioskMark ==
  ASSUME IInv, IInv', GInv, History, phase = "kiosk", phase' = "kiosk", marked' = marked,
         env'.gfxtry = "",
         upd' = "trywrite" => (upd = "trywrite" /\ snap'["upd"] = snap["upd"])
                              \/ snap'["upd"] = env,
         power' = "write" => (power = "write" /\ snap'["driver"] = snap["driver"])
                             \/ snap'["driver"] = env
  PROVE  GInv'
<1>1. ~marked' /\ env.gfxtry = ""
  BY DEF GInv, MarkInv
<1>2. /\ upd' = "trywrite" => snap'["upd"].gfxtry = ""
      /\ power' = "write" => snap'["driver"].gfxtry = ""
  BY <1>1 DEF GInv, MarkInv
<1> QED BY <1>1, <1>2, StepMark

(* The kiosk's writes of grubenv leave no mark.                            *)
LEMMA WritesMark ==
  ASSUME IInv, IInv', GInv, History, MarkGoodWrite \/ TryOtherWrite \/ RetryGraphicsWrite
  PROVE  GInv'
<1>1. phase = "kiosk" /\ phase' = "kiosk" /\ marked' = marked /\ snap' = snap
  BY DEF MarkGoodWrite, TryOtherWrite, RetryGraphicsWrite, NotInstall, NotPower
<1>2. /\ env.gfxtry = "" /\ (upd = "trywrite" => snap["upd"].gfxtry = "")
      /\ (power = "write" => snap["driver"].gfxtry = "")
  BY <1>1 DEF GInv, MarkInv
<1>3. snap \in [Routines -> EnvType] /\ mgNew \in BOOLEAN
  BY DEF IInv, TypeOK
<1>4. CASE MarkGoodWrite
  <2>1. env' = env \/ env' = MarkGood(snap["mg"], mgNew)
    BY <1>4 DEF MarkGoodWrite, EnvWrite, Modified
  <2>2. Keep(snap["mg"]) \in EnvType /\ Keep(snap["mg"]).gfxtry = ""
    BY <1>1, <1>3, RunningBoot DEF Keep, EnvType, Routines
  <2>3. MarkGood(snap["mg"], mgNew).gfxtry = ""
    BY <2>2 DEF MarkGood, RetryGPUs, EnvType
  <2>4. UNCHANGED <<upd, power>>
    BY <1>4 DEF MarkGoodWrite
  <2> QED BY <1>1, <1>2, <2>1, <2>3, <2>4, KioskMark
<1>5. CASE TryOtherWrite
  <2>1. upd = "trywrite" /\ upd' # "trywrite" /\ power' = power
        /\ (env' = env \/ env' = TryOther(snap["upd"]))
    BY <1>5 DEF TryOtherWrite, EnvWrite, Modified, NotInstall
  <2>2. TryOther(snap["upd"]).gfxtry = snap["upd"].gfxtry
    BY <1>3 DEF TryOther, EnvType, Routines
  <2> QED BY <1>1, <1>2, <2>1, <2>2, KioskMark
<1>6. CASE RetryGraphicsWrite
  <2>1. power = "write" /\ power' = "go" /\ upd' = upd
        /\ (env' = env \/ env' = RetryGPUs(snap["driver"]))
    BY <1>6 DEF RetryGraphicsWrite, EnvWrite, Modified, NotPower
  <2>2. RetryGPUs(snap["driver"]).gfxtry = snap["driver"].gfxtry
    BY <1>3 DEF RetryGPUs, EnvType, Routines
  <2> QED BY <1>1, <1>2, <2>1, <2>2, KioskMark
<1> QED BY <1>4, <1>5, <1>6

(* Nor do its other steps.                                                 *)
LEMMA QuietMark ==
  ASSUME IInv, IInv', GInv, History, QuietKiosk
  PROVE  GInv'
<1>1. phase = "kiosk" /\ phase' = "kiosk" /\ marked' = marked /\ env' = env
  BY DEF QuietKiosk, MarkGoodRead, MarkGoodLoader, Kept, OpenUpdate, CloseUpdate, UpdateDialog,
         StartUpdate, InstallCheck, UnpackGet, ClearSlot, Download, RenameFiles, TryOtherRead,
         Remember, OpenPower, ClosePower, PowerChoose, RetryGraphicsRead, RestartWhenIdle,
         NotInstall, NotPower, disk
<1>2. env'.gfxtry = ""
  BY <1>1 DEF GInv, MarkInv
<1>3. CASE TryOtherRead \/ RetryGraphicsRead \/ MarkGoodRead
  <2>1. \/ snap' = [snap EXCEPT !["upd"] = env] /\ power' = power
        \/ snap' = [snap EXCEPT !["driver"] = env] /\ upd' = upd
        \/ snap' = [snap EXCEPT !["mg"] = env] /\ upd' = upd /\ power' = power
    BY <1>3 DEF TryOtherRead, RetryGraphicsRead, MarkGoodRead, NotInstall, NotPower
  <2>2. /\ snap'["upd"] \in {snap["upd"], env} /\ (upd' # upd => snap'["upd"] = env)
        /\ snap'["driver"] \in {snap["driver"], env} /\ (power' # power => snap'["driver"] = env)
    BY <2>1 DEF IInv, TypeOK, Routines
  <2> QED BY <1>1, <1>2, <2>2, KioskMark
<1>4. CASE ~TryOtherRead /\ ~RetryGraphicsRead /\ ~MarkGoodRead
  <2>1. /\ snap' = snap /\ (upd' = "trywrite" => upd = "trywrite")
        /\ (power' = "write" => power = "write")
    BY <1>4
    DEF QuietKiosk, MarkGoodLoader, MarkGoodAgain, Kept, OpenUpdate, CloseUpdate, UpdateDialog,
        StartUpdate, InstallCheck, UnpackGet, ClearSlot, Download, RenameFiles, Remember,
        OpenPower, ClosePower, PowerChoose, RestartWhenIdle, NotInstall, NotPower
  <2> QED BY <1>1, <1>2, <2>1, KioskMark
<1> QED BY <1>3, <1>4

(* A new disk has no mark.                                                 *)
LEMMA InitMark == HInit => GInv
<1> SUFFICES ASSUME HInit PROVE GInv
  OBVIOUS
<1>1. /\ phase = "off" /\ ~marked /\ upd = "idle" /\ power = "" /\ env.gfxtry = ""
      /\ env.gfxfail = "" /\ last = NoLast /\ deaths = [g \in GPUs |-> 0]
  BY DEF HInit, Init, KioskInit, NewEnv
<1>2. ~last.gfx
  BY <1>1 DEF NoLast, Ended
<1>3. deaths \in [GPUs -> 0..2]
  <2>1. deaths = [g \in GPUs |-> 0]
    BY DEF HInit
  <2>2. 0 \in 0..2
    OBVIOUS
  <2> QED BY <2>1, <2>2
<1> QED BY <1>1, <1>2, <1>3 DEF GInv, MarkInv, DeathInv, BlameInv

(* Every step keeps what the mark and the deaths counted have in common.   *)
LEMMA NextMark ==
  ASSUME "io" \notin Faults, IInv, IInv', HInv, GInv, [HNext]_<<vars, hvars>>
  PROVE  GInv'
<1>1. CASE UNCHANGED <<vars, hvars>>
  <2>1. UNCHANGED <<env, phase, boot, marked, power, upd, snap, last, deaths>>
    BY <1>1 DEF vars, hvars, disk, kiosk
  <2> QED BY <2>1 DEF GInv, MarkInv, DeathInv, BlameInv
<1>2. ASSUME Next, History PROVE GInv'
  <2>1. CASE GoDown /\ phase # "off"
    BY <1>2, <2>1, DownMark
  <2>2. CASE LoadEnv
    BY <1>2, <2>2, LoadMark
  <2>3. CASE PickSlot \/ BootDefault \/ (\E e \in Entries : BootMenu(e)) \/ KioskStart
             \/ KioskCrash
    BY <1>2, <2>3, MenuMark
  <2>4. CASE InitGraphics \/ DriverUp \/ DriverDark
    <3>1. phase # "off"
      BY <2>4 DEF InitGraphics, DriverUp, DriverDark
    <3> QED BY <1>2, <2>1, <2>4, <3>1, DriverMark
  <2>5. CASE MarkGoodWrite \/ TryOtherWrite \/ RetryGraphicsWrite
    BY <1>2, <2>5, WritesMark
  <2>6. CASE QuietKiosk
    BY <1>2, <2>6, QuietMark
  <2>7. CASE Die \/ Cut \/ Restart
    <3>1. GoDown /\ phase # "off"
      BY <2>7 DEF Die, Cut, Restart
    <3> QED BY <2>1, <3>1
  <2> QED
    BY <1>2, <2>2, <2>3, <2>4, <2>5, <2>6, <2>7
    DEF Next, Grub, Boots, Proves, Installs, People, Powers, QuietKiosk
<1> QED BY <1>1, <1>2 DEF HNext

(* The marks /init leaves are those of drivers that died.                  *)
THEOREM MarkInvariance ==
  ASSUME "io" \notin Faults
  PROVE  HSpec => []GInv
<1>1. HInit => GInv
  BY InitMark
<1>2. IInv /\ IInv' /\ HInv /\ GInv /\ [HNext]_<<vars, hvars>> => GInv'
  BY NextMark
<1> QED BY <1>1, <1>2, HistoryInvariance, PTL DEF HSpec

(* A boot of the slot to come back to that died in the GPU's driver is     *)
(* followed by the same slot and the same kernel.                          *)
THEOREM DriverIsBlamed ==
  ASSUME "io" \notin Faults
  PROVE  HSpec => DriverTakesTheBlame
<1>1. IInv /\ HInv /\ GInv /\ [HNext]_<<vars, hvars>> =>
        [Picks /\ last.auto /\ ~last.try /\ last.gfx
         => boot'.slot = last.slot /\ boot'.kernel = last.kernel]_vars
  <2> SUFFICES ASSUME IInv, HInv, GInv, [HNext]_<<vars, hvars>>, Picks, last.auto, ~last.try,
                      last.gfx
               PROVE  boot'.slot = last.slot /\ boot'.kernel = last.kernel
    OBVIOUS
  <2>1. /\ phase = "grub"
        /\ env.try = "" => boot'.slot = env.boot /\ (~kpend => boot'.kernel = env.kernel)
    BY PickSteps
  <2>2. env.try = "" /\ ~last.proven
    BY <2>1 DEF GInv, BlameInv
  <2> QED BY <2>1, <2>2 DEF HInv, GrubFinds, Leaves, Pending
<1> QED BY <1>1, HistoryInvariance, MarkInvariance, PTL DEF HSpec, DriverTakesTheBlame

(* GRUB leaves adapters safe only after two deaths of their driver in a    *)
(* row, or one after a last try.                                           *)
THEOREM TwoDeathsToSafe ==
  ASSUME "io" \notin Faults
  PROVE  HSpec => SafeAfterTwo
<1>1. IInv /\ GInv /\ [HNext]_<<vars, hvars>> =>
        [phase = "off" => \A g \in env'.gfxsafe \ env.gfxsafe : deaths[g] = 2]_vars
  <2> SUFFICES ASSUME IInv, GInv, [HNext]_<<vars, hvars>>, phase = "off",
                      NEW g \in env'.gfxsafe \ env.gfxsafe
               PROVE  deaths[g] = 2
    OBVIOUS
  <2>1. env.gfxtry # "" /\ env.gfxtry = env.gfxfail /\ g = env.gfxtry
    <3>1. CASE env' = env
      BY <3>1
    <3>2. CASE env' # env
      <4>1. ~UNCHANGED vars
        BY <3>2 DEF vars, disk
      <4>2. Next
        BY <4>1 DEF HNext
      <4>3. env' = IF env.gfxtry # "" THEN GraphicsDied(env) ELSE env
        BY <3>2, <4>2, OffLoads DEF LoadEnv
      <4> QED BY <3>2, <4>3 DEF GraphicsDied, IInv, TypeOK, EnvType
    <3> QED BY <3>1, <3>2
  <2> QED BY <2>1 DEF GInv, DeathInv
<1> QED BY <1>1, HistoryInvariance, MarkInvariance, PTL DEF HSpec, SafeAfterTwo
=============================================================================
