----------------------------- MODULE BootUpdate ------------------------------
(***************************************************************************)
(* A kiosk installed to disk, from the boot loader to the update dialog:   *)
(*                                                                         *)
(*   - GRUB picks a slot and a kernel from grubenv (build/grub-disk.cfg);  *)
(*   - /init tries the GPU's driver under a mark (build/init);             *)
(*   - the kiosk settles the last update and, 20 s later, records a good   *)
(*     boot (cmd/simpleclient/main.go, internal/bootenv);                  *)
(*   - an update is written into the other slot (internal/update) and the  *)
(*     next boot tries it; the power dialog restarts (internal/ui).        *)
(*                                                                         *)
(* grubenv, the slots, the ESP's grub.cfg and the two files on the data    *)
(* partition survive a restart; everything else is lost with the power,    *)
(* which can go between any two steps.  grubenv is changed by several      *)
(* goroutines, each of which reads the whole file, changes its copy and    *)
(* writes the whole file back: a read and a write are two steps.           *)
(*                                                                         *)
(* Abstractions: a slot's files are whole, part of a release or none (see  *)
(* slots); adapters and releases are small sets; one write of grubenv's    *)
(* 1 KiB is atomic; time is only the order of steps.                       *)
(***************************************************************************)
EXTENDS Naturals

CONSTANTS Releases,        \* releases, ordered as update.Newer orders their tags
          Scripts,         \* GRUB scripts releases bring along
          Script,          \* Script[r] is the one in release r
          GPUs,            \* sets of display adapters, as bootenv.GPUs names them
          Adapters,        \* the ones this disk may find at power-on; "" for none
          Machines,        \* what the hardware does: see MachineType
          SafeRetryEvery,  \* bootenv.safeRetryEvery: 10 in the code
          MarkTries,       \* how often main tries MarkGood: 10 in the code
          Menu,            \* the boot menu entries someone may pick
          Faults,          \* of "cut", "crash", "io": what may go wrong
          MaxEvents        \* bound: how often someone restarts it or starts an update,
                           \* the plug is pulled or the kiosk crashes

Slots == {"A", "B"}
Kernels == {"new", "lts"}
Entries == {"lts", "safe", "retry", "previous"}

(* loads: the kernels of a release GRUB can load; works: those that come   *)
(* up on this machine; driver: the adapters whose driver gives a screen;   *)
(* fb: whether the firmware leaves a framebuffer.                          *)
MachineType == [loads : [Releases -> SUBSET Kernels],
                works : SUBSET (Releases \X Kernels),
                driver : SUBSET GPUs,
                fb : BOOLEAN]

ASSUME ReleasesNat == Releases \subseteq Nat \ {0} /\ 1 \in Releases
ASSUME ScriptsAssumption == Script \in [Releases -> Scripts]
ASSUME GPUsAssumption == "" \notin GPUs /\ Adapters \subseteq GPUs \cup {""} /\ Adapters # {}
ASSUME MachinesAssumption == /\ Machines # {} /\ Machines \subseteq MachineType
                             /\ \A m \in Machines : m.loads[1] # {}
ASSUME CountsAssumption == /\ SafeRetryEvery \in Nat \ {0}
                           /\ MarkTries \in Nat \ {0}
                           /\ MaxEvents \in Nat
ASSUME FaultsAssumption == Menu \subseteq Entries /\ Faults \subseteq {"cut", "crash", "io"}

VARIABLES
  hw,       \* the machine, fixed
  env,      \* grubenv on the ESP
  slots,    \* slots[s]: the release in slot s and how much of it
  loader,   \* the grub.cfg on the ESP
  tried,    \* /data/simpleclient/update-try: release and slot, 0 for no file
  failed,   \* /data/simpleclient/update-failed: release, 0 for no file
  phase,    \* where the machine is: see Phases
  kpend,    \* GRUB's own copy of sc_kpending
  boot,     \* the boot's parameters: bootenv.Boot, its release and adapters
  marked,   \* /init's MARKED
  screen,   \* the kiosk's screen: "list", "update" or "power"
  power,    \* the power dialog: choosing, "driver", "write" or "go"
  upd,      \* where Install stands; "idle" when none runs
  updRel,   \* the release being installed
  mg,       \* where main's MarkGood goroutine stands
  mgNew,    \* newLoader's answer in the attempt under way
  mgTry,    \* attempts that failed
  pending,  \* state.driverPending
  snap,     \* snap[g]: the copy of grubenv goroutine g is changing
  events    \* what people and faults have done so far: see MaxEvents

disk == <<env, slots, loader, tried, failed>>
kiosk == <<screen, power, upd, updRel, mg, mgNew, mgTry, pending, snap>>
vars == <<hw, disk, phase, kpend, boot, marked, kiosk, events>>

Phases == {"off", "grub", "menu", "stuck", "init", "driver", "start", "dark", "kiosk"}
UpdPhases == {"idle", "check", "get", "clear", "download", "rename", "undo",
              "try", "trywrite", "remember", "restart"}
MgPhases == {"wait", "write", "loader", "kept", "done", "gaveup"}
Routines == {"mg", "upd", "driver"}

EnvType == [boot : Slots, try : Slots \cup {""}, kernel : Kernels, kpending : BOOLEAN,
            gfxtry : GPUs \cup {""}, gfxfail : GPUs \cup {""}, gfxsafe : SUBSET GPUs,
            safeboots : 0..(SafeRetryEvery - 1)]

(* A slot is "whole" when every file a boot needs has its own name, "part" *)
(* when only some have, "none" when it is empty.  A part does not load:    *)
(* clearSlot removes firmware.cpio first, the update's tar has it last but *)
(* for the splash, and slot.cfg's initrd line names it.                    *)
SlotType == [rel : Releases \cup {0}, st : {"whole", "part", "none"}]

BootType == [slot : Slots \cup {""}, kernel : Kernels \cup {""}, rel : Releases \cup {0},
             safe : SUBSET GPUs, once : BOOLEAN, gpus : GPUs \cup {""}]

TriedType == [rel : Releases \cup {0}, slot : Slots \cup {""}]
NoTry == [rel |-> 0, slot |-> ""]

NoBoot == [slot |-> "", kernel |-> "", rel |-> 0, safe |-> {}, once |-> FALSE,
           gpus |-> ""]

Other(s) == IF s = "A" THEN "B" ELSE "A"

(* The state sc-install leaves: the release in slot A, nothing in slot B.  *)
NewEnv == [boot |-> "A", try |-> "", kernel |-> "new", kpending |-> FALSE,
           gfxtry |-> "", gfxfail |-> "", gfxsafe |-> {}, safeboots |-> 0]

KioskInit == /\ screen = "list" /\ power = "" /\ upd = "idle" /\ updRel = 0
             /\ mg = "wait" /\ mgNew = FALSE /\ mgTry = 0 /\ pending = FALSE
             /\ snap = [g \in Routines |-> NewEnv]

Init == /\ hw \in Machines
        /\ env = NewEnv
        /\ slots = [s \in Slots |-> IF s = "A" THEN [rel |-> 1, st |-> "whole"]
                                               ELSE [rel |-> 0, st |-> "none"]]
        /\ loader = Script[1]
        /\ tried = NoTry
        /\ failed = 0
        /\ phase = "off" /\ kpend = FALSE /\ boot = NoBoot /\ marked = FALSE
        /\ KioskInit
        /\ events = 0

(* The kiosk process is gone: what it kept in memory with it.              *)
KioskGone == /\ screen' = "list" /\ power' = "" /\ upd' = "idle" /\ updRel' = 0
             /\ mg' = "wait" /\ mgNew' = FALSE /\ mgTry' = 0 /\ pending' = FALSE
             /\ snap' = [g \in Routines |-> NewEnv]

(* The machine goes down, whatever for.                                    *)
GoDown == /\ phase' = "off" /\ kpend' = FALSE /\ boot' = NoBoot /\ marked' = FALSE
          /\ KioskGone
          /\ UNCHANGED <<hw, disk>>

(* A write of grubenv that succeeds, or one that reports an error, having  *)
(* reached the disk (only the sync or the unmount failed) or not.          *)
EnvWrite(e, ok) == \/ ok /\ env' = e
                   \/ "io" \in Faults /\ ~ok /\ env' \in {env, e}

(* bootenv.Modify, its write: nothing is written when nothing changed.     *)
Modified(old, new) == IF new = old THEN env ELSE new
-----------------------------------------------------------------------------
(* GRUB.                                                                   *)

(* A boot that left the graphics mark behind: the adapters are counted as  *)
(* having failed, and the second time in a row they are left safe.         *)
GraphicsDied(e) ==
  IF e.gfxtry = e.gfxfail
  THEN [e EXCEPT !.gfxsafe = @ \cup {e.gfxtry}, !.gfxfail = "", !.gfxtry = ""]
  ELSE [e EXCEPT !.gfxfail = e.gfxtry, !.gfxtry = ""]

(* Mutants, here and below, are plausible slips in the code that the named *)
(* property catches.  DriverTakesTheBlame: sc_kpending is left as it is.   *)
KernelPendingMutant(e) == e.kpending

KernelPending(e) == e.gfxtry = "" /\ e.kpending

LoadEnv ==
  /\ phase = "off"
  /\ phase' = "grub"
  /\ env' = IF env.gfxtry # "" THEN GraphicsDied(env) ELSE env
  /\ kpend' = KernelPending(env)
  /\ UNCHANGED <<hw, slots, loader, tried, failed, boot, marked, kiosk, events>>

(* ComesUp: the kernel is not switched.                                    *)
ToggleMutant(k) == k

Toggle(k) == IF k = "lts" THEN "new" ELSE "lts"

(* TryFallsBack: sc_try is cleared but not saved.                          *)
TryTakenMutant(e) == e

(* KernelAlternates: the boot is not marked pending.                       *)
BootPendingMutant(e, k) == [e EXCEPT !.kernel = k]

TryTaken(e) == [e EXCEPT !.try = ""]
BootPending(e, k) == [e EXCEPT !.kernel = k, !.kpending = TRUE]

(* The slot to try once, or the one to come back to; the other kernel when *)
(* the boot before did not get as far as MarkGood.                         *)
PickSlot ==
  /\ phase = "grub"
  /\ phase' = "menu"
  /\ IF env.try # ""
     THEN /\ boot' = [NoBoot EXCEPT !.slot = env.try, !.kernel = env.kernel]
          /\ env' = TryTaken(env)
     ELSE LET k == IF kpend THEN Toggle(env.kernel) ELSE env.kernel
          IN /\ boot' = [NoBoot EXCEPT !.slot = env.boot, !.kernel = k]
             /\ env' = BootPending(env, k)
  /\ kpend' = FALSE
  /\ UNCHANGED <<hw, slots, loader, tried, failed, marked, kiosk, events>>

Loads(k, s) == slots[s].st = "whole" /\ k \in hw.loads[slots[s].rel]

(* sc_start: the kernel of a slot starts, on the adapters it finds.        *)
Start(k, s, once, safe) ==
  /\ Loads(k, s)
  /\ phase' = "init"
  /\ \E g \in Adapters :
       boot' = [slot |-> s, kernel |-> k, rel |-> slots[s].rel, safe |-> safe,
                once |-> once, gpus |-> g]

(* NeverStuck: fallback="1", without the previous version.                 *)
PreviousLoadsMutant == FALSE

PreviousLoads == Loads(boot.kernel, Other(boot.slot))

(* The timeout: the first entry, and the fallbacks for a kernel that does  *)
(* not load.  With none left GRUB stays in its menu.                       *)
BootDefault ==
  /\ phase = "menu"
  /\ \/ Start(boot.kernel, boot.slot, FALSE, env.gfxsafe)
     \/ /\ ~Loads(boot.kernel, boot.slot)
        /\ Start("lts", boot.slot, FALSE, env.gfxsafe)
     \/ /\ ~Loads(boot.kernel, boot.slot) /\ ~Loads("lts", boot.slot)
        /\ PreviousLoads
        /\ Start(boot.kernel, Other(boot.slot), FALSE, env.gfxsafe)
     \/ /\ ~Loads(boot.kernel, boot.slot) /\ ~Loads("lts", boot.slot)
        /\ ~PreviousLoads
        /\ phase' = "stuck" /\ boot' = NoBoot
  /\ UNCHANGED <<hw, disk, kpend, marked, kiosk, events>>

(* Someone picks another entry.  One that does not load comes back to the  *)
(* menu.                                                                   *)
BootMenu(e) ==
  /\ phase = "menu" /\ e \in Menu
  /\ \/ e = "lts" /\ Start("lts", boot.slot, FALSE, env.gfxsafe) /\ env' = env
     \/ e = "safe" /\ Start(boot.kernel, boot.slot, TRUE, env.gfxsafe) /\ env' = env
     \/ e = "previous" /\ Start(boot.kernel, Other(boot.slot), FALSE, env.gfxsafe) /\ env' = env
     \/ /\ e = "retry" /\ env' = [env EXCEPT !.gfxsafe = {}]
        /\ \/ Start(boot.kernel, boot.slot, FALSE, {})
           \/ ~Loads(boot.kernel, boot.slot) /\ UNCHANGED <<phase, boot>>
  /\ UNCHANGED <<hw, slots, loader, tried, failed, kpend, marked, kiosk, events>>
-----------------------------------------------------------------------------
(* /init: the GPU's driver.                                                *)

SafeGraphics == boot.once \/ boot.gpus \in boot.safe

(* The firmware framebuffer is kept, or the driver is tried: marked first, *)
(* unless there is no adapter to name or nowhere to write it.              *)
InitGraphics ==
  /\ phase = "init"
  /\ \/ /\ SafeGraphics /\ hw.fb
        /\ phase' = "start"
        /\ UNCHANGED <<env, marked>>
     \/ /\ SafeGraphics /\ ~hw.fb
        /\ phase' = "driver"
        /\ UNCHANGED <<env, marked>>
     \/ /\ ~SafeGraphics
        /\ phase' = "driver"
        /\ IF boot.gpus = "" THEN UNCHANGED <<env, marked>>
           ELSE \E ok \in BOOLEAN : /\ EnvWrite([env EXCEPT !.gfxtry = boot.gpus], ok)
                                    /\ marked' = ok
  /\ UNCHANGED <<hw, slots, loader, tried, failed, kpend, boot, kiosk, events>>

DriverGives == IF boot.gpus = "" THEN hw.fb ELSE boot.gpus \in hw.driver

(* SafeAfterTwo: the failure counted before is kept.                       *)
GraphicsOKMutant(e) == [e EXCEPT !.gfxtry = ""]

GraphicsOK(e) == [e EXCEPT !.gfxtry = "", !.gfxfail = ""]

(* There is a screen: the mark and the failure counted before it go.       *)
DriverUp ==
  /\ phase = "driver" /\ DriverGives
  /\ phase' = "start"
  /\ IF marked
     THEN \E ok \in BOOLEAN : EnvWrite(GraphicsOK(env), ok)
     ELSE env' = env
  /\ marked' = FALSE
  /\ UNCHANGED <<hw, slots, loader, tried, failed, kpend, boot, kiosk, events>>

(* The driver left no screen: a restart if it was marked; else the kiosk   *)
(* is started with nothing to draw on and exits, over and over.            *)
DriverDark ==
  /\ phase = "driver" /\ ~DriverGives
  /\ \/ marked /\ GoDown /\ UNCHANGED events
     \/ /\ ~marked /\ phase' = "dark"
        /\ UNCHANGED <<hw, disk, kpend, boot, marked, kiosk, events>>

(* The machine hangs or crashes: in a driver that gives no screen, or      *)
(* because this kernel of this release does not work here, at any time     *)
(* before the boot counts as good.  One that is dark, or stopped at GRUB's *)
(* menu, is switched off by someone.                                       *)
Works == <<boot.rel, boot.kernel>> \in hw.works

Die ==
  /\ \/ phase = "driver" /\ ~DriverGives
     \/ phase \in {"init", "driver", "start", "kiosk"} /\ ~Works
     \/ phase \in {"dark", "stuck"}
  /\ GoDown
  /\ UNCHANGED events

(* The plug.                                                               *)
Cut ==
  /\ "cut" \in Faults /\ phase # "off" /\ events < MaxEvents
  /\ GoDown
  /\ events' = events + 1
-----------------------------------------------------------------------------
(* The kiosk starts, and starts again should it crash.                     *)

(* update.Settle: a boot from the other slot than the one tried means the  *)
(* release did not come up.                                                *)
Settle == IF tried.rel = 0 \/ tried.slot = boot.slot
          THEN UNCHANGED <<tried, failed>>
          ELSE tried' = NoTry /\ failed' = tried.rel

KioskStart ==
  /\ phase = "start"
  /\ phase' = "kiosk"
  /\ Settle
  /\ UNCHANGED <<hw, env, slots, loader, kpend, boot, marked, kiosk, events>>

KioskCrash ==
  /\ "crash" \in Faults /\ phase = "kiosk" /\ events < MaxEvents
  /\ phase' = "start"
  /\ KioskGone
  /\ events' = events + 1
  /\ UNCHANGED <<hw, disk, kpend, boot, marked>>
-----------------------------------------------------------------------------
(* main's goroutine: MarkGood 20 s after the start, Kept once it is done.  *)

(* This boot is on the firmware framebuffer for want of its driver.        *)
LeftSafe == boot.gpus # "" /\ ~boot.once /\ boot.gpus \in boot.safe

(* The adapters get one try of their driver: counted as failed once.       *)
RetryGPUs(e) == [e EXCEPT !.gfxsafe = @ \ {boot.gpus}, !.gfxfail = boot.gpus, !.safeboots = 0]

(* TypeOK: > for >=.                                                       *)
RetryDueMutant(e) == e.safeboots + 1 > SafeRetryEvery

(* ProvenSticks: the slot is kept, the kernel is not.                      *)
KeepMutant(e) == [e EXCEPT !.kpending = FALSE, !.gfxtry = "", !.boot = boot.slot]

RetryDue(e) == e.safeboots + 1 >= SafeRetryEvery
Keep(e) == [e EXCEPT !.kpending = FALSE, !.gfxtry = "",
                     !.kernel = boot.kernel, !.boot = boot.slot]

MarkGood(e, newLoader) ==
  CASE newLoader -> [Keep(e) EXCEPT !.gfxsafe = {}, !.gfxfail = "", !.safeboots = 0]
    [] ~newLoader /\ LeftSafe /\ RetryDue(e) -> RetryGPUs(Keep(e))
    [] ~newLoader /\ LeftSafe /\ ~RetryDue(e) -> [Keep(e) EXCEPT !.safeboots = @ + 1]
    [] OTHER -> Keep(e)

MarkGoodRead ==
  /\ phase = "kiosk" /\ mg = "wait" /\ Works
  /\ mg' = "write"
  /\ mgNew' = (loader # Script[boot.rel])
  /\ snap' = [snap EXCEPT !["mg"] = env]
  /\ UNCHANGED <<hw, disk, phase, kpend, boot, marked, screen, power, upd, updRel, mgTry,
                 pending, events>>

(* An attempt that failed is made again 30 s later, MarkTries in all.      *)
MarkGoodAgain == /\ mg' = IF mgTry + 1 = MarkTries THEN "gaveup" ELSE "wait"
                 /\ mgTry' = mgTry + 1

MarkGoodWrite ==
  /\ phase = "kiosk" /\ mg = "write"
  /\ \E ok \in BOOLEAN :
       /\ EnvWrite(Modified(snap["mg"], MarkGood(snap["mg"], mgNew)), ok)
       /\ IF ok THEN mg' = (IF mgNew THEN "loader" ELSE "kept") /\ mgTry' = mgTry
                ELSE MarkGoodAgain
  /\ UNCHANGED <<hw, slots, loader, tried, failed, phase, kpend, boot, marked, screen, power,
                 upd, updRel, mgNew, pending, snap, events>>

(* replaceFile: this release's GRUB script onto the ESP, by a rename.      *)
MarkGoodLoader ==
  /\ phase = "kiosk" /\ mg = "loader"
  /\ \/ loader' = Script[boot.rel] /\ mg' = "kept" /\ mgTry' = mgTry
     \/ "io" \in Faults /\ loader' = loader /\ MarkGoodAgain
  /\ UNCHANGED <<hw, env, slots, tried, failed, phase, kpend, boot, marked, screen, power,
                 upd, updRel, mgNew, pending, snap, events>>

(* update.Kept, and the restart for the driver where the new rules give it *)
(* back.                                                                   *)
Kept ==
  /\ phase = "kiosk" /\ mg = "kept"
  /\ mg' = "done"
  /\ IF tried.rel # 0 /\ tried.slot = boot.slot
     THEN tried' = NoTry /\ failed' = 0
     ELSE UNCHANGED <<tried, failed>>
  /\ pending' = (mgNew /\ LeftSafe)
  /\ UNCHANGED <<hw, env, slots, loader, phase, kpend, boot, marked, screen, power, upd,
                 updRel, mgNew, mgTry, snap, events>>
-----------------------------------------------------------------------------
(* The update dialog and update.Install, in a goroutine of its own.        *)

UpdateDialog(from, to) ==
  /\ phase = "kiosk" /\ screen = from /\ upd = "idle" /\ power = ""
  /\ screen' = to
  /\ UNCHANGED <<hw, disk, phase, kpend, boot, marked, power, upd, updRel, mg, mgNew, mgTry,
                 pending, snap, events>>

OpenUpdate == UpdateDialog("list", "update")
CloseUpdate == UpdateDialog("update", "list")

(* Every step of Install leaves these alone.                               *)
NotInstall == <<hw, loader, failed, phase, kpend, boot, marked, screen, power, mg, mgNew,
                mgTry, pending>>

(* A release newer than the one running is on offer.                       *)
StartUpdate(r) ==
  /\ phase = "kiosk" /\ screen = "update" /\ upd = "idle"
  /\ r > boot.rel /\ events < MaxEvents
  /\ upd' = "check" /\ updRel' = r /\ events' = events + 1
  /\ UNCHANGED <<env, slots, tried, snap, NotInstall>>

(* ProvenSlotWhole: an update may start at any time.                       *)
ProvenMutant == TRUE

Proven == env.boot = boot.slot

(* Not before this boot has proven itself: ErrUnproven.                    *)
InstallCheck ==
  /\ phase = "kiosk" /\ upd = "check"
  /\ upd' = IF Proven THEN "get" ELSE "idle"
  /\ UNCHANGED <<env, slots, tried, updRel, snap, events, NotInstall>>

(* The server answers, or the slot keeps what it holds.                    *)
UnpackGet ==
  /\ phase = "kiosk" /\ upd = "get"
  /\ upd' \in {"clear", "idle"}
  /\ UNCHANGED <<env, slots, tried, updRel, snap, events, NotInstall>>

(* Refinement: the update goes into the slot that is running.              *)
TargetMutant == boot.slot

Target == Other(boot.slot)
SetTarget(st, r) == slots' = [slots EXCEPT ![Target] = [rel |-> r, st |-> st]]

(* clearSlot, a file at a time: before the download, or once it failed.    *)
ClearSlot ==
  /\ phase = "kiosk" /\ upd \in {"clear", "undo"}
  /\ \/ slots[Target].st = "whole" /\ SetTarget("part", slots[Target].rel) /\ upd' = upd
     \/ slots[Target].st = "part" /\ SetTarget("none", 0) /\ upd' = upd
     \/ slots[Target].st = "none" /\ slots' = slots
        /\ upd' = IF upd = "clear" THEN "download" ELSE "idle"
     \/ "io" \in Faults /\ slots' = slots /\ upd' = "idle"
  /\ UNCHANGED <<env, tried, updRel, snap, events, NotInstall>>

(* The files come in under partial names.  A download that breaks off, is  *)
(* cancelled, stalls for a minute, does not match its checksum or is not   *)
(* the release asked for is cleared away.                                  *)
Download ==
  /\ phase = "kiosk" /\ upd = "download"
  /\ upd' \in {"rename", "undo"}
  /\ UNCHANGED <<env, slots, tried, updRel, snap, events, NotInstall>>

(* The files take their own names, one by one; the slot is unmounted.      *)
RenameFiles ==
  /\ phase = "kiosk" /\ upd = "rename"
  /\ \/ slots[Target].st = "none" /\ SetTarget("part", updRel) /\ upd' = upd
     \/ slots[Target].st = "part" /\ SetTarget("whole", updRel) /\ upd' = "try"
     \/ "io" \in Faults /\ slots' = slots /\ upd' = "undo"
  /\ UNCHANGED <<env, tried, updRel, snap, events, NotInstall>>

(* bootenv.TryOther.                                                       *)
TryOtherRead ==
  /\ phase = "kiosk" /\ upd = "try"
  /\ upd' = "trywrite"
  /\ snap' = [snap EXCEPT !["upd"] = env]
  /\ UNCHANGED <<env, slots, tried, updRel, events, NotInstall>>

TryOther(e) == [e EXCEPT !.try = Other(boot.slot)]

TryOtherWrite ==
  /\ phase = "kiosk" /\ upd = "trywrite"
  /\ \E ok \in BOOLEAN : /\ EnvWrite(Modified(snap["upd"], TryOther(snap["upd"])), ok)
                          /\ upd' = IF ok THEN "remember" ELSE "idle"
  /\ UNCHANGED <<slots, tried, updRel, snap, events, NotInstall>>

(* update-try, and the restart that the dialog announces.                  *)
Remember ==
  /\ phase = "kiosk" /\ upd = "remember"
  /\ tried' = [rel |-> updRel, slot |-> Other(boot.slot)]
  /\ upd' = "restart"
  /\ UNCHANGED <<env, slots, updRel, snap, events, NotInstall>>
-----------------------------------------------------------------------------
(* The power dialog.                                                       *)

NotPower == <<hw, slots, loader, tried, failed, phase, kpend, boot, marked, upd, updRel, mg,
              mgNew, mgTry>>

OpenPower ==
  /\ phase = "kiosk" /\ screen = "list"
  /\ screen' = "power" /\ power' = ""
  /\ UNCHANGED <<env, pending, snap, events, NotPower>>

ClosePower ==
  /\ phase = "kiosk" /\ screen = "power" /\ power = ""
  /\ screen' = "list"
  /\ UNCHANGED <<env, power, pending, snap, events, NotPower>>

(* Restart or switch off; or, on a boot left safe, try the driver again.   *)
PowerChoose(choice) ==
  /\ phase = "kiosk" /\ screen = "power" /\ power = "" /\ events < MaxEvents
  /\ choice = "driver" => LeftSafe
  /\ power' = choice
  /\ events' = events + 1
  /\ UNCHANGED <<env, screen, pending, snap, NotPower>>

(* bootenv.RetryGraphics.                                                  *)
RetryGraphicsRead ==
  /\ phase = "kiosk" /\ power = "driver"
  /\ power' = "write"
  /\ snap' = [snap EXCEPT !["driver"] = env]
  /\ UNCHANGED <<env, screen, pending, events, NotPower>>

RetryGraphicsWrite ==
  /\ phase = "kiosk" /\ power = "write"
  /\ \E ok \in BOOLEAN : EnvWrite(Modified(snap["driver"], RetryGPUs(snap["driver"])), ok)
  /\ power' = "go"
  /\ UNCHANGED <<screen, pending, snap, events, NotPower>>

(* The kiosk restarts on its own once nobody is in a dialog.               *)
RestartWhenIdle ==
  /\ phase = "kiosk" /\ pending /\ screen = "list"
  /\ pending' = FALSE
  /\ screen' = "power" /\ power' = "go"
  /\ UNCHANGED <<env, snap, events, NotPower>>

(* restart and powerOff: sync, and the machine goes.                       *)
Restart ==
  /\ phase = "kiosk" /\ (power = "go" \/ upd = "restart")
  /\ GoDown
  /\ UNCHANGED events
-----------------------------------------------------------------------------
Grub == LoadEnv \/ PickSlot \/ BootDefault
Boots == InitGraphics \/ DriverUp \/ DriverDark \/ Die \/ KioskStart
Proves == MarkGoodRead \/ MarkGoodWrite \/ MarkGoodLoader \/ Kept
Installs == \/ InstallCheck \/ UnpackGet \/ ClearSlot \/ Download \/ RenameFiles
            \/ TryOtherRead \/ TryOtherWrite \/ Remember
People == \/ \E e \in Entries : BootMenu(e)
          \/ OpenUpdate \/ CloseUpdate \/ (\E r \in Releases : StartUpdate(r))
          \/ OpenPower \/ ClosePower \/ (\E c \in {"go", "driver"} : PowerChoose(c))
Powers == RetryGraphicsRead \/ RetryGraphicsWrite \/ RestartWhenIdle \/ Restart

Next == Grub \/ Boots \/ Proves \/ Installs \/ People \/ Powers \/ Cut \/ KioskCrash

Spec == Init /\ [][Next]_vars

(* The machine runs, and people at it may do as they like: someone who     *)
(* finds it dark or hung does switch it off and on (Die, LoadEnv).         *)
Fairness == WF_vars(Grub) /\ WF_vars(Boots) /\ WF_vars(Proves) /\ WF_vars(Installs)
            /\ WF_vars(Powers)

FairSpec == Spec /\ Fairness
-----------------------------------------------------------------------------
(* The variables have their types; safeboots stays below the count that    *)
(* has markGood give the driver its try.                                   *)
TypeOK ==
  /\ hw \in Machines
  /\ env \in EnvType
  /\ slots \in [Slots -> SlotType]
  /\ loader \in Scripts
  /\ tried \in TriedType
  /\ failed \in Releases \cup {0}
  /\ phase \in Phases /\ kpend \in BOOLEAN /\ boot \in BootType /\ marked \in BOOLEAN
  /\ screen \in {"list", "update", "power"} /\ power \in {"", "driver", "write", "go"}
  /\ upd \in UpdPhases /\ updRel \in Releases \cup {0}
  /\ mg \in MgPhases /\ mgNew \in BOOLEAN /\ mgTry \in Nat
  /\ pending \in BOOLEAN
  /\ snap \in [Routines -> EnvType]
  /\ events \in Nat

(* The slot GRUB comes back to always holds a whole release, whatever is   *)
(* being installed and wherever the power went: Install goes only into the *)
(* other slot, and only once sc_boot names the one running.                *)
ProvenSlotWhole == slots[env.boot].st = "whole"

(* GRUB finds a kernel it can load at every power-on, by its fallbacks if  *)
(* need be: it stops at its menu only where a release has one kernel that  *)
(* loads and one that does not.                                            *)
NeverStuck == phase = "stuck" => \E r \in Releases : hw.loads[r] \notin {{}, Kernels}

(* The slots as the abstract specification has them.                       *)
Running == {"init", "driver", "start", "dark", "kiosk"}

AB == INSTANCE ABSlots
        WITH holds <- [s \in Slots |-> IF slots[s].st = "whole" THEN slots[s].rel ELSE 0],
             good <- env.boot,
             running <- IF phase \in Running THEN boot.slot ELSE ""

(* Every step writes only a slot that is neither the one to come back to   *)
(* nor the one running, adopts only a slot that holds a whole release, and *)
(* starts only from one.                                                   *)
Refinement == AB!ABSpec

(* A machine with a firmware framebuffer on which some kernel of the       *)
(* release it was installed with works is up again and again, whatever its *)
(* GPU's driver does and whichever updates that do not work are tried on   *)
(* it: by GRUB's two kernels, two slots and marks, and nobody at the menu. *)
Recoverable == /\ hw.fb
               /\ \E k \in Kernels : k \in hw.loads[1] /\ <<1, k>> \in hw.works
ComesUp == Recoverable => []<>(phase = "kiosk" /\ Works)
=============================================================================
