----------------------------- MODULE BootHistory -----------------------------
(***************************************************************************)
(* BootUpdate with a record of the boot before, for the promises that      *)
(* relate one boot to the next.  The history variables only watch.         *)
(***************************************************************************)
EXTENDS BootUpdate

VARIABLES cur,      \* this boot: was it a try, as GRUB chose, proven?
          last,     \* the boot before, slot "" when the power-on did not get to a kernel
          deaths    \* deaths[g]: boots in a row g's driver did not survive

hvars == <<cur, last, deaths>>

Fresh == [try |-> FALSE, auto |-> FALSE, proven |-> FALSE, driver |-> FALSE]

(* A boot that ended: its slot and kernel, whether the graphics mark was   *)
(* left behind, and what had come of it.                                   *)
Ended(s, k, gfx, c) == [slot |-> s, kernel |-> k, gfx |-> gfx, try |-> c.try,
                        auto |-> c.auto, proven |-> c.proven, driver |-> c.driver]
NoLast == Ended("", "", FALSE, Fresh)

HInit == /\ Init
         /\ cur = Fresh /\ last = NoLast
         /\ deaths = [g \in GPUs |-> 0]

(* MarkGood's write reached the disk, whatever it reported.                *)
Recorded == /\ mg = "write" /\ mg' # "write" /\ phase' = "kiosk"
            /\ env' = Modified(snap["mg"], MarkGood(snap["mg"], mgNew))

(* GRUB picked, a kernel started, MarkGood recorded the boot, F4's "try    *)
(* driver" was chosen.                                                     *)
Watch ==
  cur' = CASE phase' = "off" -> Fresh
           [] phase = "grub" /\ phase' = "menu" -> [Fresh EXCEPT !.try = env.try # ""]
           [] phase = "menu" /\ phase' = "init" ->
                [cur EXCEPT !.auto = boot'.slot = boot.slot /\ boot'.kernel = boot.kernel
                                     /\ ~boot'.once]
           [] OTHER -> [cur EXCEPT !.proven = cur.proven \/ Recorded,
                                   !.driver = cur.driver \/ power' = "driver"]

Remembers ==
  last' = CASE phase' = "off" /\ phase \in Running ->
                 Ended(boot.slot, boot.kernel, env.gfxtry # "", cur)
            [] phase' = "off" /\ phase \notin Running \cup {"off"} -> NoLast
            [] OTHER -> last

(* A marked driver that came up is cleared; F4, the tenth boot and a new   *)
(* script give the adapters a try of their own, counted as the second.     *)
Counts ==
  deaths' = [g \in GPUs |->
    CASE phase = "driver" /\ marked /\ phase' = "off" /\ boot.gpus = g ->
           IF deaths[g] = 2 THEN 2 ELSE deaths[g] + 1
      [] phase = "driver" /\ marked /\ phase' = "start" /\ boot.gpus = g -> 0
      [] env'.gfxfail = g /\ env.gfxfail # g /\ phase = "kiosk" -> 1
      [] OTHER -> deaths[g]]

History == Watch /\ Remembers /\ Counts

HNext == Next /\ History
HSpec == HInit /\ [][HNext]_<<vars, hvars>>
-----------------------------------------------------------------------------
Picks == phase = "grub" /\ phase' = "menu"

(* A boot of an update that dies before MarkGood is followed by one of the *)
(* slot it was installed from: sc_try is gone before the kernel starts.    *)
TryFallsBack ==
  [][Picks /\ last.try /\ last.auto /\ ~last.proven => boot'.slot = Other(last.slot)]_vars

(* A boot that died before MarkGood, and not in the GPU's driver, is       *)
(* followed by one of the same slot on its other kernel.                   *)
KernelAlternates ==
  [][Picks /\ last.auto /\ ~last.try /\ ~last.proven /\ ~last.gfx /\ env.try = ""
     => boot'.slot = last.slot /\ boot'.kernel # last.kernel]_vars

(* One that died in the GPU's driver is followed by one of the same slot   *)
(* and the same kernel: what is to blame is the driver.  A boot that tried *)
(* an update is followed by the slot it came from all the same.            *)
DriverTakesTheBlame ==
  [][Picks /\ last.auto /\ ~last.try /\ last.gfx
     => boot'.slot = last.slot /\ boot'.kernel = last.kernel]_vars

(* A boot that MarkGood recorded is repeated, slot and kernel, as long as  *)
(* no update is tried.  F4's "try driver" may write over what MarkGood     *)
(* wrote while it had grubenv in its hands: such a boot is left out.       *)
ProvenSticks ==
  [][Picks /\ last.proven /\ ~last.driver /\ env.try = ""
     => boot'.slot = last.slot /\ boot'.kernel = last.kernel]_vars

(* GRUB leaves adapters on the firmware framebuffer only after two boots   *)
(* in a row that died in their driver, or one once it was given a last     *)
(* try.                                                                    *)
SafeAfterTwo ==
  [][phase = "off" => \A g \in env'.gfxsafe \ env.gfxsafe : deaths[g] = 2]_vars
=============================================================================
