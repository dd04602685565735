---------------------------- MODULE MCBootUpdate -----------------------------
(***************************************************************************)
(* BootUpdate for TLC: two releases, each with a GRUB script of its own,   *)
(* one set of adapters, and a handful of machines that between them meet   *)
(* every branch of the boot.                                               *)
(***************************************************************************)
EXTENDS BootUpdate

MCScript == [r \in {1, 2} |-> IF r = 1 THEN "s1" ELSE "s2"]

Machine(loads1, loads2, works, driver, fb) ==
  [loads |-> [r \in {1, 2} |-> IF r = 1 THEN loads1 ELSE loads2],
   works |-> works, driver |-> driver, fb |-> fb]

AllWork == {1, 2} \X Kernels

(* Everything works; the update never loads and only LTS works; the        *)
(* update's kernels die and the driver gives no screen.                    *)
Common == {Machine(Kernels, Kernels, AllWork, {"g"}, TRUE),
           Machine(Kernels, {}, {<<1, "lts">>}, {"g"}, TRUE),
           Machine(Kernels, {"lts"}, {<<1, "new">>, <<1, "lts">>}, {}, TRUE)}

(* No firmware framebuffer; one kernel of each release that loads: GRUB    *)
(* may stop at its menu.                                                   *)
Odd == {Machine({"new"}, {"lts"}, AllWork, {}, FALSE)}

Every == Common \cup Odd
=============================================================================
