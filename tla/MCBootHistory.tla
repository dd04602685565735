---------------------------- MODULE MCBootHistory ----------------------------
(***************************************************************************)
(* BootHistory for TLC: two releases with a GRUB script each, on machines  *)
(* whose kernels, driver or update do not work.                            *)
(***************************************************************************)
EXTENDS BootHistory

MCScript == [r \in {1, 2} |-> IF r = 1 THEN "s1" ELSE "s2"]

Machine(loads2, works, driver, fb) ==
  [loads |-> [r \in {1, 2} |-> IF r = 1 THEN Kernels ELSE loads2],
   works |-> works, driver |-> driver, fb |-> fb]

(* Everything works; the update never loads and only LTS works; the        *)
(* update's kernels die and so do the drivers; only LTS works and there is *)
(* no firmware framebuffer to fall back to.                                *)
Common == {Machine(Kernels, {1, 2} \X Kernels, {"g"}, TRUE),
           Machine({}, {<<1, "lts">>}, {"g"}, TRUE),
           Machine({"lts"}, {<<1, "new">>, <<1, "lts">>}, {}, TRUE),
           Machine({}, {<<1, "lts">>}, {"g"}, FALSE)}
=============================================================================
