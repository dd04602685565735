------------------------------- MODULE ABSlots -------------------------------
(***************************************************************************)
(* What an A/B disk install promises, with nothing of how it is done: two  *)
(* system slots, one of them the slot to come back to.  A slot that is     *)
(* being written, or that a failed update left behind, holds no release.   *)
(* docs/ARCHITECTURE.md, "Disk install and updates".                       *)
(***************************************************************************)
EXTENDS Naturals

CONSTANTS Slots,      \* the system slots of a disk install
          Releases    \* the releases there are; 0 is none of them

VARIABLES holds,   \* holds[s] is the release whole in slot s, 0 when there is none
          good,    \* the slot the boot loader comes back to
          running  \* the slot the machine runs from, "" while it is off

absVars == <<holds, good, running>>

ABInit == /\ holds \in [Slots -> Releases \cup {0}]
          /\ good \in Slots
          /\ holds[good] # 0
          /\ running = ""

(* A slot is written over, by a release or by nothing: never the slot to   *)
(* come back to, nor the one the machine runs from.                        *)
Rewrite(s) == /\ s \notin {good, running}
              /\ \E r \in Releases \cup {0} : holds' = [holds EXCEPT ![s] = r]
              /\ UNCHANGED <<good, running>>

(* A slot becomes the one to come back to: only with a release in it.      *)
Adopt(s) == /\ holds[s] # 0
            /\ good' = s
            /\ UNCHANGED <<holds, running>>

(* The machine starts from a slot: only from a whole release.              *)
Start(s) == /\ running = ""
            /\ holds[s] # 0
            /\ running' = s
            /\ UNCHANGED <<holds, good>>

(* It goes down: a restart, a crash or the plug.                           *)
Down == /\ running # ""
        /\ running' = ""
        /\ UNCHANGED <<holds, good>>

ABNext == \/ \E s \in Slots : Rewrite(s) \/ Adopt(s) \/ Start(s)
          \/ Down

ABSpec == ABInit /\ [][ABNext]_absVars
=============================================================================
