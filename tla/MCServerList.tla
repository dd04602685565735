---------------------------- MODULE MCServerList -----------------------------
(* ServerList for TLC: a subnet of two addresses, the link-local fallback  *)
(* with none that answers, and none.                                       *)
EXTENDS ServerList

MCExpand == [c \in {"", "ll", "lan"} |-> IF c = "lan" THEN <<1, 2>> ELSE <<>>]
MCTyped == {<<1, 3389>>}
=============================================================================
