------------------------------ MODULE MCBlock ------------------------------
(***************************************************************************)
(* Instances of BlockExecutor for TLC: three accounts, at most three coins *)
(* and a handful of transactions that between them use every path of       *)
(* Execute: plain, to oneself, chained, spending it all, too much, of zero *)
(* value, with too long a memo, failing in the second action, with a fee   *)
(* that cannot be paid and without a fee.                                  *)
(***************************************************************************)
EXTENDS BlockExecutor

CONSTANTS alice, bob, carol

MCAddress == {alice, bob, carol}

Send(to, value)  == [to |-> to, value |-> value, memo |-> 0]
Long(to, value)  == [to |-> to, value |-> value, memo |-> MaxMemoSize + 1]
From(a, fee, acts) == [actor |-> a, fee |-> fee, actions |-> acts]

Kinds ==
  { From(alice, 1, <<Send(bob, 1)>>),
    From(alice, 1, <<Send(alice, 2)>>),
    From(alice, 0, <<Send(carol, 3)>>),
    From(alice, 1, <<Send(bob, 0)>>),
    From(alice, 1, <<Send(bob, 1), Send(carol, 1)>>),
    From(bob,   0, <<Send(carol, 1), Long(alice, 1)>>),
    From(bob,   1, <<Send(alice, 1), Send(bob, 1)>>),
    From(bob,   2, <<Send(alice, 1)>>),
    From(carol, 0, <<Send(carol, 1)>>),
    From(carol, 1, <<Send(carol, 2), Send(alice, 2)>>) }

(* Transactions that chain, or run side by side, when they are three.      *)
Links ==
  { From(alice, 0, <<Send(bob, 1)>>),
    From(bob,   1, <<Send(carol, 1)>>),
    From(carol, 0, <<Send(carol, 1), Send(alice, 1)>>),
    From(carol, 0, <<Send(bob, 1), Send(alice, 2)>>),
    From(bob,   0, <<Send(bob, 2)>>) }

(* A fee that takes all the coins there are. *)
Last == From(bob, MaxUint64, <<Send(bob, 1)>>)

(* Every kind of transaction against every other, and every triple.        *)
MCPairs  == [1 .. 2 -> Kinds]
MCBlocks == [1 .. 3 -> Links] \cup {<<s, t, Last>> : s, t \in Kinds}
=============================================================================
