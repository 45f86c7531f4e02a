-------------------------------- MODULE Bank --------------------------------
(***************************************************************************)
(* What a block of transfers promises, whatever executes it: accounts hold *)
(* plain natural numbers, without records, limits or permissions, and each *)
(* transaction settles at once and entirely.  It is refused when its fee   *)
(* is not covered; otherwise the fee is burned and its payments are made,  *)
(* all of them or, if one cannot be, none.  Transactions that share an     *)
(* account settle in the order of the block.                               *)
(***************************************************************************)
EXTENDS Integers, Sequences

CONSTANTS Address, N, MaxMemoSize

Tx == 1 .. N

VARIABLES block,    \* the transaction at each position
          opening,  \* the balances before the block
          balance,  \* the balances now
          burned,   \* the fees charged so far
          outcome   \* what became of each transaction

vars == <<block, opening, balance, burned, outcome>>
-----------------------------------------------------------------------------
Pay(bal, from, p) == LET debited == [bal EXCEPT ![from] = @ - p.value]
                     IN  [debited EXCEPT ![p.to] = @ + p.value]

CanPay(bal, from, p) == /\ p.value > 0
                        /\ p.memo <= MaxMemoSize
                        /\ bal[from] >= p.value

Charge(bal, tx) == [bal EXCEPT ![tx.actor] = @ - tx.fee]

(* The balances after the first k payments of a transaction, were they all *)
(* to be made.                                                             *)
AfterPayments(bal, tx) ==
  LET after[k \in 0 .. Len(tx.actions)] ==
        IF k = 0 THEN Charge(bal, tx)
                 ELSE Pay(after[k - 1], tx.actor, tx.actions[k])
  IN  after

Verdict(bal, tx) ==
  LET after == AfterPayments(bal, tx)
  IN  IF bal[tx.actor] < tx.fee THEN "refused"
      ELSE IF \A k \in DOMAIN tx.actions : CanPay(after[k - 1], tx.actor, tx.actions[k])
      THEN "done"
      ELSE "failed"

Settled(bal, tx) ==
  CASE Verdict(bal, tx) = "refused" -> bal
    [] Verdict(bal, tx) = "failed"  -> Charge(bal, tx)
    [] Verdict(bal, tx) = "done"    -> AfterPayments(bal, tx)[Len(tx.actions)]

(* The balances after the first k transactions settled in order. *)
InOrder(txs, bal) ==
  LET after[k \in 0 .. N] ==
        IF k = 0 THEN bal ELSE Settled(after[k - 1], txs[k])
  IN  after
-----------------------------------------------------------------------------
Parties(tx) == {tx.actor} \cup {tx.actions[i].to : i \in DOMAIN tx.actions}

Init == /\ balance = opening
        /\ burned = 0
        /\ outcome = [t \in Tx |-> "pending"]

Settle(t) ==
  /\ outcome[t] = "pending"
  /\ \A s \in Tx : s < t /\ outcome[s] = "pending"
                     => Parties(block[s]) \cap Parties(block[t]) = {}
  /\ balance' = Settled(balance, block[t])
  /\ outcome' = [outcome EXCEPT ![t] = Verdict(balance, block[t])]
  /\ burned' = burned + (IF Verdict(balance, block[t]) = "refused"
                         THEN 0 ELSE block[t].fee)
  /\ UNCHANGED <<block, opening>>

Next == \E t \in Tx : Settle(t)

Spec == Init /\ [][Next]_vars
=============================================================================
