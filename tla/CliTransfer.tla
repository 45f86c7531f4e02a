---------------------------- MODULE CliTransfer ----------------------------
(***************************************************************************)
(* morpheus-cli's command "transfer" (cmd/action.go) with GetBalance       *)
(* (cmd/handler.go) and sendAndWait (cmd/resolutions.go): it reads the     *)
(* balance of the default key, offers it as the limit of the amount, asks  *)
(* the user to confirm, sends the transaction over a connection of its own *)
(* and waits for its result without a deadline.  Meanwhile other clients   *)
(* hold the same key, and the transactions of earlier commands that were   *)
(* killed may still be under way.  The chain is that of modules Storage    *)
(* and Transfer.                                                           *)
(***************************************************************************)
EXTENDS Transfer, Sequences

CONSTANTS
  Signer,     \* the accounts whose key may be the default one
  Databases,  \* the balances the chain may have at the start
  Fee,        \* what the chain charges for a transfer
  MaxTxs      \* bound on the number of transactions explored

ASSUME CliTransferAssumption ==
  /\ Signer \subseteq Address
  /\ Databases \subseteq {d \in Database : Supply(d) <= MaxUint64}
  /\ Fee \in Balance
  /\ MaxTxs \in Nat

VARIABLES
  db,        \* the chain's balances
  txs,       \* the transactions the commands sent, in order
  pc,        \* the next step of the running command, or "idle"
  actor,     \* the account of the default key when the command began
  balance,   \* what the command has read
  outcome,   \* how the last command ended
  lowered    \* another transaction has lowered the balance since then

vars == <<db, txs, pc, actor, balance, outcome, lowered>>

command == <<pc, actor, balance, outcome>>
-----------------------------------------------------------------------------
Init == /\ db \in Databases
        /\ txs = << >>
        /\ pc = "idle"
        /\ actor \in Signer
        /\ balance = 0
        /\ outcome = "none"
        /\ lowered = FALSE

Goto(label) == pc' = label /\ UNCHANGED <<actor, balance, outcome>>

Return(how) == pc' = "idle" /\ balance' = 0 /\ outcome' = how /\ UNCHANGED actor

DefaultActor ==
  /\ pc = "idle"
  /\ Len(txs) < MaxTxs
  /\ pc' = "balance" /\ actor' \in Signer
  /\ balance' = 0 /\ outcome' = "none" /\ lowered' = FALSE
  /\ UNCHANGED <<db, txs>>

(* What the client's Balance tells of the node's accepted state.           *)
BalanceReply == GetBalance(db, actor)

(* Without coins the command ends, and not with an error. *)
GetBalanceInfo ==
  /\ pc = "balance"
  /\ IF BalanceReply = 0
     THEN Return("nil")
     ELSE /\ pc' = "prompt"
          /\ balance' = BalanceReply
          /\ UNCHANGED <<actor, outcome>>
  /\ UNCHANGED <<db, txs, lowered>>

(* Mutant: the limit of the amount is forgotten. *)
SendTx_Unlimited ==
  /\ pc = "prompt"
  /\ \E to \in Address, value \in Balance :
       txs' = Append(txs, [from |-> actor, to |-> to, value |-> value,
                           fate |-> "pool"])
  /\ Goto("listen")
  /\ UNCHANGED <<db, lowered>>

(* The user gives recipient and amount and confirms; the transaction is    *)
(* generated and registered.  The limit leaves no room for the fee, and    *)
(* nothing refuses an amount of zero.                                      *)
SendTx ==
  /\ pc = "prompt"
  /\ \E to \in Address, value \in 0 .. balance :
       txs' = Append(txs, [from |-> actor, to |-> to, value |-> value,
                           fate |-> "pool"])
  /\ Goto("listen")
  /\ UNCHANGED <<db, lowered>>

Mine == Len(txs)

(* Mutant: a removed transaction is skipped like that of another client.   *)
ListenTx_SkipsErrors ==
  /\ pc = "listen"
  /\ txs[Mine].fate \in {"paid", "reverted"}
  /\ Return(IF txs[Mine].fate = "paid" THEN "success" ELSE "failure")
  /\ UNCHANGED <<db, txs, lowered>>

(* The connection is the command's own and tells of its transaction only.  *)
ListenTx ==
  /\ pc = "listen"
  /\ txs[Mine].fate # "pool"
  /\ Return(CASE txs[Mine].fate = "paid"     -> "success"
              [] txs[Mine].fate = "reverted" -> "failure"
              [] txs[Mine].fate = "dropped"  -> "error")
  /\ UNCHANGED <<db, txs, lowered>>

(* The user does not confirm, which is not an error. *)
Decline ==
  /\ pc = "prompt"
  /\ Return("nil")
  /\ UNCHANGED <<db, txs, lowered>>

(* A call or a prompt fails, the connection breaks or the process is       *)
(* killed.                                                                 *)
Stop ==
  /\ pc # "idle"
  /\ Return("error")
  /\ UNCHANGED <<db, txs, lowered>>
-----------------------------------------------------------------------------
Settle(i, fate) == txs' = [txs EXCEPT ![i].fate = fate]

(* Does a change of the chain lower what a command has read?  (Of another  *)
(* transaction than its own.)                                              *)
Noting(after) == lowered' = (lowered \/ GetBalance(after, actor) < GetBalance(db, actor))

Accept(i) ==
  LET charged == Deduct(db, FullScope, txs[i].from, Fee)
      done    == Execute(charged.db, FullScope, txs[i].from,
                         [to |-> txs[i].to, value |-> txs[i].value, memo |-> 0])
  IN  /\ txs[i].fate = "pool"
      /\ charged.err = "nil"
      /\ db' = IF done.err = "nil" THEN done.db ELSE charged.db
      /\ Settle(i, IF done.err = "nil" THEN "paid" ELSE "reverted")
      /\ IF i = Mine /\ pc = "listen" THEN UNCHANGED lowered ELSE Noting(db')

(* Its validity ends, or its fee cannot be paid. *)
Drop(i) ==
  /\ txs[i].fate = "pool"
  /\ Settle(i, "dropped")
  /\ UNCHANGED <<db, lowered>>

Node(i) == (Accept(i) \/ Drop(i)) /\ UNCHANGED command

(* Another client moves a coin. *)
OtherTransfer(from, to) ==
  LET done == Execute(db, FullScope, from, [to |-> to, value |-> 1, memo |-> 0])
  IN  /\ from # to
      /\ done.err = "nil"
      /\ db' = done.db
      /\ Noting(db')
      /\ UNCHANGED <<txs, command>>

Next == \/ DefaultActor \/ GetBalanceInfo \/ SendTx \/ Decline \/ ListenTx \/ Stop
        \/ \E i \in DOMAIN txs : Node(i)
        \/ \E from, to \in Address : OtherTransfer(from, to)

(* The node settles every transaction, at the latest by its expiry, and    *)
(* the command goes on when it is told.                                    *)
Fairness == /\ \A i \in 1 .. MaxTxs : WF_vars(i \in DOMAIN txs /\ Node(i))
            /\ WF_vars(ListenTx)

Spec == Init /\ [][Next]_vars /\ Fairness
-----------------------------------------------------------------------------
(* The chain and the command are well formed. *)
TypeOK ==
  /\ db \in Database
  /\ actor \in Signer
  /\ balance \in Balance
  /\ pc \in {"idle", "balance", "prompt", "listen"}
  /\ pc = "listen" => txs # << >> /\ txs[Mine].from = actor
  /\ outcome \in {"none", "nil", "error", "success", "failure"}
  /\ lowered \in BOOLEAN
  /\ \A i \in DOMAIN txs :
       txs[i] \in [from : Signer, to : Address, value : Balance,
                   fate : {"pool", "paid", "reverted", "dropped"}]

(* The range the command offers is wrong in three ways only: a transfer    *)
(* is reverted when another transaction has lowered the balance since the  *)
(* command read it, when the amount takes part of the fee, or when it is   *)
(* the zero that the prompt accepts and the chain does not.                *)
RevertsExplained ==
  pc = "listen" /\ txs[Mine].fate = "reverted"
    => \/ lowered
       \/ txs[Mine].value = 0
       \/ txs[Mine].value \in balance - Fee + 1 .. balance

(* The command does not wait for good: the transaction it waits for is     *)
(* executed or removed, and either ends it.                                *)
TransferEnds == pc = "listen" ~> pc # "listen"
=============================================================================
