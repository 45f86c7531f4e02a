----------------------------- MODULE WalletView -----------------------------
(***************************************************************************)
(* The component Wallet of Wallet.tsx, with its Action: the balance of the *)
(* address, requested at the mount, by the refresh button and after every  *)
(* transaction; the ABI, requested at the mount; the input fields of an    *)
(* action and what is executed from them.  Requests overlap and their      *)
(* answers come in any order.                                              *)
(*                                                                         *)
(* React ignores what an unmounted component sets, so requests are dropped *)
(* with it.  The updates of one answer are rendered together.  A balance   *)
(* stands for how often it has changed since the mount, the fields of an   *)
(* action for one.                                                         *)
(***************************************************************************)
EXTENDS Integers, Sequences

CONSTANTS
  Address,
  MaxAsks,     \* bound on the balance requests of a mount
  MaxSends,    \* bound on the transactions of a mount
  MaxChanges   \* bound on the changes of a balance explored

VARIABLES
  chain,           \* how often the balance of each address changed
  asks,            \* the balance requests of this mount, in order
  balance,         \* the request whose answer is the state, 0 for null
  balanceLoading, balanceError,
  abiAsks,         \* ABI requests of this mount that are under way
  abi, abiLoading, abiError,
  inputs,          \* actionInputs of the action: no state, "default", "typed"
  fields,          \* what its input field shows: "none", "blank" or inputs
  edited,          \* the user has typed since the action was mounted
  sends,           \* the transactions executed in this mount, in order
  told             \* the newest change a transaction's success reported

balanceState == <<asks, balance, balanceLoading, balanceError>>
abiState     == <<abiAsks, abi, abiLoading, abiError>>
actionState  == <<inputs, fields, edited>>
view == <<chain, balanceState, abiState, actionState, sends, told>>

Max2(m, n) == IF m >= n THEN m ELSE n
-----------------------------------------------------------------------------
ActionsShown == abi /\ ~ abiLoading /\ ~ abiError

(* Mutant: the effect sets the default whether there is an input or not.   *)
Rendered_Resets ==
  IF ActionsShown' THEN /\ inputs' = "default"
                        /\ fields' = IF ActionsShown THEN inputs ELSE "blank"
                        /\ edited' = (ActionsShown /\ edited)
  ELSE inputs' = "none" /\ fields' = "none" /\ edited' = FALSE

(* The wallet is rendered.  An action that appears is rendered without     *)
(* inputs; its effect then puts the defaults into the state's own object,  *)
(* which is no new state for React: the field stays as it is.  For a new   *)
(* ABI the effect runs again and keeps the inputs there are.               *)
Rendered ==
  CASE ~ ActionsShown'               -> inputs' = "none" /\ fields' = "none" /\ edited' = FALSE
    [] ActionsShown' /\ ~ ActionsShown -> inputs' = "default" /\ fields' = "blank" /\ edited' = FALSE
    [] ActionsShown' /\ ActionsShown -> fields' = inputs /\ UNCHANGED <<inputs, edited>>

Version(i) == IF i = 0 THEN -1 ELSE asks[i].got

(* What the wallet shows of the balance: only a change renders it anew.    *)
BalanceShown == <<Version(balance), balanceLoading, balanceError>>

RenderedIfChanged ==
  IF BalanceShown' # BalanceShown THEN Rendered ELSE UNCHANGED actionState
-----------------------------------------------------------------------------
Ask(a) == [addr |-> a, pc |-> "sent", got |-> -1]

InitView == /\ chain = [a \in Address |-> 0]
            /\ asks = << >> /\ balance = 0
            /\ balanceLoading = FALSE /\ balanceError = FALSE
            /\ abiAsks = 0
            /\ abi = FALSE /\ abiLoading = FALSE /\ abiError = FALSE
            /\ inputs = "none" /\ fields = "none" /\ edited = FALSE
            /\ sends = << >> /\ told = 0

(* A new wallet for a; its effects run n times.                            *)
Mount(a, n) ==
  /\ asks' = [i \in 1 .. n |-> Ask(a)]
  /\ balance' = 0 /\ balanceLoading' = TRUE /\ balanceError' = FALSE
  /\ abiAsks' = n
  /\ abi' = FALSE /\ abiLoading' = TRUE /\ abiError' = FALSE
  /\ Rendered
  /\ sends' = << >> /\ told' = 0
  /\ UNCHANGED chain

Unmount ==
  /\ asks' = << >> /\ balance' = 0
  /\ balanceLoading' = FALSE /\ balanceError' = FALSE
  /\ abiAsks' = 0
  /\ abi' = FALSE /\ abiLoading' = FALSE /\ abiError' = FALSE
  /\ Rendered
  /\ sends' = << >> /\ told' = 0
  /\ chain' = [a \in Address |-> 0]

FetchBalance(a) ==
  /\ asks' = Append(asks, Ask(a))
  /\ balanceLoading' = TRUE
  /\ UNCHANGED <<balance, balanceError>>

(* Another address: fetchBalance is a new function, its effect runs.       *)
NewAddress(a) ==
  /\ FetchBalance(a)
  /\ UNCHANGED <<chain, abiState, sends, told>>
  /\ Rendered

(* The button beside a balance that is shown. *)
Refresh(a) ==
  /\ balance # 0 /\ ~ balanceLoading /\ ~ balanceError
  /\ Len(asks) < MaxAsks
  /\ FetchBalance(a)
  /\ UNCHANGED <<chain, abiState, sends, told>>
  /\ Rendered

(* The node reads the balance; the answer arrives later.                   *)
NodeReads(i) ==
  /\ asks[i].pc = "sent"
  /\ asks' = [asks EXCEPT ![i].pc = "read", ![i].got = chain[asks[i].addr]]
  /\ UNCHANGED <<chain, balance, balanceLoading, balanceError, abiState,
                 actionState, sends, told>>

BalanceAnswers(i) ==
  /\ asks[i].pc = "read"
  /\ asks' = [asks EXCEPT ![i].pc = "done"]
  /\ balance' = i
  /\ balanceError' = FALSE
  /\ balanceLoading' = FALSE
  /\ UNCHANGED <<chain, abiState, sends, told>>
  /\ RenderedIfChanged

(* Mutant: the count of loading ends with a success only. *)
BalanceFails_NoFinally(i) ==
  /\ asks[i].pc \in {"sent", "read"}
  /\ asks' = [asks EXCEPT ![i].pc = "done"]
  /\ balanceError' = TRUE
  /\ UNCHANGED <<chain, balance, balanceLoading, abiState, sends, told>>
  /\ RenderedIfChanged

BalanceFails(i) ==
  /\ asks[i].pc \in {"sent", "read"}
  /\ asks' = [asks EXCEPT ![i].pc = "done"]
  /\ balanceError' = TRUE
  /\ balanceLoading' = FALSE
  /\ UNCHANGED <<chain, balance, abiState, sends, told>>
  /\ RenderedIfChanged

(* An answer to an ABI request, good or bad. *)
AbiAnswers ==
  /\ abiAsks > 0
  /\ abiAsks' = abiAsks - 1
  /\ abiLoading' = FALSE
  /\ \/ abi' = TRUE /\ abiError' = FALSE
     \/ abiError' = TRUE /\ UNCHANGED abi
  /\ UNCHANGED <<chain, balanceState, sends, told>>
  /\ Rendered
-----------------------------------------------------------------------------
(* The user types into the field. *)
HandleInputChange ==
  /\ ActionsShown
  /\ inputs' = "typed" /\ fields' = "typed" /\ edited' = TRUE
  /\ UNCHANGED <<chain, balanceState, abiState, sends, told>>

(* A log line renders the action, and the field shows the inputs; a        *)
(* read-only execution changes nothing else.                               *)
Logged == fields' = (IF ActionsShown THEN inputs ELSE "none")
          /\ UNCHANGED <<inputs, edited>>

ExecuteAction(a, isReadOnly) ==
  /\ ActionsShown
  /\ Logged
  /\ IF isReadOnly THEN UNCHANGED sends
     ELSE /\ Len(sends) < MaxSends
          /\ sends' = Append(sends, [addr |-> a, pc |-> "sent", made |-> 0])
  /\ UNCHANGED <<chain, balanceState, abiState, told>>

(* A transaction is part of an accepted block: the balance changes.        *)
TxAccepted(i) ==
  /\ sends[i].pc = "sent"
  /\ chain[sends[i].addr] < MaxChanges
  /\ chain' = [chain EXCEPT ![sends[i].addr] = @ + 1]
  /\ sends' = [sends EXCEPT ![i].pc = "accepted", ![i].made = chain'[sends[i].addr]]
  /\ UNCHANGED <<balanceState, abiState, actionState, told>>

(* Mutant: fetchBalance is called before the transaction is sent, and not  *)
(* when it has succeeded. *)
TxSucceeds_NoFetch(i) ==
  /\ sends[i].pc = "accepted"
  /\ sends' = [sends EXCEPT ![i].pc = "done"]
  /\ told' = Max2(told, sends[i].made)
  /\ UNCHANGED <<chain, balanceState, abiState>>
  /\ Logged

(* Its success is reported and the balance fetched: fetchBalance(true),    *)
(* although fetchBalance knows nothing of waiting for a change.            *)
TxSucceeds(i) ==
  /\ sends[i].pc = "accepted"
  /\ Len(asks) < MaxAsks
  /\ sends' = [sends EXCEPT ![i].pc = "done"]
  /\ told' = Max2(told, sends[i].made)
  /\ FetchBalance(sends[i].addr)
  /\ UNCHANGED <<chain, abiState>>
  /\ Logged

(* It is refused or nothing is heard of it: an error is logged.            *)
TxFails(i) ==
  /\ sends[i].pc # "done"
  /\ sends' = [sends EXCEPT ![i].pc = "done"]
  /\ UNCHANGED <<chain, balanceState, abiState, told>>
  /\ Logged

(* Someone else changes a balance. *)
Elsewhere(a) ==
  /\ chain[a] < MaxChanges
  /\ chain' = [chain EXCEPT ![a] = @ + 1]
  /\ UNCHANGED <<balanceState, abiState, actionState, sends, told>>

Answer(i) == NodeReads(i) \/ BalanceAnswers(i) \/ BalanceFails(i)

Answers == \/ \E i \in DOMAIN asks : Answer(i)
           \/ AbiAnswers
           \/ \E i \in DOMAIN sends : TxAccepted(i) \/ TxSucceeds(i) \/ TxFails(i)
           \/ \E a \in Address : Elsewhere(a)

(* What the user of the wallet of a does. *)
User(a) == \/ Refresh(a)
           \/ HandleInputChange
           \/ \E isReadOnly \in BOOLEAN : ExecuteAction(a, isReadOnly)
-----------------------------------------------------------------------------
Awaited == \E i \in DOMAIN asks : asks[i].pc # "done"
=============================================================================
