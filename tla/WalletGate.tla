----------------------------- MODULE WalletGate -----------------------------
(***************************************************************************)
(* The gate before the web wallet: App.tsx shows the component of          *)
(* Faucet.tsx while a signer is connected.  Its effect starts a run of     *)
(* performFaucetRequest for every address it is given: the run reads the   *)
(* balance, asks the faucet for coins, asks again after errors, and polls  *)
(* the balance.  Runs are never cancelled: those of earlier addresses go   *)
(* on and share the count and the error that decide what is shown.         *)
(*                                                                         *)
(* The faucet keeps the promise of module FaucetPromise and the threshold  *)
(* of module Faucet; a request that fails in the browser is an error too.  *)
(***************************************************************************)
EXTENDS Integers, Sequences, FiniteSets

CONSTANTS
  Address,      \* the addresses of signers
  NoSigner,     \* no signer is connected
  NoAnswer,     \* the node has not answered yet
  Opening,      \* the balances the chain may have at the start
  MinBalance,   \* minBalance, "1" in App.tsx
  Threshold,    \* the faucet's, "1.000" in faucet.go
  Remainders,   \* what others leave of a balance they spend
  MaxAttempts,  \* requests of a run, 10
  MaxPolls,     \* polls of a run, 100
  Builds,       \* of the page: "production", "development" (StrictMode)
  MaxEvents,    \* bound on the number of signer events explored
  MaxRuns       \* bound on the number of runs explored

(* What the faucet gives is more than the threshold.  No balance above it  *)
(* is told from another, so Plenty stands for all of them.                 *)
Plenty == Threshold + 1
Coins  == 0 .. Plenty

ASSUME GateAssumption ==
  /\ NoSigner \notin Address
  /\ NoAnswer \notin Nat
  /\ {MinBalance, Threshold, MaxEvents, MaxRuns} \subseteq Nat
  /\ MinBalance <= Threshold
  /\ Opening \subseteq [Address -> Coins]
  /\ Remainders \subseteq Coins
  /\ {MaxAttempts, MaxPolls} \subseteq Nat \ {0}
  /\ Builds \subseteq {"production", "development"}

VARIABLES
  build,     \* the build of the page
  balance,   \* the chain's balances
  signer,    \* myAddr, or NoSigner: the gate is not mounted
  events,    \* how often the signer changed
  mount,     \* how often the gate was mounted
  due,       \* runs that the gate's effect is still to start
  loading,   \* the gate's loading count
  failed,    \* the gate has an error
  runs       \* the runs of performFaucetRequest, in order

vars == <<build, balance, signer, events, mount, due, loading, failed, runs>>

app == <<build, signer, events, mount, due>>

Max2(m, n) == IF m >= n THEN m ELSE n
-----------------------------------------------------------------------------
Init == /\ build \in Builds
        /\ balance \in Opening
        /\ signer = NoSigner
        /\ events = 0
        /\ mount = 0
        /\ due = 0
        /\ loading = 0
        /\ failed = FALSE
        /\ runs = << >>

(* A signerConnected event.  With the first signer the gate is mounted,    *)
(* its state fresh; StrictMode runs the effects of a mount twice.  Another *)
(* address runs the effect again; no signer unmounts the gate.             *)
SignerConnected(s) ==
  /\ events < MaxEvents
  /\ s # signer
  /\ due = 0
  /\ events' = events + 1
  /\ signer' = s
  /\ due' = CASE s = NoSigner                       -> 0
              [] s # NoSigner /\ signer # NoSigner  -> 1
              [] s # NoSigner /\ signer = NoSigner  -> IF build = "development" THEN 2 ELSE 1
  /\ Len(runs) + due' <= MaxRuns
  /\ IF signer = NoSigner
     THEN mount' = mount + 1 /\ loading' = 0 /\ failed' = FALSE
     ELSE UNCHANGED <<mount, loading, failed>>
  /\ UNCHANGED <<build, balance, runs>>

(* A run of performFaucetRequest, up to its first await.  (For the faucet: *)
(* paid says whether the present request was paid, owed how many that were *)
(* answered with an error may still be; for the properties: peak is the    *)
(* largest balance of the address since the run began.)                    *)
NewRun == [mount |-> mount, addr |-> signer, pc |-> "check", seen |-> NoAnswer,
           tries |-> 0, polls |-> 0, answer |-> "none", paid |-> FALSE,
           owed |-> 0, peak |-> balance[signer]]

(* Mutant: the count is not increased. *)
Effect_Uncounted ==
  /\ due > 0
  /\ due' = 0
  /\ runs' = runs \o [i \in 1 .. due |-> NewRun]
  /\ UNCHANGED <<build, balance, signer, events, mount, loading, failed>>

(* The effect starts a run and the count, twice in a StrictMode mount. *)
Effect ==
  /\ due > 0
  /\ due' = 0
  /\ loading' = loading + due
  /\ runs' = runs \o [i \in 1 .. due |-> NewRun]
  /\ UNCHANGED <<build, balance, signer, events, mount, failed>>
-----------------------------------------------------------------------------
(* A run goes on, or ends: then it changes the gate's state if the gate it *)
(* belongs to is still mounted.                                            *)
Goto(i, next) == /\ runs' = [runs EXCEPT ![i] = next]
                 /\ UNCHANGED <<loading, failed>>

Shown(i) == signer # NoSigner /\ runs[i].mount = mount

Ended(r) == [r EXCEPT !.pc = "done", !.seen = NoAnswer, !.tries = 0, !.polls = 0]

(* Mutant: the count is decreased only when there was no error. *)
Finish_NoFinally(i, last, error) ==
  /\ runs' = [runs EXCEPT ![i] = Ended(last)]
  /\ loading' = IF Shown(i) /\ ~ error THEN loading - 1 ELSE loading
  /\ failed' = (failed \/ (Shown(i) /\ error))

Finish(i, last, error) ==
  /\ runs' = [runs EXCEPT ![i] = Ended(last)]
  /\ loading' = IF Shown(i) THEN loading - 1 ELSE loading
  /\ failed' = (failed \/ (Shown(i) /\ error))

Awaiting(i) == runs[i].pc \in {"check", "poll"} /\ runs[i].seen = NoAnswer

(* The node reads the balance; the run goes on with it later. *)
NodeAnswers(i) ==
  /\ Awaiting(i)
  /\ Goto(i, [runs[i] EXCEPT !.seen = balance[runs[i].addr]])
  /\ UNCHANGED <<balance, app>>

NodeFails(i) ==
  /\ Awaiting(i)
  /\ Finish(i, runs[i], TRUE)
  /\ UNCHANGED <<balance, app>>

Check(i) ==
  /\ runs[i].pc = "check" /\ ~ Awaiting(i)
  /\ IF runs[i].seen <= MinBalance
     THEN Goto(i, [runs[i] EXCEPT !.pc = "ask", !.seen = NoAnswer])
     ELSE Finish(i, runs[i], FALSE)
  /\ UNCHANGED <<balance, app>>

Ask(i) ==
  /\ runs[i].pc = "ask"
  /\ Goto(i, [runs[i] EXCEPT !.pc = "asked", !.paid = FALSE])
  /\ UNCHANGED <<balance, app>>

(* What the faucet may answer: see FaucetPromise's Permitted, and Faucet's *)
(* CheckBalance for "enough".                                              *)
Possible(r, kind) ==
  CASE kind = "sent"   -> r.paid
    [] kind = "enough" -> ~ r.paid /\ r.peak > Threshold
    [] kind = "error"  -> TRUE

(* Mutants: the last error is not thrown; a success does not end the loop. *)
Answered_Swallowed(i, r) ==
  IF r.answer # "error" THEN Goto(i, [r EXCEPT !.pc = "poll"])
  ELSE IF r.tries + 1 < MaxAttempts
  THEN Goto(i, [r EXCEPT !.pc = "ask", !.tries = @ + 1])
  ELSE Goto(i, [r EXCEPT !.pc = "poll"])

Answered_NoBreak(i, r) ==
  IF r.tries + 1 < MaxAttempts
  THEN Goto(i, [r EXCEPT !.pc = "ask", !.tries = @ + 1])
  ELSE IF r.answer # "error" THEN Goto(i, [r EXCEPT !.pc = "poll"])
  ELSE Finish(i, r, TRUE)

(* Any error is followed by another request, the last one ends the run. *)
Answered(i, r) ==
  IF r.answer # "error" THEN Goto(i, [r EXCEPT !.pc = "poll"])
  ELSE IF r.tries + 1 < MaxAttempts
  THEN Goto(i, [r EXCEPT !.pc = "ask", !.tries = @ + 1])
  ELSE Finish(i, r, TRUE)

FaucetAnswers(i) ==
  /\ runs[i].pc = "asked"
  /\ \E kind \in {"sent", "enough", "error"} :
       /\ Possible(runs[i], kind)
       /\ Answered(i, [runs[i] EXCEPT !.answer = kind, !.paid = FALSE,
                         !.owed = IF kind = "error" /\ ~ runs[i].paid
                                  THEN @ + 1 ELSE @])
  /\ UNCHANGED <<balance, app>>

(* Mutant: the polls are not counted. *)
Poll_Forever(i) ==
  /\ runs[i].pc = "poll" /\ ~ Awaiting(i)
  /\ IF runs[i].seen # MinBalance THEN Finish(i, runs[i], FALSE)
     ELSE Goto(i, [runs[i] EXCEPT !.seen = NoAnswer])
  /\ UNCHANGED <<balance, app>>

(* The poll ends with any balance but minBalance, or after the last one.   *)
Poll(i) ==
  /\ runs[i].pc = "poll" /\ ~ Awaiting(i)
  /\ IF runs[i].seen # MinBalance \/ runs[i].polls + 1 = MaxPolls
     THEN Finish(i, runs[i], FALSE)
     ELSE Goto(i, [runs[i] EXCEPT !.seen = NoAnswer, !.polls = @ + 1])
  /\ UNCHANGED <<balance, app>>

Advance(i) ==
  /\ i \in DOMAIN runs
  /\ \/ NodeAnswers(i) \/ NodeFails(i) \/ Check(i)
     \/ Ask(i) \/ FaucetAnswers(i) \/ Poll(i)
-----------------------------------------------------------------------------
(* The balance of a becomes b; the runs are those of before but for peak.  *)
Becomes(a, b, before) ==
  /\ balance' = [balance EXCEPT ![a] = b]
  /\ runs' = [i \in DOMAIN runs |->
                IF before[i].addr = a
                THEN [before[i] EXCEPT !.peak = Max2(@, b)] ELSE before[i]]
  /\ UNCHANGED <<app, loading, failed>>

(* The coins of a request arrive: before its answer, or after an error.    *)
FaucetPays(i) ==
  LET r == runs[i]
  IN  \/ /\ r.pc = "asked" /\ ~ r.paid
         /\ Becomes(r.addr, Plenty, [runs EXCEPT ![i].paid = TRUE])
      \/ /\ r.owed > 0
         /\ Becomes(r.addr, Plenty, [runs EXCEPT ![i].owed = @ - 1])

(* The signer is used elsewhere, too: its coins may go at any time, and    *)
(* what is left of them may be the minBalance that polls wait to change.   *)
Spend(a, rest) == rest < balance[a] /\ Becomes(a, rest, runs)

(* Every run has ended and no more events are explored. *)
Quiet == /\ due = 0
         /\ \A i \in DOMAIN runs : runs[i].pc = "done"
         /\ UNCHANGED vars

Next == \/ \E s \in Address \cup {NoSigner} : SignerConnected(s)
        \/ Effect
        \/ \E i \in DOMAIN runs : Advance(i) \/ FaucetPays(i)
        \/ \E a \in Address, rest \in Remainders : Spend(a, rest)
        \/ Quiet

(* A call ends with an answer or an error, timers fire. *)
Spec == Init /\ [][Next]_vars /\ \A i \in 1 .. MaxRuns : WF_vars(Advance(i))
-----------------------------------------------------------------------------
(* The state of the page is well formed. *)
TypeOK ==
  /\ build \in Builds
  /\ balance \in [Address -> Coins]
  /\ signer \in Address \cup {NoSigner}
  /\ events \in 0 .. MaxEvents /\ mount \in 0 .. MaxEvents /\ due \in 0 .. 2
  /\ loading \in Nat /\ failed \in BOOLEAN
  /\ \A i \in DOMAIN runs :
       runs[i] \in [mount : 1 .. mount, addr : Address,
                    pc : {"check", "ask", "asked", "poll", "done"},
                    seen : Coins \cup {NoAnswer}, peak : Coins,
                    tries : 0 .. MaxAttempts - 1, polls : 0 .. MaxPolls - 1,
                    answer : {"none", "sent", "enough", "error"},
                    paid : BOOLEAN, owed : 0 .. MaxAttempts]

(* The spinner counts the runs of the mounted gate that are under way,     *)
(* those of earlier addresses included, through errors and remounts.       *)
LoadingCounts ==
  signer # NoSigner =>
    loading = Cardinality({i \in DOMAIN runs : /\ runs[i].mount = mount
                                               /\ runs[i].pc # "done"})

Open == signer # NoSigner /\ loading = 0 /\ ~ failed

(* The gate lets the wallet through only when the account has had more     *)
(* than minBalance since each check of it began: the faucet's threshold is *)
(* not below the page's, a last error is thrown, and an answer that is ok  *)
(* comes after the coins.                                                  *)
OpenMeansFunded ==
  Open /\ due = 0 =>
    /\ \E i \in DOMAIN runs : runs[i].mount = mount /\ runs[i].addr = signer
    /\ \A i \in DOMAIN runs :
         runs[i].mount = mount => runs[i].peak > MinBalance

(* The faucet is not asked again by a run that was told of coins: requests *)
(* are repeated after errors only, although each of them may be paid.      *)
AsksOnlyAfterErrors ==
  [][\A i \in DOMAIN runs :
       runs[i].pc # "asked" /\ runs'[i].pc = "asked"
         => runs[i].answer \in {"none", "error"}]_vars

(* Every run ends: the spinner of an address does not stay for good,       *)
(* although its faucet request or its polls may all be in vain.            *)
RunsEnd ==
  \A i \in 1 .. MaxRuns :
    (i \in DOMAIN runs) ~> (i \in DOMAIN runs /\ runs[i].pc = "done")

(* The wallet is a child of the gate: it is mounted while the gate shows   *)
(* neither spinner nor error, also before an effect that is due has run.   *)
(* The gate keeps the promise of Screen: no wallet outlives its address.   *)
Page == INSTANCE Screen WITH
             NoWallet <- NoSigner,
             wallet   <- IF Open THEN signer ELSE NoSigner,
             leaving  <- Open /\ due > 0

ImplementsScreen == Page!Spec
=============================================================================
