------------------------------- MODULE Faucet -------------------------------
(***************************************************************************)
(* The faucet server, cmd/faucet/faucet.go.  main makes a first transfer   *)
(* to a random address, retrying, and only then serves requests.  From     *)
(* then on every HTTP request runs transferCoins in a goroutine of its     *)
(* own: it reads the balance of the address, prepares a transfer, sends it *)
(* over the one WebSocket connection and waits on the one queue of that    *)
(* connection for the result, up to the deadline of its context.           *)
(*                                                                         *)
(* The node is the chain of modules Storage and Transfer.  It executes a   *)
(* transfer, refuses it or lets it expire, and tells the connection that   *)
(* registered it.  A call can fail, the connection can break for good, the *)
(* process can die and be restarted (compose.yml, restart: always).        *)
(***************************************************************************)
EXTENDS Transfer, Sequences, FiniteSets

CONSTANTS
  Request,         \* the HTTP requests for coins
  Main,            \* the goroutine of main
  target,          \* the address each request names, or BadAddress
  BadAddress,      \* a text that is no address
  remote,          \* the remote address each request comes from
  readyAddress,    \* the random address of the n-th start
  faucetAddress,   \* the account of the faucet's key
  Databases,       \* the balances the chain may have at the start
  Amount,          \* what a transfer gives, 10.00
  Threshold,       \* the balance above which nothing is given, 1.000
  Fee,             \* what the chain charges for a transfer
  Burst,           \* the size of a rate limiter's bucket, 10
  MaxAttempts,     \* the bound of performInitialTransfer's loop, 10
  MaxRestarts      \* bound on the number of restarts explored

ASSUME FaucetAssumption ==
  /\ Main \notin Request
  /\ target \in [Request -> Address \cup {BadAddress}]
  /\ BadAddress \notin Address
  /\ readyAddress \in [0 .. MaxRestarts -> Address]
  /\ faucetAddress \in Address
  /\ {Amount, Threshold, Fee} \subseteq Balance
  /\ Threshold < Amount
  /\ {Burst, MaxAttempts} \subseteq Nat \ {0}
  /\ MaxRestarts \in Nat
  /\ Databases \subseteq {d \in Database : Supply(d) <= MaxUint64}
  \* a random address has no record, and nobody else knows it
  /\ \A n \in 0 .. MaxRestarts :
       /\ \A d \in Databases : d[readyAddress[n]] = Absent
       /\ \A r \in Request : target[r] # readyAddress[n]
       /\ \A m \in 0 .. MaxRestarts : readyAddress[m] = readyAddress[n] => m = n

Process == Request \cup {Main}
Remote  == {remote[r] : r \in Request}

VARIABLES
  db,        \* the chain's balances
  txs,       \* the transfers made, in order; an index is an ID
  inbox,     \* the messages of the connection nobody has taken yet
  conn,      \* "up" or "down"
  server,    \* "starting", "serving" or "exited"
  isReady,   \* what /readyz tells
  cached,    \* the client has the genesis
  tokens,    \* the tokens of each remote address's limiter
  restarts,  \* how often the process was restarted
  attempt,   \* attempts of the initial transfer that failed
  pc,        \* where each goroutine is
  own,       \* the ID of the transfer each goroutine waits for
  answer     \* how each request was answered

vars == <<db, txs, inbox, conn, server, isReady, cached, tokens, restarts,
          attempt, pc, own, answer>>

node    == <<db, txs>>
process == <<server, isReady, cached, tokens, restarts, attempt>>
-----------------------------------------------------------------------------
AddressOf(p) == IF p = Main THEN readyAddress[restarts] ELSE target[p]

Answered(r) == pc[r] = "answered"

(* A goroutine leaves transferCoins, and with it the ID it waited for: a   *)
(* request is answered; main becomes ready and serves, tries again, or     *)
(* gives up.                                                               *)
Answer(r, kind) ==
  /\ pc' = [pc EXCEPT ![r] = "answered"]
  /\ answer' = [answer EXCEPT ![r] = kind]
  /\ own' = [own EXCEPT ![r] = 0]
  /\ UNCHANGED <<server, isReady, attempt>>

MainSucceeds ==
  /\ isReady' = TRUE
  /\ pc' = [pc EXCEPT ![Main] = "ready"]
  /\ own' = [own EXCEPT ![Main] = 0]
  /\ UNCHANGED <<server, attempt, answer>>

(* Mutants: the loop has no end; after the loop the server starts anyway.  *)
MainFails_Forever ==
  /\ pc' = [pc EXCEPT ![Main] = "balance"]
  /\ own' = [own EXCEPT ![Main] = 0]
  /\ UNCHANGED <<attempt, isReady, server, answer>>

MainFails_Serves ==
  /\ attempt' = attempt + 1
  /\ IF attempt' < MaxAttempts
     THEN pc' = [pc EXCEPT ![Main] = "balance"] /\ UNCHANGED <<server, isReady>>
     ELSE /\ pc' = [pc EXCEPT ![Main] = "ready"]
          /\ isReady' = TRUE
          /\ UNCHANGED server
  /\ own' = [own EXCEPT ![Main] = 0]
  /\ UNCHANGED answer

MainFails ==
  /\ attempt' = attempt + 1
  /\ IF attempt' < MaxAttempts
     THEN pc' = [pc EXCEPT ![Main] = "balance"] /\ UNCHANGED server
     ELSE pc' = [pc EXCEPT ![Main] = "exited"] /\ server' = "exited"
  /\ own' = [own EXCEPT ![Main] = 0]
  /\ UNCHANGED <<isReady, answer>>

Return(p, kind) ==
  CASE p # Main                              -> Answer(p, kind)
    [] p = Main /\ kind \in {"sent", "enough"} -> MainSucceeds
    [] p = Main /\ kind \notin {"sent", "enough"} -> MainFails

(* After the initial transfer main listens on its port, which may be taken *)
(* (log.Fatal ends the process).                                           *)
Serve ==
  /\ pc[Main] = "ready"
  /\ \/ server' = "serving" /\ pc' = [pc EXCEPT ![Main] = "serving"]
     \/ server' = "exited"  /\ pc' = [pc EXCEPT ![Main] = "exited"]
  /\ UNCHANGED <<db, txs, inbox, conn, isReady, cached, tokens, restarts,
                 attempt, own, answer>>

(* What /readyz answers; before main serves, nobody answers.               *)
Readyz == IF server # "serving" THEN "refused"
          ELSE IF isReady THEN "healthy" ELSE "not yet healthy"

Goto(p, label) == /\ pc' = [pc EXCEPT ![p] = label]
                  /\ UNCHANGED <<server, isReady, attempt, answer, own>>
-----------------------------------------------------------------------------
(* Mutants: the server is started before the initial transfer; the         *)
(* limiter's answer is not looked at.                                      *)
HandleRequest_Early(r) ==
  /\ pc[r] = "new"
  /\ IF target[r] = BadAddress THEN Answer(r, "badAddress")
                               ELSE Goto(r, "balance")
  /\ UNCHANGED <<db, txs, inbox, conn, cached, restarts, tokens>>

HandleRequest_Unlimited(r) ==
  /\ server = "serving"
  /\ pc[r] = "new"
  /\ tokens' = [tokens EXCEPT ![remote[r]] = @ - 1]
  /\ IF target[r] = BadAddress THEN Answer(r, "badAddress")
                               ELSE Goto(r, "balance")
  /\ UNCHANGED <<db, txs, inbox, conn, cached, restarts>>

(* Request r reaches the handler: its remote address's limiter, created    *)
(* full if there is none, gives a token or not, and the address is parsed. *)
HandleRequest(r) ==
  /\ server = "serving"
  /\ pc[r] = "new"
  /\ IF tokens[remote[r]] = 0
     THEN Answer(r, "limited") /\ UNCHANGED tokens
     ELSE /\ tokens' = [tokens EXCEPT ![remote[r]] = @ - 1]
          /\ IF target[r] = BadAddress THEN Answer(r, "badAddress")
                                       ELSE Goto(r, "balance")
  /\ UNCHANGED <<db, txs, inbox, conn, cached, restarts>>

(* The limiter's clock gives a token back. *)
Refill(a) ==
  /\ tokens[a] < Burst
  /\ server = "serving"
  /\ tokens' = [tokens EXCEPT ![a] = @ + 1]
  /\ UNCHANGED <<db, txs, inbox, conn, server, isReady, cached, restarts,
                 attempt, pc, own, answer>>

(* What the node's handler reads from the accepted state and the client's  *)
(* Balance gives.                                                          *)
BalanceReply(a) == GetBalance(db, a)

(* The balance is compared at once; it may change before anything is sent. *)
CheckBalance(p) ==
  /\ pc[p] = "balance"
  /\ IF BalanceReply(AddressOf(p)) > Threshold
     THEN Return(p, "enough")
     ELSE Goto(p, "parser")
  /\ UNCHANGED <<db, txs, inbox, conn, cached, tokens, restarts>>

(* The client's genesis is read, and fetched and stored when it was nil,   *)
(* with no lock.                                                           *)
ReadGenesis(p) ==
  /\ pc[p] = "parser"
  /\ Goto(p, IF cached THEN "generate" ELSE "fetch")
  /\ UNCHANGED <<db, txs, inbox, conn, cached, tokens, restarts>>

FetchGenesis(p) ==
  /\ pc[p] = "fetch"
  /\ cached' = TRUE
  /\ Goto(p, "generate")
  /\ UNCHANGED <<db, txs, inbox, conn, tokens, restarts>>

(* A call to the node fails or runs into the deadline. *)
CallFails(p) ==
  /\ pc[p] \in {"balance", "fetch", "generate"}
  /\ Return(p, "callErr")
  /\ UNCHANGED <<db, txs, inbox, conn, cached, tokens, restarts>>

(* Mutant: a second transfer is sent in case the first is lost.            *)
RegisterTx_Twice(p) ==
  LET transfer == [by |-> p, to |-> AddressOf(p), fate |-> "wire", heard |-> TRUE]
  IN  /\ pc[p] = "generate"
      /\ IF conn = "up"
         THEN /\ txs' = txs \o <<transfer, transfer>>
              /\ own' = [own EXCEPT ![p] = Len(txs) + 2]
              /\ pc' = [pc EXCEPT ![p] = "listen"]
              /\ UNCHANGED <<server, isReady, attempt, answer>>
         ELSE Return(p, "registerErr") /\ UNCHANGED txs
      /\ UNCHANGED <<db, inbox, conn, cached, tokens, restarts>>

(* The transfer is generated and queued on the connection.  Its ID is a    *)
(* new one: no two transfers agree in recipient and in the time they were  *)
(* made at.                                                                *)
RegisterTx(p) ==
  /\ pc[p] = "generate"
  /\ IF conn = "up"
     THEN /\ txs' = Append(txs, [by |-> p, to |-> AddressOf(p),
                                 fate |-> "wire", heard |-> TRUE])
          /\ own' = [own EXCEPT ![p] = Len(txs) + 1]
          /\ pc' = [pc EXCEPT ![p] = "listen"]
          /\ UNCHANGED <<server, isReady, attempt, answer>>
     ELSE Return(p, "registerErr") /\ UNCHANGED txs
  /\ UNCHANGED <<db, inbox, conn, cached, tokens, restarts>>

(* Mutant: the ID of the message is not looked at. *)
ListenTx_AnyID(p) ==
  /\ pc[p] = "listen"
  /\ inbox # << >>
  /\ inbox' = Tail(inbox)
  /\ Return(p, CASE Head(inbox).kind = "removed" -> "txErr"
                 [] Head(inbox).kind = "ok"      -> "sent"
                 [] Head(inbox).kind = "failed"  -> "txFailed")
  /\ UNCHANGED <<db, txs, conn, cached, tokens, restarts>>

(* The loop of transferCoins takes the next message of the connection,     *)
(* whosever it is: an error ends it, its own result ends it, the result of *)
(* another transfer is dropped.                                            *)
ListenTx(p) ==
  /\ pc[p] = "listen"
  /\ inbox # << >>
  /\ inbox' = Tail(inbox)
  /\ CASE Head(inbox).kind = "removed" -> Return(p, "txErr")
       [] Head(inbox).kind # "removed" /\ Head(inbox).tx = own[p]
            -> Return(p, IF Head(inbox).kind = "ok" THEN "sent" ELSE "txFailed")
       [] Head(inbox).kind # "removed" /\ Head(inbox).tx # own[p]
            -> Goto(p, "listen")
  /\ UNCHANGED <<db, txs, conn, cached, tokens, restarts>>

(* The connection is gone. *)
ListenFails(p) ==
  /\ pc[p] = "listen"
  /\ conn = "down"
  /\ Return(p, "listenErr")
  /\ UNCHANGED <<db, txs, inbox, conn, cached, tokens, restarts>>

(* Mutant: there is no deadline.                                           *)
Deadline_Never(p) == conn = "down" /\ ListenFails(p)

(* Five seconds after transferCoins was entered. *)
Deadline(p) ==
  /\ pc[p] = "listen"
  /\ Return(p, "deadline")
  /\ UNCHANGED <<db, txs, inbox, conn, cached, tokens, restarts>>

Advance(p) ==
  \/ CheckBalance(p) \/ ReadGenesis(p) \/ FetchGenesis(p) \/ CallFails(p)
  \/ RegisterTx(p) \/ ListenTx(p) \/ ListenFails(p) \/ Deadline(p)
  \/ p = Main /\ Serve
-----------------------------------------------------------------------------
(* The fate of transfer i is known: whoever listens is told. *)
Settle(i, fate, kind) ==
  /\ txs' = [txs EXCEPT ![i].fate = fate]
  /\ inbox' = IF txs[i].heard THEN Append(inbox, [tx |-> i, kind |-> kind])
                              ELSE inbox

(* The node takes the transfer off the connection: into the mempool, or    *)
(* not at all.                                                             *)
Receive(i) ==
  /\ txs[i].fate = "wire"
  /\ \/ txs' = [txs EXCEPT ![i].fate = "pool"] /\ UNCHANGED inbox
     \/ Settle(i, "dropped", "removed")
  /\ UNCHANGED <<db, conn, process, pc, own, answer>>

(* The transfer is part of an accepted block (module BlockExecutor). *)
Accept(i) ==
  LET charged  == Deduct(db, FullScope, faucetAddress, Fee)
      transfer == [to |-> txs[i].to, value |-> Amount, memo |-> 0]
      done     == Execute(charged.db, FullScope, faucetAddress, transfer)
  IN  /\ txs[i].fate = "pool"
      /\ charged.err = "nil"
      /\ db' = IF done.err = "nil" THEN done.db ELSE charged.db
      /\ IF done.err = "nil" THEN Settle(i, "paid", "ok")
                             ELSE Settle(i, "reverted", "failed")
      /\ UNCHANGED <<conn, process, pc, own, answer>>

(* The transfer's validity ends, or its fee cannot be paid. *)
Expire(i) ==
  /\ txs[i].fate = "pool"
  /\ Settle(i, "dropped", "removed")
  /\ UNCHANGED <<db, conn, process, pc, own, answer>>

Unheard == [i \in DOMAIN txs |->
              [txs[i] EXCEPT !.heard = FALSE,
                             !.fate = IF @ = "wire" THEN "lost" ELSE @]]

(* The connection breaks; the client does not open another.  What was on   *)
(* its way is lost, what the client had received stays.                    *)
LoseConnection ==
  /\ conn = "up"
  /\ server # "exited"
  /\ conn' = "down"
  /\ txs' = Unheard
  /\ UNCHANGED <<db, inbox, process, pc, own, answer>>

(* The process dies, or has given up, and is started anew with nothing     *)
(* left of its memory; the requests it was working on are cut off.         *)
Restart ==
  /\ restarts < MaxRestarts
  /\ restarts' = restarts + 1
  /\ txs' = Unheard
  /\ inbox' = << >>
  /\ conn' = "up"
  /\ server' = "starting"
  /\ isReady' = FALSE
  /\ cached' = FALSE
  /\ tokens' = [a \in Remote |-> Burst]
  /\ attempt' = 0
  /\ pc' = [p \in Process |-> CASE p = Main                         -> "balance"
                                [] p # Main /\ pc[p] = "new"        -> "new"
                                [] p # Main /\ pc[p] # "new"        -> "answered"]
  /\ own' = [p \in Process |-> 0]
  /\ answer' = [r \in Request |->
                  IF pc[r] \in {"new", "answered"} THEN answer[r] ELSE "cut"]
  /\ UNCHANGED db

(* Nothing is left to happen. *)
Idle == /\ server = "exited" \/ \A r \in Request : Answered(r)
        /\ UNCHANGED vars
-----------------------------------------------------------------------------
Init ==
  /\ db \in Databases
  /\ txs = << >>
  /\ inbox = << >>
  /\ conn = "up"
  /\ server = "starting"
  /\ isReady = FALSE
  /\ cached = FALSE
  /\ tokens = [a \in Remote |-> Burst]
  /\ restarts = 0
  /\ attempt = 0
  /\ pc = [p \in Process |-> IF p = Main THEN "balance" ELSE "new"]
  /\ own = [p \in Process |-> 0]
  /\ answer = [r \in Request |-> "none"]

Node == \E i \in DOMAIN txs : Receive(i) \/ Accept(i) \/ Expire(i)

Next ==
  \/ \E r \in Request : HandleRequest(r)
  \/ \E a \in Remote : Refill(a)
  \/ \E p \in Process : Advance(p)
  \/ Node
  \/ LoseConnection
  \/ Restart
  \/ Idle

(* A goroutine is scheduled as long as it can take a step, its calls and   *)
(* its wait end at the latest with its context.  Nothing is assumed of the *)
(* node, the connection or the clients.                                    *)
Fairness == \A p \in Process : WF_vars(Advance(p))

Spec == Init /\ [][Next]_vars /\ Fairness
-----------------------------------------------------------------------------
(* The server's variables are well formed. *)
TypeOK ==
  /\ db \in Database
  /\ \A i \in DOMAIN txs :
       txs[i] \in [by : Process, to : Address, heard : BOOLEAN,
                   fate : {"wire", "pool", "paid", "reverted", "dropped", "lost"}]
  /\ \A i \in DOMAIN inbox :
       inbox[i] \in [tx : DOMAIN txs, kind : {"removed", "ok", "failed"}]
  /\ conn \in {"up", "down"}
  /\ server \in {"starting", "serving", "exited"}
  /\ isReady \in BOOLEAN /\ cached \in BOOLEAN
  /\ tokens \in [Remote -> 0 .. Burst]
  /\ restarts \in 0 .. MaxRestarts
  /\ attempt \in 0 .. MaxAttempts
  /\ pc \in [Process -> {"new", "balance", "parser", "fetch", "generate",
                         "listen", "answered", "ready", "serving", "exited"}]
  /\ own \in [Process -> 0 .. Len(txs)]

Paid(r) == \E i \in DOMAIN txs : txs[i].by = r /\ txs[i].fate = "paid"

(* Whatever goroutines take each other's messages: an answer that states   *)
(* the result of a transfer states that of the request's own.              *)
ResultIsOwn ==
  \A r \in Request :
    /\ answer[r] = "sent" => Paid(r)
    /\ answer[r] = "txFailed" =>
         \E i \in DOMAIN txs : txs[i].by = r /\ txs[i].fate = "reverted"

(* /readyz answers that the faucet is healthy only when this run of the    *)
(* process has seen coins arrive, by the result of its first transfer or,  *)
(* when that was lost, by the balance of the random address.               *)
ReadyMeansPaid ==
  isReady => \E i \in DOMAIN txs : /\ txs[i].by = Main
                                   /\ txs[i].to = readyAddress[restarts]
                                   /\ txs[i].fate = "paid"

(* vm/client.go's Genesis reads and writes cli.g without a lock.  No two   *)
(* goroutines do so at once while it is nil: main has set it before the    *)
(* first request, also when its first transfers failed.                    *)
NoGenesisRace ==
  \A p, q \in Process :
    p # q /\ pc[p] = "fetch" => pc[q] \notin {"parser", "fetch"}

(* A request that got past the rate limiter is answered, or cut off by the *)
(* end of the process, though its result may never come or be taken by     *)
(* another request.                                                        *)
RequestsEnd ==
  \A r \in Request :
    pc[r] \notin {"new", "answered"} ~> pc[r] = "answered"

(* The start does not take forever: the server serves or exits. *)
StartEnds == server = "starting" ~> server # "starting"

(* How many transfers have brought coins for a request. *)
Payments(r) == Cardinality({i \in DOMAIN txs : txs[i].by = r /\ txs[i].fate = "paid"})

(* The faucet keeps its promise, whoever takes the messages, whatever is   *)
(* lost and whenever it is restarted: above all, the coins of a request    *)
(* arrive once at most.                                                    *)
Promise == INSTANCE FaucetPromise WITH
             asked <- {r \in Request : pc[r] # "new"},
             paid  <- [r \in Request |-> Payments(r)]

KeepsPromise == Promise!Spec
-----------------------------------------------------------------------------
(* "Failed to transfer coins: %v", with the error of a transfer the node   *)
(* removed (faucet.go:139, 283): the coins were not transferred.           *)
RemovedMeansUnpaid ==
  \A r \in Request : answer[r] = "txErr" => ~ Paid(r)

(* "/readyz" - "Check if the faucet is operational" (faucet.go:194): a     *)
(* faucet that is ready has a connection to send transfers over.           *)
ReadyMeansOperational == Readyz = "healthy" => conn = "up"
=============================================================================
