---------------------------- MODULE FaucetProofs ----------------------------
(***************************************************************************)
(* Theorems about the faucet, for any requests, attempts, restarts and     *)
(* amounts: answers that state a result state the request's own, a faucet  *)
(* that is ready has paid, the genesis is not fetched twice at once, and   *)
(* the coins of a request arrive once at most (FaucetPromise).             *)
(***************************************************************************)
EXTENDS Faucet, StorageProofs

Fate  == {"wire", "pool", "paid", "reverted", "dropped", "lost"}
Kind  == {"removed", "ok", "failed"}
Place == {"new", "balance", "parser", "fetch", "generate", "listen",
          "answered", "ready", "serving", "exited"}
Reply == {"none", "limited", "badAddress", "enough", "callErr", "registerErr",
          "txErr", "sent", "txFailed", "listenErr", "deadline", "cut"}
TxRecord == [by : Process, to : Address, heard : BOOLEAN, fate : Fate]
Message  == [tx : Nat, kind : Kind]

Typed == /\ db \in Database
         /\ txs \in Seq(TxRecord)
         /\ inbox \in Seq(Message)
         /\ restarts \in 0 .. MaxRestarts
         /\ pc \in [Process -> Place]
         /\ own \in [Process -> Nat]
         /\ answer \in [Request -> Reply]

(* A message tells the truth about its transfer. *)
Truthful ==
  \A k \in 1 .. Len(inbox) :
    /\ inbox[k].tx \in 1 .. Len(txs)
    /\ inbox[k].kind = "ok"     => txs[inbox[k].tx].fate = "paid"
    /\ inbox[k].kind = "failed" => txs[inbox[k].tx].fate = "reverted"

(* The transfer a goroutine waits for is the one it made. *)
OwnIsMine ==
  \A p \in Process :
    own[p] # 0 => /\ own[p] \in 1 .. Len(txs)
                  /\ txs[own[p]].by = p
                  /\ txs[own[p]].to = AddressOf(p)

(* Only main pays to a random address, in the run that drew it, and        *)
(* nothing else gives it coins.                                            *)
RandomIsMains ==
  \A n \in 0 .. MaxRestarts :
    /\ \A i \in 1 .. Len(txs) :
         txs[i].to = readyAddress[n] => txs[i].by = Main /\ n <= restarts
    /\ db[readyAddress[n]] # Absent =>
         \E i \in 1 .. Len(txs) : /\ txs[i].to = readyAddress[n]
                                  /\ txs[i].fate = "paid"

(* Requests are handled when main serves, and they name an address.        *)
ServedAfterStart ==
  /\ server = "serving" => pc[Main] = "serving"
  /\ \A r \in Request :
       pc[r] \notin {"new", "answered"} =>
         pc[Main] = "serving" /\ target[r] # BadAddress

(* The genesis is in the cache before main makes a transfer, and stays.    *)
FetchedBefore ==
  /\ pc[Main] \in {"generate", "listen", "ready", "serving"} => cached
  /\ \A i \in 1 .. Len(txs) : txs[i].to = readyAddress[restarts] => cached
  /\ \A r \in Request : pc[r] # "fetch"

FaucetInv == /\ Typed /\ Truthful /\ OwnIsMine /\ RandomIsMains
             /\ ServedAfterStart /\ FetchedBefore
             /\ ResultIsOwn /\ ReadyMeansPaid
-----------------------------------------------------------------------------
(* Main is a goroutine, the others are requests. *)
LEMMA Processes ==
  /\ Main \in Process /\ Main \notin Request /\ Request \subseteq Process
  /\ \A p \in Process : p # Main => p \in Request
  BY FaucetAssumption DEF Process

(* How a goroutine returns from transferCoins. *)
LEMMA ReturnEnds ==
  ASSUME Typed, NEW p \in Process, NEW kind \in Reply, Return(p, kind)
  PROVE  /\ \E place \in {"answered", "balance", "ready", "exited"} :
              pc' = [pc EXCEPT ![p] = place]
         /\ own' = [own EXCEPT ![p] = 0]
         /\ p # Main => /\ pc'[p] = "answered"
                        /\ answer' = [answer EXCEPT ![p] = kind]
                        /\ isReady' = isReady /\ server' = server
         /\ p = Main => /\ pc'[p] # "answered"
                        /\ answer' = answer
                        /\ server' \in {server, "exited"}
         /\ p = Main /\ kind \notin {"sent", "enough"} =>
              pc'[p] # "ready" /\ isReady' = isReady
  <1>1. CASE p # Main
    <2>1. Answer(p, kind)
      BY <1>1 DEF Return
    <2>2. QED
      BY <1>1, <2>1 DEF Answer, Typed
  <1>2. CASE p = Main /\ kind \in {"sent", "enough"}
    <2>1. MainSucceeds
      BY <1>2 DEF Return
    <2>2. QED
      BY <1>2, <2>1 DEF MainSucceeds, Typed
  <1>3. CASE p = Main /\ kind \notin {"sent", "enough"}
    <2>1. MainFails
      BY <1>3 DEF Return
    <2>2. QED
      BY <1>3, <2>1 DEF MainFails, Typed
  <1>4. QED
    BY <1>1, <1>2, <1>3

(* The types that a return keeps. *)
LEMMA ReturnTyped ==
  ASSUME Typed, NEW p \in Process, NEW kind \in Reply, Return(p, kind)
  PROVE  /\ pc' \in [Process -> Place]
         /\ own' \in [Process -> Nat]
         /\ answer' \in [Request -> Reply]
  <1>1. PICK place \in {"answered", "balance", "ready", "exited"} :
          pc' = [pc EXCEPT ![p] = place]
    BY ReturnEnds
  <1>2. pc' \in [Process -> Place]
    BY <1>1 DEF Typed, Place
  <1>3. own' \in [Process -> Nat]
    BY ReturnEnds DEF Typed
  <1>4. answer' \in [Request -> Reply]
    <2>1. CASE p = Main
      BY <2>1, ReturnEnds DEF Typed
    <2>2. CASE p # Main
      BY <2>2, ReturnEnds DEF Typed
    <2>3. QED
      BY <2>1, <2>2
  <1>5. QED
    BY <1>2, <1>3, <1>4

LEMMA GotoTyped ==
  ASSUME Typed, NEW p \in Process, NEW place \in Place, Goto(p, place)
  PROVE  /\ pc' \in [Process -> Place] /\ own' \in [Process -> Nat]
         /\ answer' \in [Request -> Reply]
         /\ pc' = [pc EXCEPT ![p] = place]
  BY DEF Goto, Typed

(* The steps of a goroutine that are neither a transfer nor a message:     *)
(* they leave the chain and the connection alone.                          *)
Quietly(p) == \/ p \in Request /\ HandleRequest(p)
              \/ CheckBalance(p) \/ ReadGenesis(p) \/ FetchGenesis(p)
              \/ CallFails(p) \/ ListenFails(p) \/ Deadline(p)

LEMMA Steps ==
  ASSUME [Next]_vars
  PROVE  \/ \E p \in Process : Quietly(p) \/ RegisterTx(p) \/ ListenTx(p)
         \/ Serve \/ \E a \in Remote : Refill(a)
         \/ \E i \in DOMAIN txs : Receive(i) \/ Accept(i) \/ Expire(i)
         \/ LoseConnection \/ Restart \/ UNCHANGED vars
  BY Processes DEF Next, Advance, Node, Idle, Quietly

(* What a goroutine can return with at such a step.                        *)
Quiet(p) ==
  {kind \in Reply \ {"sent", "txFailed"} :
     kind = "enough" => GetBalance(db, AddressOf(p)) > Threshold}

LEMMA QuietlyFrame ==
  ASSUME NEW p \in Process, Quietly(p)
  PROVE  /\ UNCHANGED <<db, txs, inbox, conn, restarts>>
         /\ \/ \E kind \in Quiet(p) : Return(p, kind)
            \/ \E place \in Place : Goto(p, place)
  <1>1. CASE p \in Request /\ HandleRequest(p)
    <2>1. p # Main
      BY <1>1, Processes
    <2>2. \/ Answer(p, "limited") \/ Answer(p, "badAddress") \/ Goto(p, "balance")
      BY <1>1 DEF HandleRequest
    <2>3. {"limited", "badAddress"} \subseteq Quiet(p) /\ "balance" \in Place
      BY DEF Quiet, Reply, Place
    <2>4. \A kind \in {"limited", "badAddress"} : Answer(p, kind) => Return(p, kind)
      BY <2>1 DEF Return
    <2>5. UNCHANGED <<db, txs, inbox, conn, restarts>>
      BY <1>1 DEF HandleRequest
    <2>6. QED
      BY <2>2, <2>3, <2>4, <2>5
  <1>2. CASE CheckBalance(p)
    BY <1>2 DEF CheckBalance, BalanceReply, Quiet, Reply, Place
  <1>3. CASE ReadGenesis(p)
    BY <1>3 DEF ReadGenesis, Place
  <1>4. CASE FetchGenesis(p)
    BY <1>4 DEF FetchGenesis, Place
  <1>5. CASE CallFails(p)
    BY <1>5 DEF CallFails, Quiet, Reply
  <1>6. CASE ListenFails(p)
    BY <1>6 DEF ListenFails, Quiet, Reply
  <1>7. CASE Deadline(p)
    BY <1>7 DEF Deadline, Quiet, Reply
  <1>8. QED
    BY <1>1, <1>2, <1>3, <1>4, <1>5, <1>6, <1>7 DEF Quietly

LEMMA ListenFrame ==
  ASSUME Typed, NEW p \in Process, ListenTx(p)
  PROVE  /\ UNCHANGED <<db, txs, conn, restarts, cached>>
         /\ Len(inbox) > 0 /\ inbox' = Tail(inbox) /\ pc[p] = "listen"
         /\ \/ \E kind \in {"txErr", "txFailed", "sent"} :
                 /\ Return(p, kind)
                 /\ kind # "txErr" => inbox[1].tx = own[p]
                 /\ kind = "sent" => inbox[1].kind = "ok"
                 /\ kind = "txFailed" => inbox[1].kind = "failed"
            \/ Goto(p, "listen")
  <1>1. Len(inbox) > 0
    BY DEF ListenTx, Typed
  <1>2. inbox[1] \in Message
    BY <1>1 DEF Typed
  <1>3. Head(inbox) = inbox[1] /\ inbox[1].kind \in Kind
    BY <1>1, <1>2 DEF Typed, Message
  <1>4. \/ \E kind \in {"txErr", "txFailed", "sent"} :
              /\ Return(p, kind)
              /\ kind # "txErr" => inbox[1].tx = own[p]
              /\ kind = "sent" => inbox[1].kind = "ok"
              /\ kind = "txFailed" => inbox[1].kind = "failed"
        \/ Goto(p, "listen")
    <2>1. CASE Head(inbox).kind = "removed"
      BY <2>1 DEF ListenTx
    <2>2. CASE Head(inbox).kind # "removed" /\ Head(inbox).tx = own[p]
      <3>1. Return(p, IF inbox[1].kind = "ok" THEN "sent" ELSE "txFailed")
        BY <1>3, <2>2 DEF ListenTx
      <3>2. CASE inbox[1].kind = "ok"
        BY <1>3, <2>2, <3>1, <3>2
      <3>3. CASE inbox[1].kind # "ok"
        BY <1>3, <2>2, <3>1, <3>3 DEF Kind
      <3>4. QED
        BY <3>2, <3>3
    <2>3. CASE Head(inbox).kind # "removed" /\ Head(inbox).tx # own[p]
      BY <2>3 DEF ListenTx
    <2>4. QED
      BY <2>1, <2>2, <2>3
  <1>5. QED
    BY <1>1, <1>4 DEF ListenTx
-----------------------------------------------------------------------------
(* What the node does to the coins of an account: a transfer gives none to *)
(* an account without a record that it is not made to.                     *)
LEMMA DebitMakesNoRecord ==
  ASSUME NEW d \in Database, NEW scope, NEW a \in Address, NEW amount \in Balance,
         NEW x \in Address, d[x] = Absent
  PROVE  SubBalance(d, scope, a, amount).db[x] = Absent
  <1>1. CASE SubBalance(d, scope, a, amount).err = "nil" /\ x # a
    BY <1>1, SubBalanceEffect
  <1>2. CASE x = a
    BY <1>2 DEF SubBalance, Exists, Outcome
  <1>3. CASE SubBalance(d, scope, a, amount).err # "nil"
    <2>1. CASE ~ Exists(d, scope, a)
      BY <2>1 DEF SubBalance, Outcome
    <2>2. CASE Exists(d, scope, a)
      <3>1. d[a] \in Nat /\ amount \in Nat
        BY <2>2, BalanceNat DEF Database, Record, Exists
      <3>2. d[a] < amount \/ d[a] = amount \/ d[a] > amount
        BY <3>1
      <3>3. CASE d[a] < amount
        BY <2>2, <3>1, <3>3 DEF SubBalance, Outcome
      <3>4. CASE d[a] = amount
        BY <1>3, <2>2, <3>1, <3>4 DEF SubBalance, Remove, Outcome
      <3>5. CASE d[a] > amount
        BY <1>3, <2>2, <3>1, <3>5 DEF SubBalance, Insert, Outcome
      <3>6. QED
        BY <3>2, <3>3, <3>4, <3>5
    <2>3. QED
      BY <2>1, <2>2
  <1>4. QED
    BY <1>1, <1>2, <1>3

LEMMA ExecuteGivesTo ==
  ASSUME NEW d \in Database, NEW scope, NEW actor \in Address,
         NEW transfer \in TransferAction, NEW x \in Address,
         d[x] = Absent, x # transfer.to,
         Execute(d, scope, actor, transfer).err = "nil"
  PROVE  Execute(d, scope, actor, transfer).db[x] = Absent
  <1> DEFINE sub == SubBalance(d, scope, actor, transfer.value)
             add == Credit(sub.db, scope, transfer.to, transfer.value)
  <1>1. transfer.value \in Balance /\ transfer.to \in Address
    BY DEF TransferAction
  <1>2. sub.db \in Database /\ sub.db[x] = Absent
    BY <1>1, SubBalanceType, DebitMakesNoRecord
  <1>3. add.err = "nil" /\ Execute(d, scope, actor, transfer).db = add.db
    <2>1. Validate(transfer) = "nil" /\ sub.err = "nil" /\ add.err = "nil"
      BY DEF Execute
    <2>2. QED
      BY <2>1 DEF Execute
  <1>4. add.db[x] = sub.db[x]
    BY <1>1, <1>2, <1>3, CreditEffect
  <1>5. QED
    BY <1>2, <1>3, <1>4

(* A block with transfer i leaves well formed records. *)
LEMMA AcceptChain ==
  ASSUME Typed, NEW i \in DOMAIN txs, Accept(i)
  PROVE  /\ db' \in Database
         /\ \A x \in Address : db[x] = Absent /\ db'[x] # Absent =>
              txs[i].to = x /\ txs'[i].fate = "paid"
         /\ \/ Settle(i, "paid", "ok")
            \/ Settle(i, "reverted", "failed")
         /\ txs[i].fate = "pool"
         /\ UNCHANGED <<conn, process, pc, own, answer>>
  <1> DEFINE charged  == Deduct(db, FullScope, faucetAddress, Fee)
             transfer == [to |-> txs[i].to, value |-> Amount, memo |-> 0]
             done     == Execute(charged.db, FullScope, faucetAddress, transfer)
  <1>1. txs[i] \in TxRecord /\ db \in Database
    BY DEF Typed
  <1>2. /\ txs[i].to \in Address
        /\ faucetAddress \in Address /\ Fee \in Balance /\ Amount \in Balance
    BY <1>1, FaucetAssumption DEF TxRecord
  <1>3. transfer \in TransferAction /\ transfer.to = txs[i].to
    BY <1>2 DEF TransferAction
  <1>4. charged.db \in Database
    BY <1>1, <1>2, SubBalanceType DEF Deduct
  <1>5. done.db \in Database
    BY <1>2, <1>3, <1>4, ExecuteType
  <1>6. \A x \in Address : db[x] = Absent => charged.db[x] = Absent
    BY <1>1, <1>2, DebitMakesNoRecord DEF Deduct
  <1>7. ASSUME done.err = "nil", NEW x \in Address, db[x] = Absent, txs[i].to # x
        PROVE  done.db[x] = Absent
    <2> HIDE DEF transfer
    <2>1. QED
      BY <1>2, <1>3, <1>4, <1>6, <1>7, ExecuteGivesTo
  <1>8. /\ db' = IF done.err = "nil" THEN done.db ELSE charged.db
        /\ IF done.err = "nil" THEN Settle(i, "paid", "ok")
                               ELSE Settle(i, "reverted", "failed")
        /\ txs[i].fate = "pool"
        /\ UNCHANGED <<conn, process, pc, own, answer>>
    BY DEF Accept
  <1> HIDE DEF done, charged, transfer
  <1>9. CASE done.err = "nil"
    <2>1. db' = done.db /\ Settle(i, "paid", "ok")
      BY <1>8, <1>9
    <2>2. txs'[i].fate = "paid"
      BY <1>1, <2>1 DEF Settle, TxRecord, Typed
    <2>3. QED
      BY <1>5, <1>7, <1>8, <1>9, <2>1, <2>2
  <1>10. CASE done.err # "nil"
    BY <1>4, <1>6, <1>8, <1>10
  <1>11. QED
    BY <1>9, <1>10

(* What a settled transfer and its message are. *)
LEMMA SettleTyped ==
  ASSUME Typed, NEW i \in DOMAIN txs, NEW fate \in Fate, NEW kind \in Kind,
         Settle(i, fate, kind)
  PROVE  /\ txs' \in Seq(TxRecord) /\ Len(txs') = Len(txs)
         /\ inbox' \in Seq(Message)
         /\ txs'[i].fate = fate
         /\ \A j \in 1 .. Len(txs) :
              /\ txs'[j].by = txs[j].by /\ txs'[j].to = txs[j].to
              /\ j # i => txs'[j] = txs[j]
         /\ \/ inbox' = inbox
            \/ inbox' = Append(inbox, [tx |-> i, kind |-> kind])
  <1>1. txs[i] \in TxRecord /\ i \in 1 .. Len(txs) /\ i \in Nat
    BY DEF Typed
  <1>2. [txs[i] EXCEPT !.fate = fate] \in TxRecord
    BY <1>1 DEF TxRecord
  <1>3. txs' = [txs EXCEPT ![i] = [txs[i] EXCEPT !.fate = fate]]
    BY DEF Settle
  <1>4. txs' \in Seq(TxRecord) /\ Len(txs') = Len(txs)
    BY <1>1, <1>2, <1>3 DEF Typed
  <1>5. \A j \in 1 .. Len(txs) :
          /\ txs'[j].by = txs[j].by /\ txs'[j].to = txs[j].to
          /\ j # i => txs'[j] = txs[j]
    BY <1>1, <1>3 DEF TxRecord, Typed
  <1>6. txs'[i].fate = fate
    BY <1>1, <1>3 DEF TxRecord, Typed
  <1>7. [tx |-> i, kind |-> kind] \in Message
    BY <1>1 DEF Message
  <1>8. inbox' = inbox \/ inbox' = Append(inbox, [tx |-> i, kind |-> kind])
    BY DEF Settle
  <1>9. inbox' \in Seq(Message)
    <2>1. inbox \in Seq(Message)
      BY DEF Typed
    <2> DEFINE message == [tx |-> i, kind |-> kind]
    <2>2. message \in Message
      BY <1>7
    <2>3. inbox' = inbox \/ inbox' = Append(inbox, message)
      BY <1>8
    <2> HIDE DEF message
    <2>4. QED
      BY <2>1, <2>2, <2>3
  <1>10. QED
    BY <1>4, <1>5, <1>6, <1>8, <1>9

LEMMA UnheardTyped ==
  ASSUME Typed, txs' = Unheard
  PROVE  /\ txs' \in Seq(TxRecord) /\ Len(txs') = Len(txs)
         /\ \A j \in 1 .. Len(txs) :
              /\ txs'[j].by = txs[j].by /\ txs'[j].to = txs[j].to
              /\ txs[j].fate # "wire" => txs'[j].fate = txs[j].fate
  <1>1. txs \in Seq(TxRecord) /\ Len(txs) \in Nat /\ DOMAIN txs = 1 .. Len(txs)
    BY DEF Typed
  <1>2. ASSUME NEW j \in 1 .. Len(txs)
        PROVE  /\ Unheard[j] \in TxRecord
               /\ Unheard[j].by = txs[j].by /\ Unheard[j].to = txs[j].to
               /\ txs[j].fate # "wire" => Unheard[j].fate = txs[j].fate
    <2> DEFINE fate == IF txs[j].fate = "wire" THEN "lost" ELSE txs[j].fate
               deaf == [txs[j] EXCEPT !.heard = FALSE]
    <2>1. txs[j] \in TxRecord
      BY <1>1
    <2>2. Unheard[j] = [deaf EXCEPT !.fate = fate]
      BY <1>1 DEF Unheard
    <2>3. /\ deaf \in TxRecord
          /\ deaf.by = txs[j].by /\ deaf.to = txs[j].to /\ deaf.fate = txs[j].fate
      BY <2>1 DEF TxRecord
    <2>4. fate \in Fate /\ (txs[j].fate # "wire" => fate = txs[j].fate)
      BY <2>1 DEF TxRecord, Fate
    <2> HIDE DEF fate, deaf
    <2>5. /\ [deaf EXCEPT !.fate = fate] \in TxRecord
          /\ [deaf EXCEPT !.fate = fate].by = deaf.by
          /\ [deaf EXCEPT !.fate = fate].to = deaf.to
          /\ [deaf EXCEPT !.fate = fate].fate = fate
      BY <2>3, <2>4 DEF TxRecord
    <2>6. QED
      BY <2>2, <2>3, <2>4, <2>5
  <1>3. Unheard = [j \in 1 .. Len(txs) |-> Unheard[j]]
    BY <1>1 DEF Unheard
  <1> HIDE DEF Unheard
  <1>4. Unheard \in Seq(TxRecord) /\ Len(Unheard) = Len(txs)
    BY <1>1, <1>2, <1>3
  <1>5. QED
    BY <1>2, <1>4
-----------------------------------------------------------------------------
(* A transfer is made to an address, by a goroutine that has fetched the   *)
(* genesis; it is the last of the list and the goroutine's own.            *)
NewTx(p) == [by |-> p, to |-> AddressOf(p), fate |-> "wire", heard |-> TRUE]

LEMMA RegisterFrame ==
  ASSUME Typed, ServedAfterStart, NEW p \in Process, RegisterTx(p)
  PROVE  /\ UNCHANGED <<db, inbox, conn, restarts, cached>> /\ pc[p] = "generate"
         /\ AddressOf(p) \in Address /\ NewTx(p) \in TxRecord
         /\ \/ /\ txs' = txs /\ Return(p, "registerErr")
            \/ /\ txs' = Append(txs, NewTx(p))
               /\ own' = [own EXCEPT ![p] = Len(txs) + 1]
               /\ pc' = [pc EXCEPT ![p] = "listen"]
               /\ UNCHANGED <<server, isReady, answer>>
  <1>1. pc[p] = "generate" /\ UNCHANGED <<db, inbox, conn, restarts, cached>>
    BY DEF RegisterTx
  <1>2. AddressOf(p) \in Address
    <2>1. CASE p = Main
      BY <2>1, FaucetAssumption DEF AddressOf, Typed
    <2>2. CASE p # Main
      BY <1>1, <2>2, Processes, FaucetAssumption DEF AddressOf, ServedAfterStart
    <2>3. QED
      BY <2>1, <2>2
  <1>3. NewTx(p) \in TxRecord
    BY <1>2 DEF NewTx, TxRecord, Fate
  <1>4. QED
    BY <1>1, <1>2, <1>3 DEF RegisterTx, NewTx

LEMMA NodeFrame ==
  ASSUME Typed, NEW i \in DOMAIN txs, Receive(i) \/ Accept(i) \/ Expire(i)
  PROVE  /\ UNCHANGED <<conn, process, pc, own, answer>>
         /\ db' \in Database
         /\ \A x \in Address : db[x] = Absent /\ db'[x] # Absent =>
              txs[i].to = x /\ txs'[i].fate = "paid"
         /\ \E fate \in Fate, kind \in Kind :
              /\ txs[i].fate \notin {"paid", "reverted"}
              /\ kind = "ok" => fate = "paid"
              /\ kind = "failed" => fate = "reverted"
              /\ \/ Settle(i, fate, kind)
                 \/ txs' = [txs EXCEPT ![i].fate = fate] /\ UNCHANGED inbox
  <1>1. CASE Receive(i)
    <2>1. db \in Database
      BY DEF Typed
    <2>2. QED
      BY <1>1, <2>1 DEF Receive, Fate, Kind
  <1>2. CASE Expire(i)
    <2>1. db \in Database
      BY DEF Typed
    <2>2. QED
      BY <1>2, <2>1 DEF Expire, Fate, Kind
  <1>3. CASE Accept(i)
    BY <1>3, AcceptChain DEF Fate, Kind
  <1>4. QED
    BY <1>1, <1>2, <1>3

(* A transfer that is taken up or settled, with or without a message.      *)
LEMMA FateTyped ==
  ASSUME Typed, NEW i \in DOMAIN txs, NEW fate \in Fate, NEW kind \in Kind,
         \/ Settle(i, fate, kind)
         \/ txs' = [txs EXCEPT ![i].fate = fate] /\ UNCHANGED inbox
  PROVE  /\ txs' \in Seq(TxRecord) /\ Len(txs') = Len(txs)
         /\ inbox' \in Seq(Message)
         /\ txs'[i].fate = fate
         /\ \A j \in 1 .. Len(txs) :
              /\ txs'[j].by = txs[j].by /\ txs'[j].to = txs[j].to
              /\ j # i => txs'[j] = txs[j]
         /\ \/ inbox' = inbox
            \/ inbox' = Append(inbox, [tx |-> i, kind |-> kind])
  <1>1. CASE Settle(i, fate, kind)
    BY <1>1, SettleTyped
  <1>2. CASE txs' = [txs EXCEPT ![i].fate = fate] /\ UNCHANGED inbox
    <2>1. txs[i] \in TxRecord /\ i \in 1 .. Len(txs)
      BY DEF Typed
    <2>2. [txs[i] EXCEPT !.fate = fate] \in TxRecord
      BY <2>1 DEF TxRecord
    <2>3. txs' = [txs EXCEPT ![i] = [txs[i] EXCEPT !.fate = fate]]
      BY <1>2
    <2>4. txs' \in Seq(TxRecord) /\ Len(txs') = Len(txs)
      BY <2>1, <2>2, <2>3 DEF Typed
    <2>5. \A j \in 1 .. Len(txs) :
            /\ txs'[j].by = txs[j].by /\ txs'[j].to = txs[j].to
            /\ j # i => txs'[j] = txs[j]
      BY <2>1, <2>3 DEF TxRecord, Typed
    <2>6. txs'[i].fate = fate
      BY <2>1, <2>3 DEF TxRecord, Typed
    <2>7. inbox' \in Seq(Message)
      BY <1>2 DEF Typed
    <2>8. QED
      BY <1>2, <2>4, <2>5, <2>6, <2>7
  <1>3. QED
    BY <1>1, <1>2

LEMMA RestartFrame ==
  ASSUME Typed, Restart
  PROVE  /\ db' = db /\ txs' = Unheard /\ inbox' = << >>
         /\ restarts' = restarts + 1 /\ restarts' \in 0 .. MaxRestarts
         /\ server' = "starting" /\ isReady' = FALSE /\ cached' = FALSE
         /\ pc' \in [Process -> Place]
         /\ pc'[Main] = "balance"
         /\ \A r \in Request : pc'[r] \in {"new", "answered"}
         /\ own' = [p \in Process |-> 0]
         /\ answer' \in [Request -> Reply]
         /\ \A r \in Request : answer'[r] \in {answer[r], "cut"}
  <1>1. /\ db' = db /\ txs' = Unheard /\ inbox' = << >>
        /\ restarts' = restarts + 1 /\ restarts < MaxRestarts
        /\ server' = "starting" /\ isReady' = FALSE /\ cached' = FALSE
        /\ own' = [p \in Process |-> 0]
    BY DEF Restart
  <1>2. restarts' \in 0 .. MaxRestarts
    BY <1>1, FaucetAssumption DEF Typed
  <1>3. /\ pc' \in [Process -> Place] /\ pc'[Main] = "balance"
        /\ \A r \in Request : pc'[r] \in {"new", "answered"}
    <2>1. pc' = [p \in Process |-> CASE p = Main                  -> "balance"
                                     [] p # Main /\ pc[p] = "new" -> "new"
                                     [] p # Main /\ pc[p] # "new" -> "answered"]
      BY DEF Restart
    <2>2. pc'[Main] = "balance"
      BY <2>1, Processes
    <2>3. \A r \in Process : r # Main => pc'[r] \in {"new", "answered"}
      BY <2>1
    <2>4. \A p \in Process : pc'[p] \in Place
      BY <2>2, <2>3 DEF Place
    <2>5. pc' = [p \in Process |-> pc'[p]]
      BY <2>1
    <2>6. QED
      BY <2>2, <2>3, <2>4, <2>5, Processes
  <1>4. /\ answer' \in [Request -> Reply]
        /\ \A r \in Request : answer'[r] \in {answer[r], "cut"}
    <2>1. answer' = [r \in Request |->
                       IF pc[r] \in {"new", "answered"} THEN answer[r] ELSE "cut"]
      BY DEF Restart
    <2>2. QED
      BY <2>1 DEF Typed, Reply
  <1>5. QED
    BY <1>1, <1>2, <1>3, <1>4

LEMMA NextTyped ==
  ASSUME Typed, ServedAfterStart, [Next]_vars
  PROVE  Typed'
  <1>1. ASSUME NEW p \in Process, Quietly(p) PROVE Typed'
    <2>1. /\ pc' \in [Process -> Place] /\ own' \in [Process -> Nat]
          /\ answer' \in [Request -> Reply]
      BY <1>1, QuietlyFrame, ReturnTyped, GotoTyped DEF Quiet
    <2>2. QED
      BY <1>1, <2>1, QuietlyFrame DEF Typed
  <1>2. ASSUME NEW p \in Process, RegisterTx(p) PROVE Typed'
    <2>1. CASE txs' = txs /\ Return(p, "registerErr")
      <3>1. /\ pc' \in [Process -> Place] /\ own' \in [Process -> Nat]
            /\ answer' \in [Request -> Reply]
        BY <2>1, ReturnTyped DEF Reply
      <3>2. QED
        BY <1>2, <2>1, <3>1, RegisterFrame DEF Typed
    <2>2. CASE /\ txs' = Append(txs, NewTx(p))
               /\ own' = [own EXCEPT ![p] = Len(txs) + 1]
               /\ pc' = [pc EXCEPT ![p] = "listen"]
               /\ UNCHANGED <<server, isReady, answer>>
      <3>1. NewTx(p) \in TxRecord /\ UNCHANGED <<db, inbox, restarts>>
        BY <1>2, RegisterFrame
      <3>2. txs' \in Seq(TxRecord)
        BY <2>2, <3>1 DEF Typed
      <3>3. Len(txs) + 1 \in Nat
        BY DEF Typed
      <3>4. own' \in [Process -> Nat] /\ pc' \in [Process -> Place]
        BY <2>2, <3>3 DEF Typed, Place
      <3>5. QED
        BY <2>2, <3>1, <3>2, <3>4 DEF Typed
    <2>3. QED
      BY <1>2, <2>1, <2>2, RegisterFrame
  <1>3. ASSUME NEW p \in Process, ListenTx(p) PROVE Typed'
    <2>1. /\ pc' \in [Process -> Place] /\ own' \in [Process -> Nat]
          /\ answer' \in [Request -> Reply]
      BY <1>3, ListenFrame, ReturnTyped, GotoTyped DEF Reply, Place
    <2>2. inbox' \in Seq(Message)
      <3>1. inbox \in Seq(Message) /\ Len(inbox) > 0 /\ inbox' = Tail(inbox)
        BY <1>3, ListenFrame DEF Typed
      <3>2. inbox # << >>
        BY <3>1
      <3>3. QED
        BY <3>1, <3>2
    <2>3. QED
      BY <1>3, <2>1, <2>2, ListenFrame DEF Typed
  <1>4. CASE Serve
    BY <1>4, Processes DEF Serve, Typed, Place
  <1>5. ASSUME NEW a \in Remote, Refill(a) PROVE Typed'
    BY <1>5 DEF Refill, Typed
  <1>6. ASSUME NEW i \in DOMAIN txs, Receive(i) \/ Accept(i) \/ Expire(i) PROVE Typed'
    <2>1. txs' \in Seq(TxRecord) /\ inbox' \in Seq(Message)
      BY <1>6, NodeFrame, FateTyped
    <2>2. QED
      BY <1>6, <2>1, NodeFrame DEF Typed, process
  <1>7. CASE LoseConnection
    <2>1. txs' = Unheard /\ UNCHANGED <<db, inbox, restarts, pc, own, answer>>
      BY <1>7 DEF LoseConnection, process
    <2>2. txs' \in Seq(TxRecord)
      BY <2>1, UnheardTyped
    <2>3. QED
      BY <2>1, <2>2 DEF Typed
  <1>8. CASE Restart
    <2>1. /\ db' = db /\ txs' = Unheard /\ inbox' = << >>
          /\ restarts' \in 0 .. MaxRestarts
          /\ pc' \in [Process -> Place]
          /\ own' = [p \in Process |-> 0]
          /\ answer' \in [Request -> Reply]
      BY <1>8, RestartFrame
    <2>2. txs' \in Seq(TxRecord) /\ inbox' \in Seq(Message) /\ own' \in [Process -> Nat]
      BY <2>1, UnheardTyped
    <2>3. QED
      BY <2>1, <2>2 DEF Typed
  <1>9. CASE UNCHANGED vars
    BY <1>9 DEF vars, node, process, Typed
  <1>10. QED
    BY <1>1, <1>2, <1>3, <1>4, <1>5, <1>6, <1>7, <1>8, <1>9, Steps
-----------------------------------------------------------------------------
(* Transfers stay in the list, and what they came to is final.             *)
Kept ==
  /\ Len(txs) <= Len(txs')
  /\ \A i \in 1 .. Len(txs) :
       /\ txs'[i].by = txs[i].by /\ txs'[i].to = txs[i].to
       /\ txs[i].fate \in {"paid", "reverted"} => txs'[i].fate = txs[i].fate

LEMMA NextKept ==
  ASSUME Typed, ServedAfterStart, [Next]_vars
  PROVE  Kept
  <1>0. Len(txs) \in Nat
    BY DEF Typed
  <1>1. CASE txs' = txs
    BY <1>0, <1>1 DEF Kept
  <1>2. ASSUME NEW p \in Process, txs' = Append(txs, NewTx(p)) PROVE Kept
    BY <1>0, <1>2 DEF Kept, Typed
  <1>3. CASE txs' = Unheard
    BY <1>0, <1>3, UnheardTyped DEF Kept
  <1>4. ASSUME NEW i \in DOMAIN txs, Receive(i) \/ Accept(i) \/ Expire(i) PROVE Kept
    <2>1. PICK fate \in Fate, kind \in Kind :
              /\ txs[i].fate \notin {"paid", "reverted"}
              /\ \/ Settle(i, fate, kind)
                 \/ txs' = [txs EXCEPT ![i].fate = fate] /\ UNCHANGED inbox
      BY <1>4, NodeFrame
    <2>2. /\ Len(txs') = Len(txs)
          /\ \A j \in 1 .. Len(txs) :
               /\ txs'[j].by = txs[j].by /\ txs'[j].to = txs[j].to
               /\ j # i => txs'[j] = txs[j]
      BY <2>1, FateTyped
    <2>3. QED
      BY <1>0, <2>1, <2>2 DEF Kept
  <1>5. ASSUME NEW p \in Process, Quietly(p) \/ RegisterTx(p) \/ ListenTx(p)
        PROVE  txs' = txs \/ txs' = Append(txs, NewTx(p))
    BY <1>5, QuietlyFrame, RegisterFrame, ListenFrame
  <1>6. CASE Serve \/ (\E a \in Remote : Refill(a)) \/ UNCHANGED vars
    BY <1>1, <1>6 DEF Serve, Refill, vars, node
  <1>7. CASE LoseConnection \/ Restart
    BY <1>3, <1>7 DEF LoseConnection, Restart
  <1>8. QED
    BY <1>1, <1>2, <1>4, <1>5, <1>6, <1>7, Steps

(* How the queue of messages changes. *)
LEMMA NextTruthful ==
  ASSUME Typed, ServedAfterStart, Truthful, [Next]_vars
  PROVE  Truthful'
  <1>1. /\ Kept
        /\ Len(txs) \in Nat /\ Len(txs') \in Nat /\ Len(inbox) \in Nat
    BY NextKept, NextTyped DEF Typed
  <1>2. ASSUME NEW k \in 1 .. Len(inbox)
        PROVE  /\ inbox[k].tx \in 1 .. Len(txs')
               /\ inbox[k].kind = "ok"     => txs'[inbox[k].tx].fate = "paid"
               /\ inbox[k].kind = "failed" => txs'[inbox[k].tx].fate = "reverted"
    <2> DEFINE i == inbox[k].tx
    <2>1. /\ i \in 1 .. Len(txs)
          /\ inbox[k].kind = "ok"     => txs[i].fate = "paid"
          /\ inbox[k].kind = "failed" => txs[i].fate = "reverted"
      BY DEF Truthful
    <2> HIDE DEF i
    <2>2. txs[i].fate \in {"paid", "reverted"} => txs'[i].fate = txs[i].fate
      BY <1>1, <2>1 DEF Kept
    <2>3. i \in 1 .. Len(txs')
      BY <1>1, <2>1 DEF Kept
    <2>4. QED
      BY <2>1, <2>2, <2>3 DEF i
  <1>3. CASE inbox' = << >> \/ inbox' = inbox
    BY <1>2, <1>3 DEF Truthful
  <1>4. CASE Len(inbox) > 0 /\ inbox' = Tail(inbox)
    <2>1. inbox \in Seq(Message) /\ inbox # << >>
      BY <1>4 DEF Typed
    <2>2. Len(inbox') = Len(inbox) - 1
      BY <1>4, <2>1
    <2>3. \A k \in 1 .. Len(inbox') : inbox'[k] = inbox[k + 1] /\ k + 1 \in 1 .. Len(inbox)
      BY <1>4, <2>1, <2>2
    <2>4. QED
      BY <1>2, <2>3 DEF Truthful
  <1>5. ASSUME NEW i \in DOMAIN txs, Receive(i) \/ Accept(i) \/ Expire(i)
        PROVE  Truthful'
    <2>1. PICK fate \in Fate, kind \in Kind :
              /\ kind = "ok" => fate = "paid"
              /\ kind = "failed" => fate = "reverted"
              /\ \/ Settle(i, fate, kind)
                 \/ txs' = [txs EXCEPT ![i].fate = fate] /\ UNCHANGED inbox
      BY <1>5, NodeFrame
    <2> DEFINE message == [tx |-> i, kind |-> kind]
    <2>2. /\ Len(txs') = Len(txs)
          /\ txs'[i].fate = fate
          /\ inbox' = inbox \/ inbox' = Append(inbox, message)
      BY <2>1, FateTyped
    <2>3. i \in 1 .. Len(txs')
      BY <2>2 DEF Typed
    <2>4. message.tx = i /\ message.kind = kind
      OBVIOUS
    <2> HIDE DEF message
    <2>5. CASE inbox' = Append(inbox, message)
      <3>1. /\ Len(inbox') = Len(inbox) + 1
            /\ inbox'[Len(inbox) + 1] = message
            /\ \A k \in 1 .. Len(inbox) : inbox'[k] = inbox[k]
        BY <2>5 DEF Typed
      <3>2. \A k \in 1 .. Len(inbox') : k \in 1 .. Len(inbox) \/ k = Len(inbox) + 1
        BY <1>1, <3>1
      <3>3. ASSUME NEW k \in 1 .. Len(inbox)
            PROVE  /\ inbox'[k].tx \in 1 .. Len(txs')
                   /\ inbox'[k].kind = "ok"     => txs'[inbox'[k].tx].fate = "paid"
                   /\ inbox'[k].kind = "failed" => txs'[inbox'[k].tx].fate = "reverted"
        BY <1>2, <3>1
      <3>4. QED
        BY <2>1, <2>2, <2>3, <2>4, <3>1, <3>2, <3>3 DEF Truthful
    <2>6. QED
      BY <1>3, <2>2, <2>5
  <1>6. ASSUME NEW p \in Process, Quietly(p) \/ RegisterTx(p) \/ ListenTx(p)
        PROVE  inbox' = inbox \/ (Len(inbox) > 0 /\ inbox' = Tail(inbox))
    BY <1>6, QuietlyFrame, RegisterFrame, ListenFrame
  <1>7. CASE Serve \/ (\E a \in Remote : Refill(a)) \/ LoseConnection \/ UNCHANGED vars
    BY <1>3, <1>7 DEF Serve, Refill, LoseConnection, vars
  <1>8. CASE Restart
    BY <1>3, <1>8 DEF Restart
  <1>9. QED
    BY <1>3, <1>4, <1>5, <1>6, <1>7, <1>8, Steps

LEMMA NextOwnIsMine ==
  ASSUME Typed, ServedAfterStart, OwnIsMine, [Next]_vars
  PROVE  OwnIsMine'
  <1>1. /\ Kept
        /\ Len(txs) \in Nat /\ Len(txs') \in Nat
        /\ own \in [Process -> Nat]
    BY NextKept, NextTyped DEF Typed
  <1>2. CASE own' = own /\ restarts' = restarts
    BY <1>1, <1>2 DEF OwnIsMine, Kept, AddressOf
  <1>3. ASSUME NEW p \in Process, own' = [own EXCEPT ![p] = 0], restarts' = restarts
        PROVE  OwnIsMine'
    BY <1>1, <1>3 DEF OwnIsMine, Kept, AddressOf
  <1>4. ASSUME NEW p \in Process, txs' = Append(txs, NewTx(p)),
               own' = [own EXCEPT ![p] = Len(txs) + 1], restarts' = restarts
        PROVE  OwnIsMine'
    <2>1. Len(txs') = Len(txs) + 1 /\ txs'[Len(txs) + 1] = NewTx(p)
      BY <1>4 DEF Typed
    <2>2. NewTx(p).by = p /\ NewTx(p).to = AddressOf(p)'
      BY <1>4 DEF NewTx, AddressOf
    <2>3. own'[p] = Len(txs) + 1 /\ \A q \in Process : q # p => own'[q] = own[q]
      BY <1>1, <1>4
    <2>4. QED
      BY <1>1, <1>4, <2>1, <2>2, <2>3 DEF OwnIsMine, Kept, AddressOf
  <1>5. CASE own' = [p \in Process |-> 0]
    BY <1>5 DEF OwnIsMine
  <1>6. ASSUME NEW p \in Process, Quietly(p) PROVE OwnIsMine'
    BY <1>2, <1>3, <1>6, QuietlyFrame, ReturnEnds DEF Goto, Quiet
  <1>7. ASSUME NEW p \in Process, RegisterTx(p) PROVE OwnIsMine'
    BY <1>3, <1>4, <1>7, RegisterFrame, ReturnEnds DEF Reply
  <1>8. ASSUME NEW p \in Process, ListenTx(p) PROVE OwnIsMine'
    BY <1>2, <1>3, <1>8, ListenFrame, ReturnEnds DEF Goto, Reply
  <1>9. ASSUME NEW i \in DOMAIN txs, Receive(i) \/ Accept(i) \/ Expire(i)
        PROVE  OwnIsMine'
    BY <1>2, <1>9, NodeFrame DEF process
  <1>10. CASE Serve \/ (\E a \in Remote : Refill(a)) \/ LoseConnection \/ UNCHANGED vars
    BY <1>2, <1>10 DEF Serve, Refill, LoseConnection, vars, process
  <1>11. CASE Restart
    BY <1>5, <1>11 DEF Restart
  <1>12. QED
    BY <1>6, <1>7, <1>8, <1>9, <1>10, <1>11, Steps
-----------------------------------------------------------------------------
(* Random addresses are drawn once, and no request names one. *)
LEMMA RandomApart ==
  ASSUME NEW n \in 0 .. MaxRestarts
  PROVE  /\ readyAddress[n] \in Address
         /\ \A r \in Request : target[r] # readyAddress[n]
         /\ \A m \in 0 .. MaxRestarts : readyAddress[m] = readyAddress[n] => m = n
  BY FaucetAssumption

LEMMA NextRandomIsMains ==
  ASSUME Typed, ServedAfterStart, RandomIsMains, [Next]_vars
  PROVE  RandomIsMains'
  <1>1. /\ Kept
        /\ Len(txs) \in Nat /\ Len(txs') \in Nat
        /\ restarts \in Nat /\ restarts' \in Nat
    BY NextKept, NextTyped DEF Typed
  <1>2. SUFFICES ASSUME NEW n \in 0 .. MaxRestarts
                 PROVE  /\ \A i \in 1 .. Len(txs') :
                             txs'[i].to = readyAddress[n] =>
                               txs'[i].by = Main /\ n <= restarts'
                        /\ db'[readyAddress[n]] # Absent =>
                             \E i \in 1 .. Len(txs') :
                               /\ txs'[i].to = readyAddress[n]
                               /\ txs'[i].fate = "paid"
    BY DEF RandomIsMains
  <1> DEFINE a == readyAddress[n]
  <1>3. /\ \A i \in 1 .. Len(txs) : txs[i].to = a => txs[i].by = Main /\ n <= restarts
        /\ db[a] # Absent =>
             \E i \in 1 .. Len(txs) : txs[i].to = a /\ txs[i].fate = "paid"
    BY DEF RandomIsMains
  <1>4. a \in Address /\ \A r \in Request : target[r] # a
    BY RandomApart
  <1> HIDE DEF a
  <1>5. restarts <= restarts'
    <2>1. CASE Restart
      BY <1>1, <2>1, RestartFrame
    <2>2. CASE UNCHANGED restarts
      BY <1>1, <2>2
    <2>3. ASSUME NEW p \in Process, Quietly(p) \/ RegisterTx(p) \/ ListenTx(p)
          PROVE  UNCHANGED restarts
      BY <2>3, QuietlyFrame, RegisterFrame, ListenFrame
    <2>4. ASSUME NEW i \in DOMAIN txs, Receive(i) \/ Accept(i) \/ Expire(i)
          PROVE  UNCHANGED restarts
      BY <2>4, NodeFrame DEF process
    <2>5. CASE Serve \/ (\E x \in Remote : Refill(x)) \/ LoseConnection \/ UNCHANGED vars
      BY <2>2, <2>5 DEF Serve, Refill, LoseConnection, vars, process
    <2>6. QED
      BY <2>1, <2>2, <2>3, <2>4, <2>5, Steps
  <1>6. \A i \in 1 .. Len(txs) :
          txs'[i].to = a => txs'[i].by = Main /\ n <= restarts'
    BY <1>1, <1>3, <1>5 DEF Kept
  <1>7. (\E i \in 1 .. Len(txs) : txs[i].to = a /\ txs[i].fate = "paid") =>
          \E i \in 1 .. Len(txs') : txs'[i].to = a /\ txs'[i].fate = "paid"
    BY <1>1 DEF Kept
  <1>8. CASE Len(txs') = Len(txs) /\ db' = db
    BY <1>3, <1>6, <1>7, <1>8 DEF a
  <1>9. ASSUME NEW p \in Process, RegisterTx(p), txs' = Append(txs, NewTx(p))
        PROVE  /\ \A i \in 1 .. Len(txs') :
                    txs'[i].to = a => txs'[i].by = Main /\ n <= restarts'
               /\ db' = db
    <2>1. /\ Len(txs') = Len(txs) + 1 /\ txs'[Len(txs) + 1] = NewTx(p)
          /\ NewTx(p).to = AddressOf(p) /\ NewTx(p).by = p
      BY <1>9 DEF Typed, NewTx
    <2>2. AddressOf(p) = a => p = Main /\ n = restarts
      BY <1>4, Processes, RandomApart DEF AddressOf, a, Typed
    <2>3. \A i \in 1 .. Len(txs') : i \in 1 .. Len(txs) \/ i = Len(txs) + 1
      BY <1>1, <2>1
    <2>4. db' = db /\ restarts' = restarts
      BY <1>9, RegisterFrame
    <2>5. QED
      BY <1>1, <1>6, <2>1, <2>2, <2>3, <2>4
  <1>10. ASSUME NEW i \in DOMAIN txs, Receive(i) \/ Accept(i) \/ Expire(i)
         PROVE  /\ Len(txs') = Len(txs)
                /\ db'[a] # Absent =>
                     \E j \in 1 .. Len(txs') : txs'[j].to = a /\ txs'[j].fate = "paid"
    <2>1. Len(txs') = Len(txs) /\ i \in 1 .. Len(txs) /\ txs'[i].to = txs[i].to
      <3>1. PICK fate \in Fate, kind \in Kind :
                \/ Settle(i, fate, kind)
                \/ txs' = [txs EXCEPT ![i].fate = fate] /\ UNCHANGED inbox
        BY <1>10, NodeFrame
      <3>2. i \in 1 .. Len(txs)
        BY DEF Typed
      <3>3. QED
        BY <3>1, <3>2, FateTyped
    <2>2. db[a] = Absent /\ db'[a] # Absent => txs[i].to = a /\ txs'[i].fate = "paid"
      BY <1>4, <1>10, NodeFrame
    <2>3. QED
      BY <1>3, <1>7, <2>1, <2>2
  <1>11. ASSUME NEW p \in Process, Quietly(p) \/ RegisterTx(p) \/ ListenTx(p)
         PROVE  \/ Len(txs') = Len(txs) /\ db' = db
                \/ RegisterTx(p) /\ txs' = Append(txs, NewTx(p))
    BY <1>11, QuietlyFrame, RegisterFrame, ListenFrame
  <1>12. CASE Serve \/ (\E x \in Remote : Refill(x)) \/ UNCHANGED vars
    BY <1>8, <1>12 DEF Serve, Refill, vars, node
  <1>13. CASE LoseConnection \/ Restart
    BY <1>8, <1>13, UnheardTyped DEF LoseConnection, Restart
  <1>14. QED
    BY <1>3, <1>6, <1>7, <1>8, <1>9, <1>10, <1>11, <1>12, <1>13, Steps DEF a
-----------------------------------------------------------------------------
(* Where a goroutine is when it takes a step. *)
Working == {"balance", "parser", "fetch", "generate", "listen"}

LEMMA QuietlyAt ==
  ASSUME NEW p \in Process, Quietly(p)
  PROVE  \/ /\ p \in Request /\ pc[p] = "new" /\ server = "serving"
            /\ cached' = cached
            /\ \/ target[p] # BadAddress /\ Goto(p, "balance")
               \/ \E kind \in Quiet(p) : Return(p, kind)
         \/ /\ pc[p] \in Working
            /\ \/ \E kind \in Quiet(p) : Return(p, kind) /\ cached' = cached
               \/ Goto(p, "parser") /\ cached' = cached
               \/ Goto(p, "fetch") /\ ~ cached /\ cached' = cached
               \/ Goto(p, "generate") /\ cached'
  <1>1. CASE p \in Request /\ HandleRequest(p)
    <2>1. p # Main
      BY <1>1, Processes
    <2>2. \/ Answer(p, "limited") \/ Answer(p, "badAddress")
          \/ target[p] # BadAddress /\ Goto(p, "balance")
      BY <1>1 DEF HandleRequest
    <2>3. {"limited", "badAddress"} \subseteq Quiet(p)
      BY DEF Quiet, Reply
    <2>4. \A kind \in {"limited", "badAddress"} : Answer(p, kind) => Return(p, kind)
      BY <2>1 DEF Return
    <2>5. pc[p] = "new" /\ server = "serving" /\ cached' = cached
      BY <1>1 DEF HandleRequest
    <2>6. QED
      BY <1>1, <2>2, <2>3, <2>4, <2>5
  <1>2. CASE CheckBalance(p)
    BY <1>2 DEF CheckBalance, BalanceReply, Quiet, Reply, Working
  <1>3. CASE ReadGenesis(p)
    BY <1>3 DEF ReadGenesis, Working
  <1>4. CASE FetchGenesis(p)
    BY <1>4 DEF FetchGenesis, Working
  <1>5. CASE CallFails(p)
    BY <1>5 DEF CallFails, Quiet, Reply, Working
  <1>6. CASE ListenFails(p)
    BY <1>6 DEF ListenFails, Quiet, Reply, Working
  <1>7. CASE Deadline(p)
    BY <1>7 DEF Deadline, Quiet, Reply, Working
  <1>8. QED
    BY <1>1, <1>2, <1>3, <1>4, <1>5, <1>6, <1>7 DEF Quietly

(* A working goroutine returns, or goes on without a change of server.     *)
LEMMA WorkingServed ==
  ASSUME Typed, ServedAfterStart, NEW p \in Process, pc[p] \in Working,
         \/ \E kind \in Reply : Return(p, kind)
         \/ /\ \E place \in Working : pc' = [pc EXCEPT ![p] = place]
            /\ server' = server
  PROVE  ServedAfterStart'
  <1>1. pc \in [Process -> Place] /\ Main \in Process /\ Request \subseteq Process
    BY Processes DEF Typed
  <1>2. \E place \in Place : pc' = [pc EXCEPT ![p] = place]
    BY ReturnEnds DEF Working, Place
  <1>3. CASE p = Main
    <2>1. /\ server # "serving"
          /\ \A r \in Request : pc[r] \in {"new", "answered"}
      BY <1>3 DEF ServedAfterStart, Working
    <2>2. server' # "serving"
      BY <1>3, <2>1, ReturnEnds
    <2>3. \A r \in Request : pc'[r] = pc[r]
      BY <1>1, <1>2, <1>3, Processes
    <2>4. QED
      BY <2>1, <2>2, <2>3 DEF ServedAfterStart
  <1>4. CASE p # Main
    <2>1. p \in Request /\ pc[Main] = "serving" /\ target[p] # BadAddress
      BY <1>4, Processes DEF ServedAfterStart, Working
    <2>2. pc'[Main] = pc[Main] /\ \A r \in Request : r # p => pc'[r] = pc[r]
      BY <1>1, <1>2, <1>4
    <2>3. QED
      BY <2>1, <2>2 DEF ServedAfterStart
  <1>5. QED
    BY <1>3, <1>4

LEMMA NextServedAfterStart ==
  ASSUME Typed, ServedAfterStart, [Next]_vars
  PROVE  ServedAfterStart'
  <1>0. pc \in [Process -> Place] /\ Main \in Process /\ Request \subseteq Process
    BY Processes DEF Typed
  <1>1. ASSUME NEW p \in Process, Quietly(p) PROVE ServedAfterStart'
    <2>1. CASE /\ p \in Request /\ pc[p] = "new" /\ server = "serving"
               /\ \/ target[p] # BadAddress /\ Goto(p, "balance")
                  \/ \E kind \in Quiet(p) : Return(p, kind)
      <3>1. p # Main /\ pc[Main] = "serving"
        BY <2>1, Processes DEF ServedAfterStart
      <3>2. /\ \A q \in Process : q # p => pc'[q] = pc[q]
            /\ pc'[p] # "answered" => target[p] # BadAddress
        BY <1>0, <2>1, <3>1, ReturnEnds DEF Goto, Quiet
      <3>3. QED
        BY <1>0, <3>1, <3>2 DEF ServedAfterStart
    <2>2. CASE /\ pc[p] \in Working
               /\ \/ \E kind \in Quiet(p) : Return(p, kind)
                  \/ Goto(p, "parser") \/ Goto(p, "fetch") \/ Goto(p, "generate")
      BY <2>2, WorkingServed DEF Goto, Working, Quiet
    <2>3. QED
      BY <1>1, <2>1, <2>2, QuietlyAt
  <1>2. ASSUME NEW p \in Process, RegisterTx(p) PROVE ServedAfterStart'
    BY <1>2, RegisterFrame, WorkingServed DEF Working, Reply
  <1>3. ASSUME NEW p \in Process, ListenTx(p) PROVE ServedAfterStart'
    BY <1>3, ListenFrame, WorkingServed DEF Working, Reply, Goto
  <1>4. CASE Serve
    <2>1. /\ \A r \in Request : pc[r] \in {"new", "answered"} /\ pc'[r] = pc[r]
          /\ server' = "serving" => pc'[Main] = "serving"
      BY <1>0, <1>4, Processes DEF Serve, ServedAfterStart
    <2>2. QED
      BY <2>1 DEF ServedAfterStart
  <1>5. CASE UNCHANGED <<pc, server>>
    BY <1>5 DEF ServedAfterStart
  <1>6. ASSUME NEW i \in DOMAIN txs, Receive(i) \/ Accept(i) \/ Expire(i)
        PROVE  UNCHANGED <<pc, server>>
    BY <1>6, NodeFrame DEF process
  <1>7. CASE (\E a \in Remote : Refill(a)) \/ LoseConnection \/ UNCHANGED vars
    BY <1>5, <1>7 DEF Refill, LoseConnection, vars, process
  <1>8. CASE Restart
    BY <1>8, RestartFrame DEF ServedAfterStart
  <1>9. QED
    BY <1>1, <1>2, <1>3, <1>4, <1>5, <1>6, <1>7, <1>8, Steps
-----------------------------------------------------------------------------
(* A balance above the threshold is no missing record. *)
LEMMA EnoughMeansPaid ==
  ASSUME Typed, RandomIsMains, NEW kind \in Quiet(Main), kind = "enough"
  PROVE  \E i \in 1 .. Len(txs) : /\ txs[i].to = readyAddress[restarts]
                                  /\ txs[i].by = Main
                                  /\ txs[i].fate = "paid"
  <1> DEFINE a == readyAddress[restarts]
  <1>1. GetBalance(db, a) > Threshold
    BY DEF Quiet, AddressOf
  <1>2. Threshold \in Nat
    BY FaucetAssumption, BalanceNat
  <1>3. restarts \in 0 .. MaxRestarts /\ a \in Address /\ db \in Database
    BY RandomApart DEF Typed
  <1>4. db[a] # Absent
    BY <1>1, <1>2 DEF GetBalance
  <1>5. QED
    BY <1>3, <1>4 DEF RandomIsMains

(* A goroutine that makes or awaits a transfer has fetched the genesis.    *)
LEMMA WorkedFetched ==
  ASSUME ServedAfterStart, FetchedBefore, NEW p \in Process,
         pc[p] \in {"generate", "listen"} \/ (p # Main /\ pc[p] \in Working)
  PROVE  cached
  <1>1. CASE p = Main
    BY <1>1 DEF FetchedBefore
  <1>2. CASE p # Main
    BY <1>2, Processes DEF FetchedBefore, ServedAfterStart, Working
  <1>3. QED
    BY <1>1, <1>2

(* A goroutine that goes on to a place other than "fetch", with the        *)
(* genesis in the cache, leaves FetchedBefore true.                        *)
LEMMA MoveFetched ==
  ASSUME Typed, FetchedBefore, cached, cached', NEW p \in Process,
         NEW place \in Place \ {"fetch"}, pc' = [pc EXCEPT ![p] = place]
  PROVE  FetchedBefore'
  <1>1. \A r \in Request : r \in Process /\ pc[r] # "fetch"
    BY Processes DEF FetchedBefore
  <1>2. \A r \in Request : pc'[r] # "fetch"
    BY <1>1 DEF Typed
  <1>3. QED
    BY <1>2 DEF FetchedBefore

LEMMA NextFetchedBefore ==
  ASSUME Typed, ServedAfterStart, RandomIsMains, FetchedBefore, [Next]_vars
  PROVE  FetchedBefore'
  <1>0. /\ pc \in [Process -> Place] /\ Main \in Process /\ Request \subseteq Process
        /\ Main \notin Request /\ Len(txs) \in Nat
    BY Processes DEF Typed
  <1>1. ASSUME NEW p \in Process, Quietly(p) PROVE FetchedBefore'
    <2>1. UNCHANGED <<txs, restarts>>
      BY <1>1, QuietlyFrame
    <2>2. CASE p # Main
      <3>1. /\ cached' = cached /\ pc'[Main] = pc[Main]
            /\ \E place \in Place : pc' = [pc EXCEPT ![p] = place]
            /\ pc'[p] # "fetch"
        <4>1. CASE /\ pc[p] = "new" /\ cached' = cached
                   /\ \/ target[p] # BadAddress /\ Goto(p, "balance")
                      \/ \E kind \in Quiet(p) : Return(p, kind)
          BY <1>0, <2>2, <4>1, ReturnEnds DEF Goto, Place, Quiet
        <4>2. CASE /\ pc[p] \in Working
                   /\ \/ \E kind \in Quiet(p) : Return(p, kind) /\ cached' = cached
                      \/ Goto(p, "parser") /\ cached' = cached
                      \/ Goto(p, "fetch") /\ ~ cached /\ cached' = cached
                      \/ Goto(p, "generate") /\ cached'
          <5>1. cached
            BY <2>2, <4>2, WorkedFetched
          <5>2. cached' = cached
            BY <1>1, <4>2, <5>1 DEF Quietly, HandleRequest, CheckBalance, ReadGenesis,
               FetchGenesis, CallFails, ListenFails, Deadline, Working
          <5>3. QED
            BY <1>0, <2>2, <4>2, <5>1, <5>2, ReturnEnds DEF Goto, Place, Quiet
        <4>3. QED
          BY <1>1, <4>1, <4>2, QuietlyAt
      <3>2. \A r \in Request : pc'[r] # "fetch"
        BY <1>0, <3>1 DEF FetchedBefore
      <3>3. QED
        BY <2>1, <3>1, <3>2 DEF FetchedBefore
    <2>3. CASE p = Main
      <3>1. \A place : pc' = [pc EXCEPT ![p] = place] =>
              \A r \in Request : pc'[r] # "fetch"
        BY <1>0, <2>3 DEF FetchedBefore
      <3>2. ASSUME NEW kind \in Quiet(p), Return(p, kind), cached' = cached
            PROVE  FetchedBefore'
        <4>1. CASE kind = "enough"
          <5>1. cached
            BY <2>3, <4>1, EnoughMeansPaid DEF FetchedBefore
          <5>2. QED
            BY <2>1, <3>1, <3>2, <5>1, ReturnEnds DEF FetchedBefore, Quiet
        <4>2. CASE kind # "enough"
          <5>1. pc'[Main] \in {"balance", "exited"}
            BY <1>0, <2>3, <3>2, <4>2, ReturnEnds DEF Quiet
          <5>2. QED
            BY <2>1, <3>1, <3>2, <5>1, ReturnEnds DEF FetchedBefore, Quiet
        <4>3. QED
          BY <4>1, <4>2
      <3>3. CASE Goto(p, "parser") /\ cached' = cached
        BY <1>0, <2>1, <2>3, <3>1, <3>3 DEF Goto, FetchedBefore
      <3>4. CASE Goto(p, "fetch") /\ cached' = cached
        BY <1>0, <2>1, <2>3, <3>1, <3>4 DEF Goto, FetchedBefore
      <3>5. CASE Goto(p, "generate") /\ cached'
        BY <1>0, <2>1, <2>3, <3>1, <3>5 DEF Goto, FetchedBefore
      <3>6. p \notin Request
        BY <1>0, <2>3
      <3>7. QED
        BY <1>1, <3>2, <3>3, <3>4, <3>5, <3>6, QuietlyAt
    <2>4. QED
      BY <2>2, <2>3
  <1>2. ASSUME NEW p \in Process, RegisterTx(p) PROVE FetchedBefore'
    <2>0. pc[p] \in {"generate", "listen"} /\ cached' = cached
      BY <1>2, RegisterFrame
    <2>1. cached /\ cached'
      BY <2>0, WorkedFetched
    <2>2. \E place \in Place \ {"fetch"} : pc' = [pc EXCEPT ![p] = place]
      BY <1>2, RegisterFrame, ReturnEnds DEF Place, Reply
    <2>3. QED
      BY <2>1, <2>2, MoveFetched
  <1>3. ASSUME NEW p \in Process, ListenTx(p) PROVE FetchedBefore'
    <2>0. pc[p] \in {"generate", "listen"} /\ cached' = cached
      BY <1>3, ListenFrame
    <2>1. cached /\ cached'
      BY <2>0, WorkedFetched
    <2>2. \E place \in Place \ {"fetch"} : pc' = [pc EXCEPT ![p] = place]
      BY <1>3, ListenFrame, ReturnEnds DEF Place, Reply, Goto
    <2>3. QED
      BY <2>1, <2>2, MoveFetched
  <1>4. CASE Serve
    <2>1. cached /\ cached' = cached
      BY <1>4 DEF Serve, FetchedBefore
    <2>2. \E place \in Place \ {"fetch"} : pc' = [pc EXCEPT ![Main] = place]
      BY <1>4 DEF Serve, Place
    <2>3. QED
      BY <1>0, <2>1, <2>2, MoveFetched
  <1>5. CASE UNCHANGED <<pc, cached, restarts>> /\ Len(txs') = Len(txs)
             /\ \A i \in 1 .. Len(txs) : txs'[i].to = txs[i].to
    BY <1>5 DEF FetchedBefore
  <1>6. ASSUME NEW i \in DOMAIN txs, Receive(i) \/ Accept(i) \/ Expire(i)
        PROVE  FetchedBefore'
    <2>1. PICK fate \in Fate, kind \in Kind :
            \/ Settle(i, fate, kind)
            \/ txs' = [txs EXCEPT ![i].fate = fate] /\ UNCHANGED inbox
      BY <1>6, NodeFrame
    <2>2. Len(txs') = Len(txs) /\ \A j \in 1 .. Len(txs) : txs'[j].to = txs[j].to
      BY <2>1, FateTyped
    <2>3. UNCHANGED <<pc, cached, restarts>>
      BY <1>6, NodeFrame DEF process
    <2>4. QED
      BY <1>5, <2>2, <2>3
  <1>7. CASE (\E a \in Remote : Refill(a)) \/ UNCHANGED vars
    BY <1>5, <1>7 DEF Refill, vars, node, process
  <1>8. CASE LoseConnection
    BY <1>5, <1>8, UnheardTyped DEF LoseConnection, process
  <1>9. CASE Restart
    <2>0. restarts \in Nat
      BY DEF Typed
    <2>1. /\ restarts' = restarts + 1 /\ restarts' \in 0 .. MaxRestarts
          /\ pc'[Main] = "balance" /\ \A r \in Request : pc'[r] \in {"new", "answered"}
      BY <1>9, RestartFrame
    <2>2. /\ Len(txs') = Len(txs)
          /\ \A j \in 1 .. Len(txs) : txs'[j].to = txs[j].to
      BY <1>9, UnheardTyped, RestartFrame
    <2>3. \A i \in 1 .. Len(txs) : txs[i].to # readyAddress[restarts']
      BY <2>0, <2>1 DEF RandomIsMains
    <2>4. QED
      BY <2>1, <2>2, <2>3 DEF FetchedBefore
  <1>10. QED
    BY <1>1, <1>2, <1>3, <1>4, <1>6, <1>7, <1>8, <1>9, Steps
-----------------------------------------------------------------------------
(* The answers that state a result are given with a message in hand.       *)
LEMMA ResultKept ==
  ASSUME Typed, Typed', ResultIsOwn, Kept,
         \A r \in Request : answer'[r] \in {"sent", "txFailed"} => answer'[r] = answer[r]
  PROVE  ResultIsOwn'
  <1>1. /\ DOMAIN txs = 1 .. Len(txs)
        /\ DOMAIN txs' = 1 .. Len(txs')
        /\ Len(txs) \in Nat /\ Len(txs') \in Nat
    BY DEF Typed
  <1>2. QED
    BY <1>1 DEF ResultIsOwn, Paid, Kept

LEMMA NextResultIsOwn ==
  ASSUME Typed, ServedAfterStart, Truthful, OwnIsMine, ResultIsOwn, [Next]_vars
  PROVE  ResultIsOwn'
  <1>0. Kept /\ Typed'
    BY NextKept, NextTyped
  <1>1. CASE \A r \in Request :
               answer'[r] \in {"sent", "txFailed"} => answer'[r] = answer[r]
    BY <1>0, <1>1, ResultKept
  <1>2. ASSUME NEW p \in Process, NEW kind \in Reply \ {"sent", "txFailed"},
               Return(p, kind)
        PROVE  ResultIsOwn'
    <2>1. answer' = answer \/ answer' = [answer EXCEPT ![p] = kind]
      BY <1>2, ReturnEnds
    <2>2. QED
      BY <1>1, <2>1 DEF Typed
  <1>3. ASSUME NEW p \in Process, Quietly(p) PROVE ResultIsOwn'
    BY <1>1, <1>2, <1>3, QuietlyFrame DEF Quiet, Goto
  <1>4. ASSUME NEW p \in Process, RegisterTx(p) PROVE ResultIsOwn'
    BY <1>1, <1>2, <1>4, RegisterFrame DEF Reply
  <1>5. ASSUME NEW p \in Process, ListenTx(p) PROVE ResultIsOwn'
    <2>0. txs' = txs /\ Len(inbox) > 0 /\ Len(inbox) \in Nat
      BY <1>5, ListenFrame DEF Typed
    <2>1. CASE Return(p, "txErr")
      BY <1>2, <2>1 DEF Reply
    <2>2. CASE Goto(p, "listen")
      BY <1>1, <2>2 DEF Goto
    <2>3. ASSUME NEW kind \in {"sent", "txFailed"}, Return(p, kind),
                 inbox[1].tx = own[p],
                 kind = "sent" => inbox[1].kind = "ok",
                 kind = "txFailed" => inbox[1].kind = "failed"
          PROVE  ResultIsOwn'
      <3>1. CASE p = Main
        BY <1>1, <2>3, <3>1, ReturnEnds DEF Reply
      <3>2. CASE p # Main
        <4>1. /\ own[p] \in 1 .. Len(txs)
              /\ kind = "sent"     => txs[own[p]].fate = "paid"
              /\ kind = "txFailed" => txs[own[p]].fate = "reverted"
          BY <2>0, <2>3 DEF Truthful
        <4>2. txs[own[p]].by = p
          BY <4>1 DEF OwnIsMine
        <4>3. own[p] \in DOMAIN txs /\ DOMAIN txs' = DOMAIN txs
          BY <2>0, <4>1 DEF Typed
        <4>4. answer' = [answer EXCEPT ![p] = kind]
          BY <2>3, <3>2, ReturnEnds DEF Reply
        <4>5. \A r \in Request : answer'[r] = answer[r] \/ (r = p /\ answer'[r] = kind)
          <5>1. answer \in [Request -> Reply]
            BY DEF Typed
          <5>2. QED
            BY <4>4, <5>1
        <4>6. QED
          BY <2>0, <4>1, <4>2, <4>3, <4>5 DEF ResultIsOwn, Paid
      <3>3. QED
        BY <3>1, <3>2
    <2>4. QED
      BY <1>5, <2>1, <2>2, <2>3, ListenFrame
  <1>6. ASSUME NEW i \in DOMAIN txs, Receive(i) \/ Accept(i) \/ Expire(i)
        PROVE  ResultIsOwn'
    BY <1>1, <1>6, NodeFrame
  <1>7. CASE Serve \/ (\E a \in Remote : Refill(a)) \/ LoseConnection \/ UNCHANGED vars
    BY <1>1, <1>7 DEF Serve, Refill, LoseConnection, vars
  <1>8. CASE Restart
    BY <1>1, <1>8, RestartFrame
  <1>9. QED
    BY <1>3, <1>4, <1>5, <1>6, <1>7, <1>8, Steps
-----------------------------------------------------------------------------
(* main becomes ready with a transfer of its own that was paid in this run. *)
ReadyTx == \E i \in 1 .. Len(txs) : /\ txs[i].to = readyAddress[restarts]
                                    /\ txs[i].by = Main
                                    /\ txs[i].fate = "paid"

LEMMA NextReadyMeansPaid ==
  ASSUME Typed, ServedAfterStart, Truthful, OwnIsMine, RandomIsMains,
         ReadyMeansPaid, [Next]_vars
  PROVE  ReadyMeansPaid'
  <1>0. /\ Kept
        /\ DOMAIN txs = 1 .. Len(txs) /\ DOMAIN txs' = 1 .. Len(txs')
        /\ Len(txs) \in Nat /\ Len(txs') \in Nat
    BY NextKept, NextTyped DEF Typed
  <1>1. CASE (isReady' => isReady) /\ restarts' = restarts
    BY <1>0, <1>1 DEF ReadyMeansPaid, Kept
  <1>2. CASE ReadyTx /\ txs' = txs /\ restarts' = restarts
    BY <1>0, <1>2 DEF ReadyMeansPaid, ReadyTx
  <1>3. ASSUME NEW p \in Process, NEW kind \in Reply, Return(p, kind),
               p = Main => kind \notin {"sent", "enough"}, restarts' = restarts
        PROVE  ReadyMeansPaid'
    BY <1>1, <1>3, ReturnEnds
  <1>4. ASSUME NEW p \in Process, Quietly(p) PROVE ReadyMeansPaid'
    <2>1. txs' = txs /\ restarts' = restarts
      BY <1>4, QuietlyFrame
    <2>2. ASSUME NEW kind \in Quiet(p), Return(p, kind) PROVE ReadyMeansPaid'
      <3>1. CASE p = Main /\ kind = "enough"
        BY <1>2, <2>1, <3>1, EnoughMeansPaid DEF ReadyTx
      <3>2. CASE p = Main => kind # "enough"
        BY <1>3, <2>1, <2>2, <3>2 DEF Quiet
      <3>3. QED
        BY <3>1, <3>2
    <2>3. ASSUME NEW place \in Place, Goto(p, place) PROVE ReadyMeansPaid'
      BY <1>1, <2>1, <2>3 DEF Goto
    <2>4. QED
      BY <1>4, <2>2, <2>3, QuietlyFrame
  <1>5. ASSUME NEW p \in Process, RegisterTx(p) PROVE ReadyMeansPaid'
    BY <1>1, <1>3, <1>5, RegisterFrame DEF Reply
  <1>6. ASSUME NEW p \in Process, ListenTx(p) PROVE ReadyMeansPaid'
    <2>0. /\ txs' = txs /\ restarts' = restarts
          /\ Len(inbox) > 0 /\ Len(inbox) \in Nat
      BY <1>6, ListenFrame DEF Typed
    <2>1. CASE Goto(p, "listen")
      BY <1>1, <2>0, <2>1 DEF Goto
    <2>2. ASSUME NEW kind \in {"txErr", "txFailed"}, Return(p, kind)
          PROVE  ReadyMeansPaid'
      BY <1>3, <2>0, <2>2 DEF Reply
    <2>3. ASSUME Return(p, "sent"), inbox[1].tx = own[p], inbox[1].kind = "ok"
          PROVE  ReadyMeansPaid'
      <3>1. CASE p = Main
        <4>1. own[p] \in 1 .. Len(txs) /\ txs[own[p]].fate = "paid"
          BY <2>0, <2>3 DEF Truthful
        <4>2. txs[own[p]].by = p /\ txs[own[p]].to = readyAddress[restarts]
          BY <3>1, <4>1 DEF OwnIsMine, AddressOf
        <4>3. ReadyTx
          BY <3>1, <4>1, <4>2 DEF ReadyTx
        <4>4. QED
          BY <1>2, <2>0, <4>3
      <3>2. CASE p # Main
        BY <1>3, <2>0, <2>3, <3>2 DEF Reply
      <3>3. QED
        BY <3>1, <3>2
    <2>4. QED
      BY <1>6, <2>1, <2>2, <2>3, ListenFrame
  <1>7. ASSUME NEW i \in DOMAIN txs, Receive(i) \/ Accept(i) \/ Expire(i)
        PROVE  ReadyMeansPaid'
    BY <1>1, <1>7, NodeFrame DEF process
  <1>8. CASE Serve \/ (\E a \in Remote : Refill(a)) \/ LoseConnection \/ UNCHANGED vars
    BY <1>1, <1>8 DEF Serve, Refill, LoseConnection, vars, process
  <1>9. CASE Restart
    BY <1>9, RestartFrame DEF ReadyMeansPaid
  <1>10. QED
    BY <1>4, <1>5, <1>6, <1>7, <1>8, <1>9, Steps
-----------------------------------------------------------------------------
LEMMA InitFaucetInv ==
  ASSUME Init
  PROVE  FaucetInv
  <1>1. /\ db \in Databases /\ txs = << >> /\ inbox = << >> /\ server = "starting"
        /\ isReady = FALSE /\ restarts = 0
        /\ pc = [p \in Process |-> IF p = Main THEN "balance" ELSE "new"]
        /\ own = [p \in Process |-> 0]
        /\ answer = [r \in Request |-> "none"]
    BY DEF Init
  <1>2. Typed
    <2>1. db \in Database /\ restarts \in 0 .. MaxRestarts
      BY <1>1, FaucetAssumption
    <2>2. pc \in [Process -> Place] /\ own \in [Process -> Nat] /\ answer \in [Request -> Reply]
      BY <1>1 DEF Place, Reply
    <2>3. QED
      BY <1>1, <2>1, <2>2 DEF Typed
  <1>3. Truthful /\ OwnIsMine
    BY <1>1 DEF Truthful, OwnIsMine
  <1>4. RandomIsMains
    BY <1>1, FaucetAssumption DEF RandomIsMains
  <1>5. pc[Main] = "balance" /\ \A r \in Request : pc[r] = "new"
    BY <1>1, Processes
  <1>6. ServedAfterStart /\ FetchedBefore
    BY <1>1, <1>5 DEF ServedAfterStart, FetchedBefore
  <1>7. ResultIsOwn /\ ReadyMeansPaid
    BY <1>1 DEF ResultIsOwn, ReadyMeansPaid
  <1>8. QED
    BY <1>2, <1>3, <1>4, <1>6, <1>7 DEF FaucetInv

(* The invariant holds of every behaviour: it starts true, and each step   *)
(* of main, a request, the node or the connection keeps it.                *)
THEOREM FaucetInvariant == Spec => []FaucetInv
  <1>1. Init => FaucetInv
    BY InitFaucetInv
  <1>2. FaucetInv /\ [Next]_vars => FaucetInv'
    BY NextTyped, NextTruthful, NextOwnIsMine, NextRandomIsMains,
       NextServedAfterStart, NextFetchedBefore, NextResultIsOwn, NextReadyMeansPaid
       DEF FaucetInv
  <1>3. QED
    BY <1>1, <1>2, PTL DEF Spec

(* A request answered "sent" or "failed" is told the result of a transfer  *)
(* of its own, though all requests take messages from one queue.           *)
THEOREM ResultsAreOwn == Spec => []ResultIsOwn
  <1>1. FaucetInv => ResultIsOwn
    BY DEF FaucetInv
  <1>2. QED
    BY <1>1, FaucetInvariant, PTL

(* /readyz says healthy only in a run of the process that has paid its     *)
(* random address.                                                         *)
THEOREM ReadyHasPaid == Spec => []ReadyMeansPaid
  <1>1. FaucetInv => ReadyMeansPaid
    BY DEF FaucetInv
  <1>2. QED
    BY <1>1, FaucetInvariant, PTL

(* The client's unguarded genesis (vm/client.go, Genesis) is never fetched *)
(* by one goroutine while another reads or fetches it.                     *)
THEOREM GenesisFetchedAlone == Spec => []NoGenesisRace
  <1>1. FaucetInv => NoGenesisRace
    <2>1. ASSUME FaucetInv, NEW p \in Process, NEW q \in Process,
                 p # q, pc[p] = "fetch"
          PROVE  pc[q] \notin {"parser", "fetch"}
      <3>1. p = Main
        BY <2>1, Processes DEF FaucetInv, FetchedBefore
      <3>2. q \in Request
        BY <2>1, <3>1, Processes
      <3>3. pc[q] \in {"new", "answered"}
        BY <2>1, <3>1, <3>2 DEF FaucetInv, ServedAfterStart
      <3>4. QED
        BY <3>3
    <2>2. QED
      BY <2>1 DEF NoGenesisRace
  <1>2. QED
    BY <1>1, FaucetInvariant, PTL
-----------------------------------------------------------------------------
(* The rest of TypeOK.  The attempts stay below their bound because main   *)
(* is only at work while there is one left.                                *)
Flags == /\ conn \in {"up", "down"}
         /\ cached \in BOOLEAN
         /\ tokens \in [Remote -> 0 .. Burst]

Start == /\ server \in {"starting", "serving", "exited"}
         /\ isReady \in BOOLEAN
         /\ attempt \in 0 .. MaxAttempts
         /\ pc[Main] \in Working => attempt < MaxAttempts

LEMMA ReturnStart ==
  ASSUME Typed, Start, NEW p \in Process, NEW kind \in Reply, Return(p, kind),
         p = Main => pc[Main] \in Working
  PROVE  Start'
  <1>0. MaxAttempts \in Nat /\ Main \in Process /\ pc \in [Process -> Place]
    BY FaucetAssumption DEF Process, Typed
  <1>1. CASE p # Main
    <2>1. Answer(p, kind)
      BY <1>1 DEF Return
    <2>2. QED
      BY <1>0, <1>1, <2>1 DEF Answer, Start
  <1>2. CASE p = Main /\ kind \in {"sent", "enough"}
    <2>1. MainSucceeds
      BY <1>2 DEF Return
    <2>2. QED
      BY <1>0, <2>1 DEF MainSucceeds, Start, Working
  <1>3. CASE p = Main /\ kind \notin {"sent", "enough"}
    <2>1. MainFails
      BY <1>3 DEF Return
    <2>2. attempt \in Nat /\ attempt < MaxAttempts
      BY <1>3 DEF Start
    <2>3. QED
      BY <1>0, <2>1, <2>2 DEF MainFails, Start, Working
  <1>4. QED
    BY <1>1, <1>2, <1>3

LEMMA GotoStart ==
  ASSUME Typed, Start, NEW p \in Process, NEW place \in Place, Goto(p, place),
         p = Main => pc[Main] \in Working
  PROVE  Start'
  <1>1. pc'[Main] = pc[Main] \/ p = Main
    BY Processes DEF Goto, Typed
  <1>2. QED
    BY <1>1 DEF Goto, Start

LEMMA NextStart ==
  ASSUME Typed, ServedAfterStart, Start, [Next]_vars
  PROVE  Start'
  <1>1. ASSUME NEW p \in Process, Quietly(p) PROVE Start'
    <2>1. p = Main => pc[Main] \in Working
      BY <1>1, QuietlyAt, Processes
    <2>2. QED
      BY <1>1, <2>1, QuietlyFrame, ReturnStart, GotoStart DEF Quiet
  <1>2. ASSUME NEW p \in Process, RegisterTx(p) PROVE Start'
    <2>1. p = Main => pc[Main] \in Working
      BY <1>2, RegisterFrame DEF Working
    <2>2. CASE Return(p, "registerErr")
      BY <2>1, <2>2, ReturnStart DEF Reply
    <2>3. CASE pc' = [pc EXCEPT ![p] = "listen"] /\ UNCHANGED <<server, isReady, attempt>>
      <3>1. pc'[Main] = pc[Main] \/ p = Main
        BY <2>3, Processes DEF Typed
      <3>2. QED
        BY <2>1, <2>3, <3>1 DEF Start
    <2>4. QED
      BY <1>2, <2>2, <2>3 DEF RegisterTx
  <1>3. ASSUME NEW p \in Process, ListenTx(p) PROVE Start'
    <2>1. p = Main => pc[Main] \in Working
      BY <1>3, ListenFrame DEF Working
    <2>2. QED
      BY <1>3, <2>1, ListenFrame, ReturnStart, GotoStart DEF Reply, Place
  <1>4. CASE Serve
    <2>1. pc'[Main] \notin Working
      BY <1>4, Processes DEF Serve, Working, Typed
    <2>2. QED
      BY <1>4, <2>1 DEF Serve, Start
  <1>5. CASE UNCHANGED <<server, isReady, attempt, pc>>
    BY <1>5 DEF Start
  <1>6. ASSUME NEW i \in DOMAIN txs, Receive(i) \/ Accept(i) \/ Expire(i)
        PROVE  Start'
    BY <1>5, <1>6, NodeFrame DEF process
  <1>7. CASE (\E a \in Remote : Refill(a)) \/ LoseConnection \/ UNCHANGED vars
    BY <1>5, <1>7 DEF Refill, LoseConnection, vars, process
  <1>8. CASE Restart
    <2>1. server' = "starting" /\ isReady' \in BOOLEAN /\ attempt' = 0
      BY <1>8 DEF Restart
    <2>2. MaxAttempts \in Nat /\ 0 < MaxAttempts
      BY FaucetAssumption
    <2>3. attempt' \in 0 .. MaxAttempts /\ attempt' < MaxAttempts
      BY <2>1, <2>2
    <2>4. QED
      BY <2>1, <2>3 DEF Start
  <1>9. QED
    BY <1>1, <1>2, <1>3, <1>4, <1>6, <1>7, <1>8, Steps

LEMMA NextFlags ==
  ASSUME Typed, ServedAfterStart, Flags, [Next]_vars
  PROVE  Flags'
  <1>0. Burst \in Nat
    BY FaucetAssumption
  <1>1. CASE UNCHANGED <<conn, tokens>> /\ cached' \in {cached, TRUE}
    BY <1>1 DEF Flags
  <1>2. ASSUME NEW p \in Request, HandleRequest(p) PROVE Flags'
    <2>1. UNCHANGED <<conn, cached>>
      BY <1>2 DEF HandleRequest
    <2>2. remote[p] \in Remote
      BY DEF Remote
    <2>3. tokens' = tokens \/ (/\ tokens[remote[p]] # 0
                               /\ tokens' = [tokens EXCEPT ![remote[p]] = @ - 1])
      BY <1>2 DEF HandleRequest
    <2>4. tokens' \in [Remote -> 0 .. Burst]
      BY <1>0, <2>2, <2>3 DEF Flags
    <2>5. QED
      BY <2>1, <2>4 DEF Flags
  <1>3. ASSUME NEW p \in Process, Quietly(p) PROVE Flags'
    BY <1>1, <1>2, <1>3 DEF Quietly, CheckBalance, ReadGenesis, FetchGenesis,
       CallFails, ListenFails, Deadline
  <1>4. ASSUME NEW p \in Process, RegisterTx(p) \/ ListenTx(p) PROVE Flags'
    BY <1>1, <1>4 DEF RegisterTx, ListenTx
  <1>5. ASSUME NEW a \in Remote, Refill(a) PROVE Flags'
    <2>1. /\ UNCHANGED <<conn, cached>> /\ tokens[a] < Burst
          /\ tokens' = [tokens EXCEPT ![a] = @ + 1]
      BY <1>5 DEF Refill
    <2>2. QED
      BY <1>0, <2>1 DEF Flags
  <1>6. ASSUME NEW i \in DOMAIN txs, Receive(i) \/ Accept(i) \/ Expire(i)
        PROVE  Flags'
    BY <1>1, <1>6, NodeFrame DEF process
  <1>7. CASE LoseConnection
    BY <1>7 DEF LoseConnection, process, Flags
  <1>8. CASE Serve \/ UNCHANGED vars
    BY <1>1, <1>8 DEF Serve, vars, process
  <1>9. CASE Restart
    <2>1. conn' = "up" /\ cached' \in BOOLEAN /\ tokens' = [a \in Remote |-> Burst]
      BY <1>9 DEF Restart
    <2>2. tokens' \in [Remote -> 0 .. Burst]
      BY <1>0, <2>1
    <2>3. QED
      BY <2>1, <2>2 DEF Flags
  <1>10. QED
    BY <1>3, <1>4, <1>5, <1>6, <1>7, <1>8, <1>9, Steps

(* The faucet's state is well formed in every run: in particular a message *)
(* and an awaited ID are about a transfer that was made, and the attempts  *)
(* of the start and the tokens of a limiter stay within their bounds.      *)
THEOREM FaucetTypeCorrect == Spec => []TypeOK
  <1>1. Init => Flags /\ Start
    <2>1. Burst \in Nat /\ MaxAttempts \in Nat /\ 0 < MaxAttempts
      BY FaucetAssumption
    <2>2. SUFFICES ASSUME Init PROVE Flags /\ Start
      OBVIOUS
    <2>3. /\ conn = "up" /\ cached \in BOOLEAN /\ tokens = [a \in Remote |-> Burst]
          /\ server = "starting" /\ isReady \in BOOLEAN /\ attempt = 0
      BY <2>2 DEF Init
    <2>4. tokens \in [Remote -> 0 .. Burst]
      BY <2>1, <2>3
    <2>5. QED
      BY <2>1, <2>3, <2>4 DEF Flags, Start
  <1>2. FaucetInv /\ Flags /\ Start /\ [Next]_vars => Flags' /\ Start'
    BY NextFlags, NextStart DEF FaucetInv
  <1>3. ASSUME FaucetInv, Flags, Start PROVE TypeOK
    <2>1. Typed /\ Truthful /\ OwnIsMine
      BY <1>3 DEF FaucetInv
    <2>2. DOMAIN txs = 1 .. Len(txs) /\ DOMAIN inbox = 1 .. Len(inbox) /\ Len(txs) \in Nat
      BY <2>1 DEF Typed
    <2>3. \A i \in DOMAIN txs :
            txs[i] \in [by : Process, to : Address, heard : BOOLEAN,
                        fate : {"wire", "pool", "paid", "reverted", "dropped", "lost"}]
      <3>1. \A i \in DOMAIN txs : txs[i] \in TxRecord
        BY <2>1, <2>2 DEF Typed
      <3>2. QED
        BY <3>1 DEF TxRecord, Fate
    <2>4. \A i \in DOMAIN inbox :
            inbox[i] \in [tx : DOMAIN txs, kind : {"removed", "ok", "failed"}]
      <3>1. ASSUME NEW i \in DOMAIN inbox
            PROVE  inbox[i] \in [tx : DOMAIN txs, kind : {"removed", "ok", "failed"}]
        <4>1. inbox[i] \in [tx : Nat, kind : {"removed", "ok", "failed"}]
          <5>1. inbox[i] \in Message
            BY <2>1, <2>2 DEF Typed
          <5>2. QED
            BY <5>1 DEF Message, Kind
        <4>2. inbox[i].tx \in DOMAIN txs
          BY <2>1, <2>2 DEF Truthful
        <4>3. QED
          BY <4>1, <4>2
      <3>2. QED
        BY <3>1
    <2>5. own \in [Process -> 0 .. Len(txs)]
      <3>1. own \in [Process -> Nat] /\ \A p \in Process : own[p] \in 0 .. Len(txs)
        BY <2>1, <2>2 DEF Typed, OwnIsMine
      <3>2. QED
        BY <3>1
    <2>6. QED
      BY <1>3, <2>1, <2>3, <2>4, <2>5 DEF TypeOK, Typed, Place, Flags, Start
  <1>4. QED
    BY <1>1, <1>2, <1>3, FaucetInvariant, PTL DEF Spec
-----------------------------------------------------------------------------
(* The refinement of FaucetPromise.  A request makes one transfer at most, *)
(* and none before it has registered it.                                   *)
Early == {"new", "balance", "parser", "fetch", "generate"}

OnePayment ==
  \A r \in Request :
    /\ \A i, j \in 1 .. Len(txs) : txs[i].by = r /\ txs[j].by = r => i = j
    /\ pc[r] \in Early => \A i \in 1 .. Len(txs) : txs[i].by # r

(* An answer that nothing is given is the answer of a request that made no *)
(* transfer.                                                               *)
Refusals == {"limited", "badAddress", "enough"}

AnswerStands ==
  \A r \in Request :
    /\ pc[r] = "answered" <=> answer[r] # "none"
    /\ answer[r] \in Refusals => \A i \in 1 .. Len(txs) : txs[i].by # r

PromiseInv == OnePayment /\ AnswerStands

(* The variables of FaucetPromise. *)
Asked == {r \in Request : pc[r] # "new"}

Counts == [r \in Request |-> Payments(r)]

(* The requests that have coins; each has them once (CountsOfPaid).        *)
PaidRequests == {r \in Request : Paid(r)}

OnceEach(requests) == [r \in Request |-> IF r \in requests THEN 1 ELSE 0]

(* What a step of request r is: it goes on, makes its transfer, or ends    *)
(* with an answer.                                                         *)
Moves(r) == /\ pc[r] # "answered"
            /\ txs' = txs /\ answer' = answer
            /\ \E place \in Working :
                 /\ pc' = [pc EXCEPT ![r] = place]
                 /\ pc[r] \in Early \/ place \notin Early

Sends(r) == /\ pc[r] = "generate"
            /\ txs' = Append(txs, NewTx(r)) /\ answer' = answer
            /\ pc' = [pc EXCEPT ![r] = "listen"]

Ends(r, kind) == /\ txs' = txs
                 /\ pc' = [pc EXCEPT ![r] = "answered"]
                 /\ answer' = [answer EXCEPT ![r] = kind]
                 /\ \/ pc[r] = "new" /\ kind \in {"limited", "badAddress"}
                    \/ pc[r] = "balance" /\ kind = "enough"
                    \/ pc[r] \in Working /\ kind \in Promise!Errors
                    \/ pc[r] = "listen" /\ kind \in {"sent", "txFailed"}

LEMMA RequestSteps ==
  ASSUME Typed, ServedAfterStart, NEW r \in Request,
         Quietly(r) \/ RegisterTx(r) \/ ListenTx(r)
  PROVE  Moves(r) \/ Sends(r) \/ \E kind \in Reply : Ends(r, kind)
  <1>1. r \in Process /\ r # Main
    BY Processes
  <1>2. \A kind : Return(r, kind) => Answer(r, kind)
    BY <1>1 DEF Return
  <1>3. CASE HandleRequest(r)
    BY <1>3 DEF HandleRequest, Answer, Goto, Moves, Ends, Working, Early, Reply
  <1>4. CASE CheckBalance(r)
    BY <1>2, <1>4 DEF CheckBalance, Answer, Goto, Moves, Ends, Working, Early, Reply
  <1>5. CASE ReadGenesis(r) \/ FetchGenesis(r)
    BY <1>5 DEF ReadGenesis, FetchGenesis, Goto, Moves, Working, Early
  <1>6. CASE CallFails(r) \/ ListenFails(r) \/ Deadline(r)
    BY <1>2, <1>6 DEF CallFails, ListenFails, Deadline, Answer, Ends, Working, Reply,
       Promise!Errors
  <1>7. CASE RegisterTx(r)
    BY <1>1, <1>2, <1>7, RegisterFrame DEF Answer, Sends, Ends, Working, Reply, Promise!Errors
  <1>8. CASE ListenTx(r)
    BY <1>1, <1>2, <1>8, ListenFrame DEF Answer, Goto, Moves, Ends, Working, Early, Reply,
       Promise!Errors
  <1>9. QED
    BY <1>3, <1>4, <1>5, <1>6, <1>7, <1>8 DEF Quietly

(* What another step does to the requests' transfers, if it pays none: it  *)
(* adds none, and pays and reverts none.                                   *)
Aside == /\ answer' = answer
         /\ \A r \in Request : pc'[r] = pc[r]
         /\ \A i \in 1 .. Len(txs') :
              txs'[i].by \in Request =>
                /\ i \in 1 .. Len(txs)
                /\ txs'[i].fate = "paid" => txs[i].fate = "paid"

LEMMA UnheardAside ==
  ASSUME Typed, txs' = Unheard
  PROVE  \A i \in 1 .. Len(txs') : /\ i \in 1 .. Len(txs)
                                   /\ txs'[i].fate = "paid" => txs[i].fate = "paid"
  <1>1. txs \in Seq(TxRecord) /\ DOMAIN txs = 1 .. Len(txs) /\ Len(txs') = Len(txs)
    BY UnheardTyped DEF Typed
  <1>2. ASSUME NEW i \in 1 .. Len(txs), txs[i].fate # "paid" PROVE Unheard[i].fate # "paid"
    <2>1. txs[i] \in TxRecord
      BY <1>1
    <2>2. Unheard[i].fate = IF txs[i].fate = "wire" THEN "lost" ELSE txs[i].fate
      BY <1>1, <2>1 DEF Unheard, TxRecord
    <2>3. QED
      BY <1>2, <2>2
  <1>3. QED
    BY <1>1, <1>2

(* Every step is one of a request, the execution of a request's transfer,  *)
(* a restart, or an aside.                                                 *)
LEMMA PromiseSteps ==
  ASSUME Typed, ServedAfterStart, [Next]_vars
  PROVE  \/ \E r \in Request : Moves(r) \/ Sends(r) \/ \E kind \in Reply : Ends(r, kind)
         \/ \E i \in DOMAIN txs : /\ txs' = [txs EXCEPT ![i].fate = "paid"]
                                  /\ txs[i].fate = "pool"
                                  /\ UNCHANGED <<pc, answer>>
         \/ Restart
         \/ Aside
  <1>0. /\ Len(txs) \in Nat /\ DOMAIN txs = 1 .. Len(txs) /\ pc \in [Process -> Place]
        /\ txs \in Seq(TxRecord)
    BY DEF Typed
  <1>1. CASE UNCHANGED <<pc, txs, answer>>
    BY <1>1 DEF Aside
  <1>2. ASSUME Quietly(Main) \/ RegisterTx(Main) \/ ListenTx(Main) \/ Serve PROVE Aside
    <2>1. txs' = txs \/ txs' = Append(txs, NewTx(Main))
      BY <1>2, Processes, QuietlyFrame, RegisterFrame, ListenFrame DEF Serve
    <2>2. answer' = answer /\ \E place \in Place : pc' = [pc EXCEPT ![Main] = place]
      <3>1. CASE \E kind \in Reply : Return(Main, kind)
        BY <3>1, Processes, ReturnEnds DEF Place
      <3>2. CASE \E place \in Place : Goto(Main, place)
        BY <3>2 DEF Goto
      <3>3. CASE Serve
        BY <3>3 DEF Serve, Place
      <3>4. CASE pc' = [pc EXCEPT ![Main] = "listen"] /\ UNCHANGED answer
        BY <3>4 DEF Place
      <3>5. Quietly(Main) => \/ \E kind \in Reply : Return(Main, kind)
                             \/ \E place \in Place : Goto(Main, place)
        BY Processes, QuietlyFrame DEF Quiet
      <3>6. RegisterTx(Main) => \/ \E kind \in Reply : Return(Main, kind)
                                \/ pc' = [pc EXCEPT ![Main] = "listen"] /\ UNCHANGED answer
        BY Processes, RegisterFrame DEF Reply
      <3>7. ListenTx(Main) => \/ \E kind \in Reply : Return(Main, kind)
                              \/ \E place \in Place : Goto(Main, place)
        BY Processes, ListenFrame DEF Reply, Place
      <3>8. QED
        BY <1>2, <3>1, <3>2, <3>3, <3>4, <3>5, <3>6, <3>7
    <2>3. \A r \in Request : pc'[r] = pc[r]
      BY <1>0, <2>2, Processes
    <2>4. \A i \in 1 .. Len(txs') :
            txs'[i].by \in Request => i \in 1 .. Len(txs) /\ txs'[i] = txs[i]
      <3>1. CASE txs' = txs
        BY <3>1
      <3>2. CASE txs' = Append(txs, NewTx(Main))
        <4>1. /\ Len(txs') = Len(txs) + 1 /\ txs'[Len(txs) + 1] = NewTx(Main)
              /\ \A i \in 1 .. Len(txs) : txs'[i] = txs[i]
          BY <1>0, <3>2
        <4>2. NewTx(Main).by \notin Request
          BY Processes DEF NewTx
        <4>3. QED
          BY <1>0, <4>1, <4>2
      <3>3. QED
        BY <2>1, <3>1, <3>2
    <2>5. QED
      BY <2>2, <2>3, <2>4 DEF Aside
  <1>3. ASSUME NEW r \in Request, Quietly(r) \/ RegisterTx(r) \/ ListenTx(r)
        PROVE  Moves(r) \/ Sends(r) \/ \E kind \in Reply : Ends(r, kind)
    BY <1>3, RequestSteps
  <1>4. CASE \E a \in Remote : Refill(a)
    BY <1>1, <1>4 DEF Refill
  <1>5. CASE LoseConnection
    BY <1>5, UnheardAside DEF LoseConnection, Aside
  <1>6. ASSUME NEW i \in DOMAIN txs, NEW fate \in Fate, fate # "paid",
               txs' = [txs EXCEPT ![i].fate = fate], UNCHANGED <<pc, answer>>
        PROVE  Aside
    <2>1. /\ Len(txs') = Len(txs) /\ txs'[i].fate = fate
          /\ \A j \in 1 .. Len(txs) : j # i => txs'[j] = txs[j]
      BY <1>0, <1>6
    <2>2. QED
      BY <1>6, <2>1 DEF Aside
  <1>7. ASSUME NEW i \in DOMAIN txs, Receive(i) \/ Expire(i) PROVE Aside
    BY <1>6, <1>7 DEF Receive, Expire, Settle, Fate
  <1>8. ASSUME NEW i \in DOMAIN txs, Accept(i)
        PROVE  \/ /\ txs' = [txs EXCEPT ![i].fate = "paid"]
                  /\ txs[i].fate = "pool" /\ UNCHANGED <<pc, answer>>
               \/ Aside
    BY <1>6, <1>8, AcceptChain DEF Settle, Fate
  <1>9. CASE UNCHANGED vars
    BY <1>1, <1>9 DEF vars, node
  <1>10. QED
    BY <1>2, <1>3, <1>4, <1>5, <1>7, <1>8, <1>9, Processes, Steps

(* A payment is of the request's only transfer, and a request that was     *)
(* refused has none.                                                       *)
LEMMA NextPromiseInv ==
  ASSUME Typed, ServedAfterStart, PromiseInv, [Next]_vars
  PROVE  PromiseInv'
  <1>1. /\ Kept /\ Typed'
        /\ Len(txs) \in Nat /\ Len(txs') \in Nat /\ txs \in Seq(TxRecord)
        /\ pc \in [Process -> Place] /\ answer \in [Request -> Reply]
        /\ Request \subseteq Process
    BY NextKept, NextTyped, Processes DEF Typed
  <1>2. ASSUME NEW r \in Request, Moves(r) PROVE PromiseInv'
    <2>1. PICK place \in Working : /\ pc' = [pc EXCEPT ![r] = place]
                                   /\ pc[r] \in Early \/ place \notin Early
      BY <1>2 DEF Moves
    <2>2. pc'[r] = place /\ \A q \in Request : q # r => pc'[q] = pc[q]
      BY <1>1, <2>1
    <2>3. txs' = txs /\ answer' = answer /\ pc[r] # "answered"
      BY <1>2 DEF Moves
    <2>4. OnePayment'
      BY <2>1, <2>2, <2>3 DEF PromiseInv, OnePayment
    <2>5. AnswerStands'
      BY <2>1, <2>2, <2>3 DEF PromiseInv, AnswerStands, Working
    <2>6. QED
      BY <2>4, <2>5 DEF PromiseInv
  <1>3. ASSUME NEW r \in Request, Sends(r) PROVE PromiseInv'
    <2>1. /\ pc'[r] = "listen" /\ \A q \in Request : q # r => pc'[q] = pc[q]
          /\ answer' = answer /\ pc[r] = "generate"
      BY <1>1, <1>3 DEF Sends
    <2>2. /\ Len(txs') = Len(txs) + 1 /\ txs'[Len(txs) + 1].by = r
          /\ \A i \in 1 .. Len(txs) : txs'[i] = txs[i]
      BY <1>1, <1>3 DEF Sends, NewTx
    <2>3. \A i \in 1 .. Len(txs) : txs[i].by # r
      BY <2>1 DEF PromiseInv, OnePayment, Early
    <2>4. \A i \in 1 .. Len(txs') : \/ i \in 1 .. Len(txs) /\ txs'[i] = txs[i]
                                    \/ i = Len(txs) + 1 /\ txs'[i].by = r
      BY <1>1, <2>2
    <2>5. OnePayment'
      BY <2>1, <2>3, <2>4 DEF PromiseInv, OnePayment, Early
    <2>6. answer[r] = "none"
      BY <2>1 DEF PromiseInv, AnswerStands
    <2>7. AnswerStands'
      BY <2>1, <2>4, <2>6 DEF PromiseInv, AnswerStands, Refusals
    <2>8. QED
      BY <2>5, <2>7 DEF PromiseInv
  <1>4. ASSUME NEW r \in Request, NEW kind \in Reply, Ends(r, kind) PROVE PromiseInv'
    <2>1. /\ pc'[r] = "answered" /\ answer'[r] = kind /\ txs' = txs
          /\ \A q \in Request : q # r => pc'[q] = pc[q] /\ answer'[q] = answer[q]
      BY <1>1, <1>4 DEF Ends
    <2>2. kind # "none" /\ (kind \in Refusals => pc[r] \in Early)
      BY <1>4 DEF Ends, Refusals, Early, Promise!Errors
    <2>3. OnePayment'
      BY <2>1 DEF PromiseInv, OnePayment, Early
    <2>4. AnswerStands'
      BY <2>1, <2>2 DEF PromiseInv, OnePayment, AnswerStands
    <2>5. QED
      BY <2>3, <2>4 DEF PromiseInv
  <1>5. ASSUME NEW i \in DOMAIN txs, txs' = [txs EXCEPT ![i].fate = "paid"],
               UNCHANGED <<pc, answer>>
        PROVE  PromiseInv'
    <2>1. Len(txs') = Len(txs) /\ \A j \in 1 .. Len(txs) : txs'[j].by = txs[j].by
      BY <1>1, <1>5 DEF Kept
    <2>2. QED
      BY <1>5, <2>1 DEF PromiseInv, OnePayment, AnswerStands
  <1>6. CASE Restart
    <2>1. Len(txs') = Len(txs) /\ \A j \in 1 .. Len(txs) : txs'[j].by = txs[j].by
      BY <1>6, UnheardTyped DEF Restart
    <2>2. \A r \in Request : pc'[r] = IF pc[r] = "new" THEN "new" ELSE "answered"
      BY <1>6, Processes DEF Restart
    <2>3. \A r \in Request :
            answer'[r] = IF pc[r] \in {"new", "answered"} THEN answer[r] ELSE "cut"
      BY <1>6 DEF Restart
    <2>4. OnePayment'
      BY <2>1, <2>2 DEF PromiseInv, OnePayment, Early
    <2>5. AnswerStands'
      BY <2>1, <2>2, <2>3 DEF PromiseInv, AnswerStands, Refusals
    <2>6. QED
      BY <2>4, <2>5 DEF PromiseInv
  <1>7. CASE Aside
    <2>1. \A i \in 1 .. Len(txs') : txs'[i].by \in Request =>
            i \in 1 .. Len(txs) /\ txs'[i].by = txs[i].by
      BY <1>1, <1>7 DEF Aside, Kept
    <2>2. answer' = answer /\ \A r \in Request : pc'[r] = pc[r]
      BY <1>7 DEF Aside
    <2>3. QED
      BY <2>1, <2>2 DEF PromiseInv, OnePayment, AnswerStands
  <1>8. QED
    BY <1>2, <1>3, <1>4, <1>5, <1>6, <1>7, PromiseSteps

(* At most one transfer of a request has brought coins, so that counting   *)
(* them tells the same as whether there is one.                            *)
LEMMA CountOfOne ==
  ASSUME NEW S, \A i, j \in S : i = j
  PROVE  Cardinality(S) = IF S = {} THEN 0 ELSE 1
  <1>1. CASE S = {}
    BY <1>1, FS_EmptySet
  <1>2. CASE S # {}
    <2>1. PICK i \in S : TRUE
      BY <1>2
    <2>2. S = {i}
      BY <2>1
    <2>3. QED
      BY <1>2, <2>2, FS_Singleton
  <1>3. QED
    BY <1>1, <1>2

LEMMA CountsOfPaid ==
  ASSUME Typed, Typed', OnePayment, OnePayment'
  PROVE  Counts = OnceEach(PaidRequests) /\ Counts' = OnceEach(PaidRequests')
  <1>1. DOMAIN txs = 1 .. Len(txs) /\ DOMAIN txs' = 1 .. Len(txs')
    BY DEF Typed
  <1>2. ASSUME NEW r \in Request
        PROVE  Payments(r) = IF r \in PaidRequests THEN 1 ELSE 0
    <2> DEFINE S == {i \in DOMAIN txs : txs[i].by = r /\ txs[i].fate = "paid"}
    <2>1. \A i, j \in S : i = j
      BY <1>1 DEF OnePayment
    <2>2. S = {} <=> r \notin PaidRequests
      BY DEF PaidRequests, Paid
    <2> HIDE DEF S
    <2>3. Cardinality(S) = IF r \in PaidRequests THEN 1 ELSE 0
      BY <2>1, <2>2, CountOfOne
    <2>4. QED
      BY <2>3 DEF Payments, S
  <1>3. ASSUME NEW r \in Request
        PROVE  Payments(r)' = IF r \in PaidRequests' THEN 1 ELSE 0
    <2> DEFINE S == {i \in DOMAIN txs' : txs'[i].by = r /\ txs'[i].fate = "paid"}
    <2>1. \A i, j \in S : i = j
      BY <1>1 DEF OnePayment
    <2>2. S = {} <=> r \notin PaidRequests'
      BY DEF PaidRequests, Paid
    <2> HIDE DEF S
    <2>3. Cardinality(S) = IF r \in PaidRequests' THEN 1 ELSE 0
      BY <2>1, <2>2, CountOfOne
    <2>4. QED
      BY <2>3 DEF Payments, S
  <1>4. QED
    BY <1>2, <1>3 DEF Counts, OnceEach

(* Requests whose transfers are as they were are paid as they were.        *)
LEMMA PaidAlone ==
  ASSUME Typed, Typed', Kept,
         \A i \in 1 .. Len(txs') :
           txs'[i].by \in Request =>
             i \in 1 .. Len(txs) /\ (txs'[i].fate = "paid" => txs[i].fate = "paid")
  PROVE  PaidRequests' = PaidRequests
  <1>1. /\ DOMAIN txs = 1 .. Len(txs) /\ DOMAIN txs' = 1 .. Len(txs')
        /\ Len(txs) \in Nat /\ Len(txs') \in Nat
    BY DEF Typed
  <1>2. \A r \in Request : Paid(r)' <=> Paid(r)
    <2>1. TAKE r \in Request
    <2>2. ASSUME Paid(r) PROVE Paid(r)'
      BY <1>1, <2>2 DEF Paid, Kept
    <2>3. ASSUME Paid(r)' PROVE Paid(r)
      BY <1>1, <2>3 DEF Paid, Kept
    <2>4. QED
      BY <2>2, <2>3
  <1>3. QED
    BY <1>2 DEF PaidRequests

LEMMA PromiseStutters ==
  ASSUME UNCHANGED <<Asked, Counts, answer>>
  PROVE  UNCHANGED Promise!vars
  BY DEF Asked, Counts, Promise!vars

LEMMA PromiseAsks ==
  ASSUME NEW r \in Request, r \notin Asked, Asked' = Asked \cup {r},
         Counts' = Counts,
         \/ answer' = answer
         \/ \E kind \in {"limited", "badAddress"} : answer' = [answer EXCEPT ![r] = kind]
  PROVE  Promise!Next
  <1>1. Promise!Ask(r)
    BY DEF Asked, Counts, Promise!Ask, Promise!NoCoins
  <1>2. QED
    BY <1>1 DEF Promise!Next

LEMMA PromisePays ==
  ASSUME NEW r \in Request, r \in Asked \ PaidRequests, answer[r] \notin Promise!NoCoins,
         Counts = OnceEach(PaidRequests), Counts' = OnceEach(PaidRequests'),
         PaidRequests' = PaidRequests \cup {r}, UNCHANGED <<Asked, answer>>
  PROVE  Promise!Next
  <1>1. Counts[r] = 0 /\ Counts' = [Counts EXCEPT ![r] = 1]
    BY DEF OnceEach
  <1>2. Promise!Pay(r)
    BY <1>1 DEF Asked, Counts, Promise!Pay
  <1>3. QED
    BY <1>2 DEF Promise!Next

LEMMA PromiseReplies ==
  ASSUME answer' \in [Request -> Reply], UNCHANGED <<Asked, Counts>>,
         Counts = OnceEach(PaidRequests),
         \A r \in Request :
           answer'[r] # answer[r] =>
             /\ r \in Asked /\ answer[r] = "none"
             /\ \/ answer'[r] \in Promise!Errors
                \/ r \in PaidRequests /\ answer'[r] = "sent"
                \/ r \notin PaidRequests /\ answer'[r] \in Promise!NoCoins
  PROVE  Promise!Next
  <1>1. Reply = {"none", "sent"} \cup Promise!NoCoins \cup Promise!Errors
    BY DEF Reply, Promise!NoCoins, Promise!Errors
  <1>2. \A r \in Request : Counts[r] = IF r \in PaidRequests THEN 1 ELSE 0
    BY DEF OnceEach
  <1>3. Promise!Reply
    BY <1>1, <1>2 DEF Asked, Counts, Promise!Reply, Promise!Permitted
  <1>4. QED
    BY <1>3 DEF Promise!Next

(* The steps of the faucet are steps of its promise. *)
LEMMA NextPromise ==
  ASSUME FaucetInv, PromiseInv, [Next]_vars
  PROVE  [Promise!Next]_(Promise!vars)
  <1>1. Typed /\ ServedAfterStart /\ Truthful /\ OwnIsMine /\ ResultIsOwn
    BY DEF FaucetInv
  <1>2. Kept /\ Typed' /\ ResultIsOwn' /\ PromiseInv'
    BY <1>1, NextKept, NextTyped, NextResultIsOwn, NextPromiseInv
  <1>counted. /\ Counts = OnceEach(PaidRequests) /\ Counts' = OnceEach(PaidRequests')
              /\ PaidRequests' = PaidRequests => Counts' = Counts
    BY <1>1, <1>2, CountsOfPaid DEF PromiseInv
  <1>3. /\ Len(txs) \in Nat /\ DOMAIN txs = 1 .. Len(txs) /\ txs \in Seq(TxRecord)
        /\ Len(txs') \in Nat /\ DOMAIN txs' = 1 .. Len(txs')
        /\ pc \in [Process -> Place] /\ answer \in [Request -> Reply]
        /\ answer' \in [Request -> Reply]
        /\ Request \subseteq Process
    BY <1>1, <1>2, Processes DEF Typed
  <1>4. ASSUME NEW r \in Request, Moves(r) PROVE [Promise!Next]_(Promise!vars)
    <2>0. txs' = txs /\ PaidRequests' = PaidRequests
      <3>1. txs' = txs
        BY <1>4 DEF Moves
      <3>2. QED
        BY <3>1 DEF PaidRequests, Paid
    <2>1. PICK place \in Working : pc' = [pc EXCEPT ![r] = place]
      BY <1>4 DEF Moves
    <2>2. /\ pc'[r] # "new" /\ answer' = answer
          /\ \A q \in Request : q # r => pc'[q] = pc[q]
      BY <1>3, <1>4, <2>1 DEF Working, Moves
    <2>3. Asked' = Asked \cup {r}
      BY <2>2 DEF Asked
    <2>4. CASE r \in Asked
      BY <1>counted, <2>0, <2>2, <2>3, <2>4, PromiseStutters
    <2>5. CASE r \notin Asked
      BY <1>counted, <2>0, <2>2, <2>3, <2>5, PromiseAsks
    <2>6. QED
      BY <2>4, <2>5
  <1>5. ASSUME NEW r \in Request, NEW kind \in Reply, Ends(r, kind)
        PROVE  [Promise!Next]_(Promise!vars)
    <2>0. txs' = txs /\ PaidRequests' = PaidRequests
      <3>1. txs' = txs
        BY <1>5 DEF Ends
      <3>2. QED
        BY <3>1 DEF PaidRequests, Paid
    <2>1. /\ pc'[r] = "answered" /\ answer'[r] = kind
          /\ answer' = [answer EXCEPT ![r] = kind]
          /\ \A q \in Request : q # r => pc'[q] = pc[q] /\ answer'[q] = answer[q]
      BY <1>3, <1>5 DEF Ends
    <2>2. Asked' = Asked \cup {r}
      BY <2>1 DEF Asked
    <2>3. CASE pc[r] = "new"
      <3>1. kind \in {"limited", "badAddress"} /\ r \notin Asked
        BY <1>5, <2>3 DEF Ends, Working, Asked
      <3>2. QED
        BY <1>counted, <2>0, <2>1, <2>2, <3>1, PromiseAsks
    <2>4. CASE pc[r] # "new"
      <3>1. Asked' = Asked /\ r \in Asked
        BY <2>2, <2>4 DEF Asked
      <3>2. answer[r] = "none"
        BY <1>5 DEF PromiseInv, AnswerStands, Ends, Working
      <3>3. \/ kind \in Promise!Errors
            \/ r \in PaidRequests /\ kind = "sent"
            \/ r \notin PaidRequests /\ kind \in Promise!NoCoins
        <4>1. CASE kind = "enough" /\ pc[r] = "balance"
          <5>1. r \notin PaidRequests
            BY <1>3, <4>1 DEF PromiseInv, OnePayment, Early, PaidRequests, Paid
          <5>2. QED
            BY <4>1, <5>1 DEF Promise!NoCoins
        <4>2. CASE kind = "sent"
          BY <1>2, <2>0, <2>1, <4>2 DEF ResultIsOwn, Paid, PaidRequests
        <4>3. CASE kind = "txFailed"
          <5>1. PICK i \in 1 .. Len(txs) : txs[i].by = r /\ txs[i].fate = "reverted"
            BY <1>2, <1>3, <2>0, <2>1, <4>3 DEF ResultIsOwn
          <5>2. \A j \in 1 .. Len(txs) : txs[j].by = r => j = i
            BY <5>1 DEF PromiseInv, OnePayment
          <5>3. r \notin PaidRequests
            BY <1>3, <5>1, <5>2 DEF PaidRequests, Paid
          <5>4. QED
            BY <4>3, <5>3 DEF Promise!NoCoins
        <4>4. CASE kind \in Promise!Errors
          BY <4>4
        <4>5. QED
          BY <1>5, <2>4, <4>1, <4>2, <4>3, <4>4 DEF Ends
      <3>4. QED
        BY <1>counted, <1>3, <2>0, <2>1, <3>1, <3>2, <3>3, PromiseReplies
    <2>5. QED
      BY <2>3, <2>4
  <1>6. ASSUME NEW r \in Request, Sends(r) PROVE [Promise!Next]_(Promise!vars)
    <2>1. /\ Len(txs') = Len(txs) + 1 /\ txs'[Len(txs) + 1].fate = "wire"
          /\ txs'[Len(txs) + 1].by = r
          /\ \A i \in 1 .. Len(txs) : txs'[i] = txs[i]
      BY <1>3, <1>6 DEF Sends, NewTx
    <2>2. /\ pc'[r] = "listen" /\ pc[r] = "generate" /\ answer' = answer
          /\ \A q \in Request : q # r => pc'[q] = pc[q]
      BY <1>3, <1>6 DEF Sends
    <2>3. Asked' = Asked
      BY <2>2 DEF Asked
    <2>4. \A i \in 1 .. Len(txs') : txs'[i].fate = "paid" => i \in 1 .. Len(txs)
      BY <1>3, <2>1
    <2>5. \A q \in Request : Paid(q)' <=> Paid(q)
      BY <1>3, <2>1, <2>4 DEF Paid
    <2>6. PaidRequests' = PaidRequests
      BY <2>5 DEF PaidRequests
    <2>7. QED
      BY <1>counted, <2>2, <2>3, <2>6, PromiseStutters
  <1>7. ASSUME NEW i \in DOMAIN txs, txs' = [txs EXCEPT ![i].fate = "paid"],
               txs[i].fate = "pool", UNCHANGED <<pc, answer>>
        PROVE  [Promise!Next]_(Promise!vars)
    <2>1. /\ Len(txs') = Len(txs) /\ txs'[i].fate = "paid" /\ txs'[i].by = txs[i].by
          /\ \A j \in 1 .. Len(txs) : j # i => txs'[j] = txs[j]
      BY <1>3, <1>7
    <2>2. Asked' = Asked
      BY <1>7 DEF Asked
    <2>3. \A q \in Request : Paid(q)' <=> (Paid(q) \/ q = txs[i].by)
      BY <1>3, <1>7, <2>1 DEF Paid
    <2>4. CASE txs[i].by \in Request
      <3> DEFINE r == txs[i].by
      <3>1. \A j \in 1 .. Len(txs) : txs[j].by = r => j = i
        BY <1>3, <2>4 DEF PromiseInv, OnePayment
      <3>2. r \notin PaidRequests
        BY <1>3, <1>7, <3>1 DEF PaidRequests, Paid
      <3>3. r \in Asked
        BY <1>3, <2>4 DEF PromiseInv, OnePayment, Early, Asked
      <3>4. answer[r] \notin Promise!NoCoins
        <4>1. answer[r] \notin Refusals
          BY <1>3, <2>4 DEF PromiseInv, AnswerStands
        <4>2. answer[r] # "txFailed"
          BY <1>1, <1>3, <1>7, <2>4, <3>1 DEF ResultIsOwn
        <4>3. QED
          BY <4>1, <4>2 DEF Refusals, Promise!NoCoins
      <3>5. PaidRequests' = PaidRequests \cup {r}
        BY <2>3, <2>4 DEF PaidRequests
      <3> HIDE DEF r
      <3>6. r \in Request
        BY <2>4 DEF r
      <3>7. QED
        BY <1>counted, <1>7, <2>2, <3>2, <3>3, <3>4, <3>5, <3>6, PromisePays
    <2>5. CASE txs[i].by \notin Request
      <3>1. PaidRequests' = PaidRequests
        BY <2>3, <2>5 DEF PaidRequests
      <3>2. QED
        BY <1>counted, <1>7, <2>2, <3>1, PromiseStutters
    <2>6. QED
      BY <2>4, <2>5
  <1>8. CASE Restart
    <2>1. PaidRequests' = PaidRequests
      BY <1>1, <1>2, <1>8, PaidAlone, UnheardAside DEF Restart
    <2>2. \A r \in Request : pc'[r] = IF pc[r] = "new" THEN "new" ELSE "answered"
      BY <1>8, Processes DEF Restart
    <2>3. \A r \in Request :
            answer'[r] = IF pc[r] \in {"new", "answered"} THEN answer[r] ELSE "cut"
      BY <1>8 DEF Restart
    <2>4. Asked' = Asked
      BY <2>2 DEF Asked
    <2>5. \A r \in Request :
            answer'[r] # answer[r] =>
              r \in Asked /\ answer[r] = "none" /\ answer'[r] \in Promise!Errors
      BY <2>3 DEF Asked, PromiseInv, AnswerStands, Promise!Errors
    <2>6. QED
      BY <1>counted, <1>3, <2>1, <2>4, <2>5, PromiseReplies
  <1>9. CASE Aside
    <2>1. PaidRequests' = PaidRequests
      BY <1>1, <1>2, <1>9, PaidAlone DEF Aside
    <2>2. Asked' = Asked /\ answer' = answer
      BY <1>9 DEF Aside, Asked
    <2>3. QED
      BY <1>counted, <2>1, <2>2, PromiseStutters
  <1>10. QED
    BY <1>1, <1>4, <1>5, <1>6, <1>7, <1>8, <1>9, PromiseSteps

(* The same of the start. *)
LEMMA InitPromise ==
  ASSUME Init
  PROVE  PromiseInv /\ Promise!Init
  <1>1. /\ txs = << >> /\ Len(txs) = 0
        /\ \A r \in Request : pc[r] = "new" /\ answer[r] = "none"
    BY Processes DEF Init
  <1>2. PromiseInv
    BY <1>1 DEF PromiseInv, OnePayment, AnswerStands, Refusals
  <1>3. Asked = {}
    BY <1>1 DEF Asked
  <1>5. Counts = [r \in Request |-> 0]
    <2>1. {i \in DOMAIN txs : FALSE} = {} /\ DOMAIN txs = {}
      BY <1>1
    <2>2. ASSUME NEW r \in Request PROVE Payments(r) = 0
      <3>1. {i \in DOMAIN txs : txs[i].by = r /\ txs[i].fate = "paid"} = {}
        BY <2>1
      <3>2. QED
        BY <3>1, FS_EmptySet DEF Payments
    <2>3. QED
      BY <2>2 DEF Counts
  <1>4. answer = [r \in Request |-> "none"]
    BY DEF Init
  <1>6. QED
    BY <1>2, <1>3, <1>4, <1>5 DEF Asked, Counts, Promise!Init

(* The faucet implements its promise: the coins of a request arrive once   *)
(* at most, "sent" is answered only after they have arrived, and none      *)
(* arrive after an answer that none are given (transferCoins).             *)
THEOREM FaucetKeepsPromise == Spec => KeepsPromise
  <1>1. Init => PromiseInv /\ Promise!Init
    BY InitPromise
  <1>2. FaucetInv /\ PromiseInv /\ [Next]_vars => PromiseInv'
    BY NextPromiseInv DEF FaucetInv
  <1>3. FaucetInv /\ PromiseInv /\ [Next]_vars => [Promise!Next]_(Promise!vars)
    BY NextPromise
  <1> QED
    BY <1>1, <1>2, <1>3, FaucetInvariant, PTL DEF Spec, KeepsPromise, Promise!Spec
=============================================================================
