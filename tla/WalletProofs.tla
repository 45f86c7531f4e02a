---------------------------- MODULE WalletProofs ----------------------------
(***************************************************************************)
(* Theorems about the wallet behind the gate, for any signers, requests,   *)
(* transactions and mounts: whose balance it shows and how old it is, what *)
(* the spinner stands for, what becomes of typed inputs, and the order of  *)
(* the list of blocks.                                                     *)
(***************************************************************************)
EXTENDS Wallet, TLAPS

Request == [addr : Address, pc : {"sent", "read", "done"}, got : -1 .. MaxChanges]

Sending == [addr : Address, pc : {"sent", "accepted", "done"}, made : 0 .. MaxChanges]

SubOf(m, h) == [mount : 1 .. m, at : 0 .. h,
                pc : {"pending", "listening", "failed", "ended"},
                left : BOOLEAN, timer : BOOLEAN]

LEMMA Constants ==
  /\ NoWallet \notin Address
  /\ MaxChanges \in Nat
  /\ MaxShown \in Nat /\ MaxShown > 0
  /\ \A n \in 0 .. MaxChanges : n \in Nat
  BY WalletAssumption
-----------------------------------------------------------------------------
(* The page as Screen leaves it. *)
PageTyped == /\ build \in Builds
             /\ part \in {"view", "blocks"}
             /\ wallet \in Address \cup {NoWallet} /\ leaving \in BOOLEAN

ActionTyped == /\ {abi, abiLoading, abiError, edited} \subseteq BOOLEAN
               /\ inputs \in {"none", "default", "typed"}
               /\ fields \in {"none", "blank", "default", "typed"}

(* What the user typed is what is executed: every render that could put    *)
(* the defaults there instead is of an action that is new.                 *)
EditedIsTyped == edited => inputs = "typed"

ActionInv == ActionTyped /\ EditedIsTyped

LEMMA RenderedKept ==
  ASSUME ActionInv, {abi, abiLoading, abiError}' \subseteq BOOLEAN, View!Rendered
  PROVE  ActionInv'
  <1>1. CASE ~ View!ActionsShown'
    <2>1. inputs' = "none" /\ fields' = "none" /\ edited' = FALSE
      BY <1>1 DEF View!Rendered
    <2>2. QED
      BY <2>1 DEF ActionInv, ActionTyped, EditedIsTyped
  <1>2. CASE View!ActionsShown' /\ ~ View!ActionsShown
    <2>1. inputs' = "default" /\ fields' = "blank" /\ edited' = FALSE
      BY <1>2 DEF View!Rendered
    <2>2. QED
      BY <2>1 DEF ActionInv, ActionTyped, EditedIsTyped
  <1>3. CASE View!ActionsShown' /\ View!ActionsShown
    <2>1. fields' = inputs /\ inputs' = inputs /\ edited' = edited
      BY <1>3 DEF View!Rendered
    <2>2. QED
      BY <2>1 DEF ActionInv, ActionTyped, EditedIsTyped
  <1>4. QED
    BY <1>1, <1>2, <1>3

LEMMA RenderedIfChangedKept ==
  ASSUME ActionInv, UNCHANGED <<abi, abiLoading, abiError>>, View!RenderedIfChanged
  PROVE  ActionInv'
  <1>1. {abi, abiLoading, abiError}' \subseteq BOOLEAN
    BY DEF ActionInv, ActionTyped
  <1>2. View!Rendered \/ UNCHANGED <<inputs, fields, edited>>
    BY DEF View!RenderedIfChanged, View!actionState
  <1>3. QED
    BY <1>1, <1>2, RenderedKept DEF ActionInv, ActionTyped, EditedIsTyped

LEMMA LoggedKept ==
  ASSUME ActionInv, UNCHANGED <<abi, abiLoading, abiError>>, View!Logged
  PROVE  ActionInv'
  <1>1. /\ fields' = inputs \/ fields' = "none"
        /\ inputs' = inputs /\ edited' = edited
    BY DEF View!Logged
  <1>2. QED
    BY <1>1 DEF ActionInv, ActionTyped, EditedIsTyped

(* No answer and no user puts anything else into what was typed. *)
LEMMA AnswersKeepAction ==
  ASSUME ActionInv, View!Answers \/ View!User(wallet)
  PROVE  ActionInv'
  <1> DEFINE abis == <<abi, abiLoading, abiError>>
  <1>1. UNCHANGED abis => {abi, abiLoading, abiError}' \subseteq BOOLEAN
    BY DEF ActionInv, ActionTyped
  <1>2. CASE View!Refresh(wallet)
    BY <1>1, <1>2, RenderedKept DEF View!Refresh, View!abiState
  <1>3. CASE View!HandleInputChange
    <2>1. /\ inputs' = "typed" /\ fields' = "typed" /\ edited' = TRUE
          /\ UNCHANGED abis
      BY <1>3 DEF View!HandleInputChange, View!abiState
    <2>2. QED
      BY <2>1 DEF ActionInv, ActionTyped, EditedIsTyped
  <1>4. ASSUME NEW isReadOnly \in BOOLEAN, View!ExecuteAction(wallet, isReadOnly)
        PROVE  ActionInv'
    BY <1>4, LoggedKept DEF View!ExecuteAction, View!abiState
  <1>5. ASSUME NEW i, View!NodeReads(i) PROVE ActionInv'
    BY <1>5 DEF View!NodeReads, View!abiState, View!actionState, ActionInv, ActionTyped,
       EditedIsTyped
  <1>6. ASSUME NEW i, View!BalanceAnswers(i) \/ View!BalanceFails(i) PROVE ActionInv'
    BY <1>6, RenderedIfChangedKept DEF View!BalanceAnswers, View!BalanceFails, View!abiState
  <1>7. CASE View!AbiAnswers
    <2>1. {abi, abiLoading, abiError}' \subseteq BOOLEAN
      BY <1>7 DEF View!AbiAnswers, ActionInv, ActionTyped
    <2>2. QED
      BY <1>7, <2>1, RenderedKept DEF View!AbiAnswers
  <1>8. ASSUME NEW i, View!TxSucceeds(i) \/ View!TxFails(i) PROVE ActionInv'
    BY <1>8, LoggedKept DEF View!TxSucceeds, View!TxFails, View!abiState
  <1>9. ASSUME NEW i, View!TxAccepted(i) \/ View!Elsewhere(i) PROVE ActionInv'
    BY <1>9 DEF View!TxAccepted, View!Elsewhere, View!abiState, View!actionState, ActionInv,
       ActionTyped, EditedIsTyped
  <1>10. QED
    BY <1>2, <1>3, <1>4, <1>5, <1>6, <1>7, <1>8, <1>9 DEF View!Answers, View!Answer, View!User

(* Neither do the mounts of the page. *)
LEMMA PageKeepsAction ==
  ASSUME ActionInv,
         \/ \E a \in Address : Hand(a) \/ \E brief \in BOOLEAN : Show(a, brief)
         \/ Leave
  PROVE  ActionInv'
  <1>1. \/ UNCHANGED view
        \/ View!Rendered /\ {abi, abiLoading, abiError}' \subseteq BOOLEAN
    <2>1. ASSUME NEW a \in Address, Hand(a)
          PROVE  \/ UNCHANGED view
                 \/ View!Rendered /\ {abi, abiLoading, abiError}' \subseteq BOOLEAN
      BY <2>1 DEF Hand, View!NewAddress, View!abiState, ActionInv, ActionTyped
    <2>2. ASSUME NEW a \in Address, NEW brief \in BOOLEAN, Show(a, brief)
          PROVE  \/ UNCHANGED view
                 \/ View!Rendered /\ {abi, abiLoading, abiError}' \subseteq BOOLEAN
      BY <2>2 DEF Show, View!Mount
    <2>3. CASE Leave
      BY <2>3 DEF Leave, View!Unmount
    <2>4. QED
      BY <2>1, <2>2, <2>3
  <1>2. QED
    BY <1>1, RenderedKept DEF view, ActionInv, ActionTyped, EditedIsTyped
-----------------------------------------------------------------------------
RequestTyped == /\ chain \in [Address -> 0 .. MaxChanges]
                /\ asks \in Seq(Request)
                /\ balance \in 0 .. Len(asks)
                /\ balanceLoading \in BOOLEAN /\ balanceError \in BOOLEAN
                /\ sends \in Seq(Sending)
                /\ told \in 0 .. MaxChanges

Shows == part = "view" /\ wallet # NoWallet

Stays == Shows /\ ~ leaving

(* While the wallet stays, all it has asked and sent is of its address. *)
OwnOnly == Stays => /\ \A i \in DOMAIN asks : asks[i].addr = wallet
                    /\ \A i \in DOMAIN sends : sends[i].addr = wallet

(* The last request is answered with what is at least as new as what a     *)
(* transaction's success has told.                                         *)
LastIsNew ==
  Stays => /\ told <= chain[wallet]
           /\ \A i \in DOMAIN sends : sends[i].made <= chain[wallet]
           /\ \A i \in DOMAIN asks :
                i = Len(asks) /\ (asks[i].pc = "read" \/ balance = i) => asks[i].got >= told

Unused == part = "blocks" => asks = << >> /\ balance = 0

RequestInv == /\ RequestTyped /\ SpinnerHasRequest /\ OwnOnly /\ LastIsNew /\ Unused

(* What the invariant says of is left alone. *)
LEMMA RequestsAlone ==
  ASSUME RequestInv,
         UNCHANGED <<part, wallet, leaving, chain, asks, balance, balanceLoading,
                     balanceError, sends, told>>
  PROVE  RequestInv'
  BY DEF RequestInv, RequestTyped, SpinnerHasRequest, View!Awaited, OwnOnly, LastIsNew,
     Unused, Stays, Shows

(* A request is added: it is awaited, and will be answered with what the   *)
(* chain has by then.                                                      *)
LEMMA FetchKept ==
  ASSUME RequestInv, NEW a \in Address, View!FetchBalance(a),
         sends' \in Seq(Sending), told' \in 0 .. MaxChanges, UNCHANGED chain,
         part = "view", UNCHANGED <<part, wallet>>,
         Stays' => /\ Stays /\ a = wallet
                   /\ told' <= chain[wallet]
                   /\ \A i \in DOMAIN sends' : /\ sends'[i].addr = wallet
                                               /\ sends'[i].made <= chain[wallet]
  PROVE  RequestInv'
  <1> DEFINE ask == View!Ask(a)
  <1>1. /\ ask \in Request /\ ask.addr = a /\ ask.pc = "sent"
    BY Constants DEF View!Ask, Request
  <1>2. /\ asks' = Append(asks, ask)
        /\ balanceLoading' = TRUE
        /\ balance' = balance /\ balanceError' = balanceError
    BY DEF View!FetchBalance
  <1> HIDE DEF ask
  <1>3. asks \in Seq(Request) /\ balance \in 0 .. Len(asks)
    BY DEF RequestInv, RequestTyped
  <1>4. /\ asks' \in Seq(Request) /\ Len(asks') = Len(asks) + 1
        /\ \A i \in DOMAIN asks : asks'[i] = asks[i]
        /\ asks'[Len(asks')] = ask /\ Len(asks') \in DOMAIN asks'
    BY <1>1, <1>2, <1>3
  <1>5. RequestTyped'
    BY <1>2, <1>3, <1>4 DEF RequestInv, RequestTyped
  <1>6. SpinnerHasRequest'
    <2>1. View!Awaited'
      BY <1>1, <1>4 DEF View!Awaited
    <2>2. QED
      BY <2>1 DEF SpinnerHasRequest
  <1>7. \A i \in DOMAIN asks' : i \in DOMAIN asks \/ (i = Len(asks') /\ asks'[i] = ask)
    BY <1>3, <1>4
  <1>8. OwnOnly'
    BY <1>1, <1>4, <1>7 DEF RequestInv, OwnOnly, Stays, Shows
  <1>9. LastIsNew'
    <2>1. SUFFICES ASSUME Stays' PROVE LastIsNew'
      BY DEF LastIsNew
    <2>2. asks'[Len(asks')].pc = "sent" /\ balance' # Len(asks')
      BY <1>1, <1>2, <1>3, <1>4
    <2>3. QED
      BY <2>1, <2>2 DEF LastIsNew
  <1>10. Unused'
    BY DEF Unused
  <1>11. QED
    BY <1>5, <1>6, <1>8, <1>9, <1>10 DEF RequestInv

(* The page and what was sent are left alone. *)
PageAlone == UNCHANGED <<part, wallet, leaving, sends, told>>

(* One request is changed: its address stays. *)
LEMMA OneRequest ==
  ASSUME RequestTyped, NEW i \in DOMAIN asks, NEW request \in Request,
         request.addr = asks[i].addr, asks' = [asks EXCEPT ![i] = request]
  PROVE  /\ asks' \in Seq(Request) /\ Len(asks') = Len(asks) /\ DOMAIN asks' = DOMAIN asks
         /\ asks'[i] = request
         /\ \A j \in DOMAIN asks : j # i => asks'[j] = asks[j]
         /\ \A j \in DOMAIN asks : asks'[j].addr = asks[j].addr
  <1>1. asks \in Seq(Request)
    BY DEF RequestTyped
  <1>2. QED
    BY <1>1

LEMMA NodeReadsKept ==
  ASSUME RequestInv, NEW i \in DOMAIN asks, View!NodeReads(i), PageAlone
  PROVE  RequestInv'
  <1> DEFINE request == [asks[i] EXCEPT !.pc = "read", !.got = chain[asks[i].addr]]
  <1>1. /\ asks[i].pc = "sent"
        /\ asks' = [asks EXCEPT ![i].pc = "read", ![i].got = chain[asks[i].addr]]
        /\ UNCHANGED <<chain, balance, balanceLoading, balanceError>>
    BY DEF View!NodeReads
  <1>2. asks \in Seq(Request) /\ asks[i] \in Request /\ RequestTyped
    BY DEF RequestInv, RequestTyped
  <1>3. chain[asks[i].addr] \in -1 .. MaxChanges
    <2>1. chain[asks[i].addr] \in 0 .. MaxChanges
      BY <1>2 DEF RequestTyped, Request
    <2>2. QED
      BY <2>1, Constants
  <1>4. /\ request \in Request /\ request.addr = asks[i].addr
        /\ request.pc = "read" /\ request.got = chain[asks[i].addr]
    BY <1>2, <1>3 DEF Request
  <1>5. asks' = [asks EXCEPT ![i] = request]
    BY <1>1, <1>2
  <1> HIDE DEF request
  <1>6. /\ asks' \in Seq(Request) /\ Len(asks') = Len(asks) /\ DOMAIN asks' = DOMAIN asks
        /\ asks'[i] = request
        /\ \A j \in DOMAIN asks : j # i => asks'[j] = asks[j]
        /\ \A j \in DOMAIN asks : asks'[j].addr = asks[j].addr
    BY <1>2, <1>4, <1>5, OneRequest
  <1>7. RequestTyped'
    BY <1>1, <1>6 DEF RequestInv, RequestTyped, PageAlone
  <1>8. View!Awaited'
    BY <1>4, <1>6 DEF View!Awaited
  <1>9. OwnOnly'
    BY <1>6 DEF RequestInv, OwnOnly, Stays, Shows, PageAlone
  <1>10. LastIsNew'
    <2>1. SUFFICES ASSUME Stays PROVE LastIsNew'
      BY DEF LastIsNew, Stays, Shows, PageAlone
    <2>2. asks[i].addr = wallet /\ told <= chain[wallet]
      BY <2>1 DEF RequestInv, OwnOnly, LastIsNew
    <2>3. wallet \in Address /\ told \in Nat /\ chain[wallet] \in Nat
      BY <1>2, <2>2, Constants DEF RequestInv, RequestTyped, Request
    <2>4. asks'[i].got >= told
      BY <1>4, <1>6, <2>2, <2>3
    <2>5. QED
      BY <1>1, <1>6, <2>1, <2>4 DEF RequestInv, LastIsNew, PageAlone
  <1>11. QED
    <2>1. Unused' /\ SpinnerHasRequest'
      BY <1>1, <1>2, <1>8 DEF RequestInv, SpinnerHasRequest, Unused, PageAlone
    <2>2. QED
      BY <1>7, <1>9, <1>10, <2>1 DEF RequestInv

LEMMA AnswerKept ==
  ASSUME RequestInv, NEW i \in DOMAIN asks, PageAlone,
         View!BalanceAnswers(i) \/ View!BalanceFails(i)
  PROVE  RequestInv'
  <1> DEFINE request == [asks[i] EXCEPT !.pc = "done"]
  <1>1. /\ asks' = [asks EXCEPT ![i].pc = "done"]
        /\ balanceLoading' = FALSE /\ UNCHANGED chain
        /\ \/ asks[i].pc = "read" /\ balance' = i /\ balanceError' = FALSE
           \/ balance' = balance /\ balanceError' = TRUE
    BY DEF View!BalanceAnswers, View!BalanceFails
  <1>2. /\ asks \in Seq(Request) /\ asks[i] \in Request /\ RequestTyped
        /\ balance \in 0 .. Len(asks) /\ i \in 1 .. Len(asks)
    BY DEF RequestInv, RequestTyped
  <1>3. /\ request \in Request /\ request.addr = asks[i].addr
        /\ request.pc = "done" /\ request.got = asks[i].got
    BY <1>2 DEF Request
  <1>4. asks' = [asks EXCEPT ![i] = request]
    BY <1>1, <1>2
  <1> HIDE DEF request
  <1>5. /\ asks' \in Seq(Request) /\ Len(asks') = Len(asks) /\ DOMAIN asks' = DOMAIN asks
        /\ asks'[i] = request
        /\ \A j \in DOMAIN asks : j # i => asks'[j] = asks[j]
        /\ \A j \in DOMAIN asks : asks'[j].addr = asks[j].addr
    BY <1>2, <1>3, <1>4, OneRequest
  <1>6. balance' \in 0 .. Len(asks')
    <2>1. balance' = i \/ balance' = balance
      BY <1>1
    <2>2. QED
      BY <1>2, <1>5, <2>1
  <1>7. RequestTyped'
    BY <1>1, <1>5, <1>6 DEF RequestInv, RequestTyped, PageAlone
  <1>8. SpinnerHasRequest'
    <2>1. balance' # 0 \/ balanceError'
      BY <1>1, <1>2
    <2>2. QED
      BY <1>1, <2>1 DEF SpinnerHasRequest
  <1>9. OwnOnly'
    BY <1>5 DEF RequestInv, OwnOnly, Stays, Shows, PageAlone
  <1>10. LastIsNew'
    <2>1. SUFFICES ASSUME Stays,
                          NEW j \in DOMAIN asks, j = Len(asks),
                          asks'[j].pc = "read" \/ balance' = j
                   PROVE  asks'[j].got >= told
      BY <1>1, <1>5 DEF RequestInv, LastIsNew, Stays, Shows, PageAlone
    <2>2. asks[j].pc = "read" \/ balance = j
      BY <1>1, <1>3, <1>5, <2>1
    <2>3. asks[j].got >= told
      BY <2>1, <2>2 DEF RequestInv, LastIsNew
    <2>4. asks'[j].got = asks[j].got
      BY <1>3, <1>5
    <2>5. QED
      BY <2>3, <2>4
  <1>11. Unused'
    <2>1. part # "blocks"
      BY <1>2 DEF RequestInv, Unused
    <2>2. QED
      BY <2>1 DEF Unused, PageAlone
  <1>12. QED
    BY <1>7, <1>8, <1>9, <1>10, <1>11 DEF RequestInv

(* One transaction is changed: its address stays. *)
LEMMA OneSending ==
  ASSUME RequestTyped, NEW i \in DOMAIN sends, NEW sending \in Sending,
         sending.addr = sends[i].addr, sends' = [sends EXCEPT ![i] = sending]
  PROVE  /\ sends' \in Seq(Sending) /\ DOMAIN sends' = DOMAIN sends
         /\ sends'[i] = sending
         /\ \A j \in DOMAIN sends : j # i => sends'[j] = sends[j]
         /\ \A j \in DOMAIN sends : sends'[j].addr = sends[j].addr
  <1>1. sends \in Seq(Sending)
    BY DEF RequestTyped
  <1>2. QED
    BY <1>1

(* Nothing about the requests and the page changes. *)
AsksAlone == UNCHANGED <<part, wallet, leaving, asks, balance, balanceLoading, balanceError>>

(* Balances only grow newer, so what was read stays new enough. *)
LEMMA SendsKept ==
  ASSUME RequestInv, AsksAlone, UNCHANGED told,
         chain' \in [Address -> 0 .. MaxChanges], sends' \in Seq(Sending),
         Stays => /\ told <= chain'[wallet]
                  /\ \A i \in DOMAIN sends' : /\ sends'[i].addr = wallet
                                              /\ sends'[i].made <= chain'[wallet]
  PROVE  RequestInv'
  <1>1. RequestTyped'
    BY DEF RequestInv, RequestTyped, AsksAlone
  <1>2. SpinnerHasRequest' /\ Unused'
    BY DEF RequestInv, SpinnerHasRequest, View!Awaited, Unused, AsksAlone
  <1>3. OwnOnly'
    BY DEF RequestInv, OwnOnly, Stays, Shows, AsksAlone
  <1>4. LastIsNew'
    BY DEF RequestInv, LastIsNew, Stays, Shows, AsksAlone
  <1>5. QED
    BY <1>1, <1>2, <1>3, <1>4 DEF RequestInv

LEMMA TxAcceptedKept ==
  ASSUME RequestInv, NEW i \in DOMAIN sends, View!TxAccepted(i),
         UNCHANGED <<part, wallet, leaving>>
  PROVE  RequestInv'
  <1> DEFINE a == sends[i].addr
             sending == [sends[i] EXCEPT !.pc = "accepted", !.made = chain'[a]]
  <1>1. /\ chain[a] < MaxChanges
        /\ chain' = [chain EXCEPT ![a] = @ + 1]
        /\ sends' = [sends EXCEPT ![i].pc = "accepted", ![i].made = chain'[a]]
        /\ AsksAlone /\ UNCHANGED told
    BY DEF View!TxAccepted, View!balanceState, AsksAlone
  <1>2. /\ sends \in Seq(Sending) /\ sends[i] \in Sending
        /\ chain \in [Address -> 0 .. MaxChanges] /\ told \in 0 .. MaxChanges
    BY DEF RequestInv, RequestTyped
  <1>3. a \in Address
    BY <1>2 DEF Sending
  <1>4. /\ chain' \in [Address -> 0 .. MaxChanges]
        /\ \A x \in Address : chain[x] \in Nat /\ chain'[x] \in Nat /\ chain[x] <= chain'[x]
    <2>1. \A x \in Address : chain[x] \in 0 .. MaxChanges
      BY <1>2
    <2>2. \A x \in Address : chain'[x] = IF x = a THEN chain[x] + 1 ELSE chain[x]
      BY <1>1, <1>2, <1>3
    <2>3. \A x \in Address : chain'[x] \in 0 .. MaxChanges
      BY <1>1, <1>3, <2>1, <2>2, Constants
    <2>4. DOMAIN chain' = Address /\ chain' = [x \in DOMAIN chain' |-> chain'[x]]
      BY <1>1, <1>2
    <2>5. chain' \in [Address -> 0 .. MaxChanges]
      BY <2>3, <2>4
    <2>6. QED
      BY <2>1, <2>2, <2>5, Constants
  <1>5. chain'[a] \in 0 .. MaxChanges
    BY <1>3, <1>4
  <1>6. sending \in Sending /\ sending.addr = sends[i].addr /\ sending.made = chain'[a]
    BY <1>2, <1>5 DEF Sending
  <1>7. sends' = [sends EXCEPT ![i] = sending]
    <2> DEFINE made == chain'[a]
    <2>1. sends' = [sends EXCEPT ![i].pc = "accepted", ![i].made = made]
      BY DEF View!TxAccepted
    <2>2. sending = [sends[i] EXCEPT !.pc = "accepted", !.made = made]
      OBVIOUS
    <2> HIDE DEF made, sending
    <2>3. QED
      BY <1>2, <2>1, <2>2
  <1> HIDE DEF sending
  <1>8. /\ sends' \in Seq(Sending) /\ DOMAIN sends' = DOMAIN sends
        /\ sends'[i] = sending
        /\ \A j \in DOMAIN sends : j # i => sends'[j] = sends[j]
        /\ \A j \in DOMAIN sends : sends'[j].addr = sends[j].addr
    BY <1>6, <1>7, OneSending DEF RequestInv
  <1>9. ASSUME Stays
        PROVE  /\ told <= chain'[wallet]
               /\ \A j \in DOMAIN sends' : /\ sends'[j].addr = wallet
                                           /\ sends'[j].made <= chain'[wallet]
    <2>1. /\ told <= chain[wallet]
          /\ \A j \in DOMAIN sends : sends[j].addr = wallet /\ sends[j].made <= chain[wallet]
      BY <1>9 DEF RequestInv, OwnOnly, LastIsNew
    <2>2. a = wallet /\ wallet \in Address
      BY <1>3, <2>1
    <2>3. /\ chain[wallet] \in Nat /\ chain'[wallet] \in Nat
          /\ chain[wallet] <= chain'[wallet] /\ told \in Nat
      BY <1>2, <1>4, <2>2, Constants
    <2>4. ASSUME NEW j \in DOMAIN sends PROVE sends'[j].made <= chain'[wallet]
      <3>1. CASE j = i
        BY <1>6, <1>8, <2>2, <2>3, <3>1
      <3>2. CASE j # i
        <4>1. sends[j].made \in Nat
          <5>1. sends[j] \in Sending
            BY <1>2, <2>4
          <5>2. QED
            BY <5>1, Constants DEF Sending
        <4>2. QED
          BY <1>8, <2>1, <2>3, <2>4, <3>2, <4>1
      <3>3. QED
        BY <3>1, <3>2
    <2>5. QED
      BY <1>8, <2>1, <2>3, <2>4
  <1>10. QED
    BY <1>1, <1>4, <1>8, <1>9, SendsKept

LEMMA ElsewhereKept ==
  ASSUME RequestInv, PageTyped, NEW a \in Address, View!Elsewhere(a),
         UNCHANGED <<part, wallet, leaving>>
  PROVE  RequestInv'
  <1>1. /\ chain[a] < MaxChanges
        /\ chain' = [chain EXCEPT ![a] = @ + 1]
        /\ sends' = sends /\ AsksAlone /\ UNCHANGED told
    BY DEF View!Elsewhere, View!balanceState, AsksAlone
  <1>2. /\ sends \in Seq(Sending)
        /\ chain \in [Address -> 0 .. MaxChanges] /\ told \in 0 .. MaxChanges
    BY DEF RequestInv, RequestTyped
  <1>3. chain[a] \in 0 .. MaxChanges
    BY <1>2
  <1>4. chain[a] + 1 \in 0 .. MaxChanges
    BY <1>1, <1>3, Constants
  <1>5. chain' \in [Address -> 0 .. MaxChanges]
    BY <1>1, <1>2, <1>4
  <1>6. ASSUME Stays
        PROVE  /\ told <= chain'[wallet]
               /\ \A j \in DOMAIN sends : /\ sends[j].addr = wallet
                                          /\ sends[j].made <= chain'[wallet]
    <2>1. wallet \in Address
      BY <1>6 DEF Stays, Shows, PageTyped
    <2>2. /\ told <= chain[wallet]
          /\ \A j \in DOMAIN sends : sends[j].addr = wallet /\ sends[j].made <= chain[wallet]
      BY <1>6 DEF RequestInv, OwnOnly, LastIsNew
    <2>3. chain[wallet] \in Nat /\ told \in Nat
      BY <1>2, <2>1, Constants
    <2>4. chain'[wallet] = chain[wallet] \/ chain'[wallet] = chain[wallet] + 1
      BY <1>1, <1>2, <2>1
    <2>5. \A j \in DOMAIN sends : sends[j].made \in Nat
      <3>1. \A j \in DOMAIN sends : sends[j] \in Sending
        BY <1>2
      <3>2. QED
        BY <3>1, Constants DEF Sending
    <2>6. QED
      BY <2>2, <2>3, <2>4, <2>5
  <1>7. QED
    BY <1>1, <1>2, <1>5, <1>6, SendsKept

(* A transaction ends, or one is begun. *)
LEMMA TxEnds ==
  ASSUME RequestInv, NEW i \in DOMAIN sends, sends' = [sends EXCEPT ![i].pc = "done"]
  PROVE  /\ sends' \in Seq(Sending) /\ DOMAIN sends' = DOMAIN sends
         /\ \A j \in DOMAIN sends : /\ sends'[j].addr = sends[j].addr
                                    /\ sends'[j].made = sends[j].made
  <1> DEFINE sending == [sends[i] EXCEPT !.pc = "done"]
  <1>1. sends \in Seq(Sending) /\ sends[i] \in Sending
    BY DEF RequestInv, RequestTyped
  <1>2. sending \in Sending /\ sending.addr = sends[i].addr /\ sending.made = sends[i].made
    BY <1>1 DEF Sending
  <1>3. sends' = [sends EXCEPT ![i] = sending]
    BY <1>1
  <1> HIDE DEF sending
  <1>4. QED
    BY <1>2, <1>3, OneSending DEF RequestInv

LEMMA TxFailsKept ==
  ASSUME RequestInv, NEW i \in DOMAIN sends, View!TxFails(i),
         UNCHANGED <<part, wallet, leaving>>
  PROVE  RequestInv'
  <1>1. sends' = [sends EXCEPT ![i].pc = "done"] /\ AsksAlone /\ UNCHANGED <<told, chain>>
    BY DEF View!TxFails, View!balanceState, AsksAlone
  <1>2. /\ sends' \in Seq(Sending) /\ DOMAIN sends' = DOMAIN sends
        /\ \A j \in DOMAIN sends : /\ sends'[j].addr = sends[j].addr
                                   /\ sends'[j].made = sends[j].made
    BY <1>1, TxEnds
  <1>3. chain' \in [Address -> 0 .. MaxChanges]
    BY <1>1 DEF RequestInv, RequestTyped
  <1>4. Stays => /\ told <= chain'[wallet]
                 /\ \A j \in DOMAIN sends' : /\ sends'[j].addr = wallet
                                             /\ sends'[j].made <= chain'[wallet]
    BY <1>1, <1>2 DEF RequestInv, OwnOnly, LastIsNew
  <1>5. QED
    BY <1>1, <1>2, <1>3, <1>4, SendsKept

LEMMA TxSucceedsKept ==
  ASSUME RequestInv, part = "view", NEW i \in DOMAIN sends, View!TxSucceeds(i),
         UNCHANGED <<part, wallet, leaving>>
  PROVE  RequestInv'
  <1>1. /\ sends' = [sends EXCEPT ![i].pc = "done"]
        /\ told' = View!Max2(told, sends[i].made)
        /\ View!FetchBalance(sends[i].addr) /\ UNCHANGED chain
    BY DEF View!TxSucceeds
  <1>2. /\ sends \in Seq(Sending) /\ sends[i] \in Sending /\ told \in 0 .. MaxChanges
    BY DEF RequestInv, RequestTyped
  <1>3. sends[i].addr \in Address /\ sends[i].made \in 0 .. MaxChanges
    BY <1>2 DEF Sending
  <1>4. told' = told \/ told' = sends[i].made
    BY <1>1 DEF View!Max2
  <1>5. told' \in 0 .. MaxChanges
    BY <1>2, <1>3, <1>4
  <1>6. /\ sends' \in Seq(Sending) /\ DOMAIN sends' = DOMAIN sends
        /\ \A j \in DOMAIN sends : /\ sends'[j].addr = sends[j].addr
                                   /\ sends'[j].made = sends[j].made
    BY <1>1, TxEnds
  <1>7. Stays' => /\ Stays /\ sends[i].addr = wallet
                  /\ told' <= chain[wallet]
                  /\ \A j \in DOMAIN sends' : /\ sends'[j].addr = wallet
                                              /\ sends'[j].made <= chain[wallet]
    BY <1>4, <1>6 DEF RequestInv, OwnOnly, LastIsNew, Stays, Shows
  <1>8. QED
    BY <1>1, <1>3, <1>5, <1>6, <1>7, FetchKept

LEMMA ExecuteKept ==
  ASSUME RequestInv, PageTyped, wallet # NoWallet, NEW isReadOnly \in BOOLEAN,
         View!ExecuteAction(wallet, isReadOnly), UNCHANGED <<part, wallet, leaving>>
  PROVE  RequestInv'
  <1> DEFINE sending == [addr |-> wallet, pc |-> "sent", made |-> 0]
  <1>1. AsksAlone /\ UNCHANGED <<told, chain>>
    BY DEF View!ExecuteAction, View!balanceState, AsksAlone
  <1>2. /\ sends \in Seq(Sending) /\ chain' \in [Address -> 0 .. MaxChanges]
        /\ wallet \in Address
    BY <1>1 DEF RequestInv, RequestTyped, PageTyped
  <1>3. sending \in Sending /\ sending.addr = wallet /\ sending.made = 0
    BY <1>2, Constants DEF Sending
  <1>4. sends' = sends \/ sends' = Append(sends, sending)
    BY DEF View!ExecuteAction
  <1> HIDE DEF sending
  <1>5. /\ sends' \in Seq(Sending)
        /\ \A j \in DOMAIN sends' : \/ j \in DOMAIN sends /\ sends'[j] = sends[j]
                                    \/ sends'[j] = sending
    BY <1>2, <1>3, <1>4
  <1>6. chain[wallet] \in Nat /\ chain' = chain
    BY <1>1, <1>2, Constants
  <1>7. Stays => /\ told <= chain'[wallet]
                 /\ \A j \in DOMAIN sends' : /\ sends'[j].addr = wallet
                                             /\ sends'[j].made <= chain'[wallet]
    BY <1>3, <1>5, <1>6 DEF RequestInv, OwnOnly, LastIsNew
  <1>8. QED
    BY <1>1, <1>2, <1>5, <1>7, SendsKept

(* What the user does keeps the requests in order. *)
LEMMA UserKeepsRequests ==
  ASSUME RequestInv, PageTyped, UserActs
  PROVE  RequestInv'
  <1>1. /\ wallet # NoWallet /\ wallet \in Address /\ ~ leaving
        /\ UNCHANGED <<part, wallet, leaving>>
    BY DEF UserActs, page, PageTyped
  <1>2. CASE View!Refresh(wallet)
    <2>1. /\ balance # 0 /\ View!FetchBalance(wallet) /\ UNCHANGED <<chain, sends, told>>
      BY <1>2 DEF View!Refresh
    <2>2. part = "view"
      BY <2>1 DEF RequestInv, Unused, PageTyped
    <2>3. sends' \in Seq(Sending) /\ told' \in 0 .. MaxChanges
      BY <2>1 DEF RequestInv, RequestTyped
    <2>4. Stays' => /\ Stays
                    /\ told' <= chain[wallet]
                    /\ \A i \in DOMAIN sends' : /\ sends'[i].addr = wallet
                                                /\ sends'[i].made <= chain[wallet]
      BY <1>1, <2>1 DEF RequestInv, OwnOnly, LastIsNew, Stays, Shows
    <2>5. QED
      BY <1>1, <2>1, <2>2, <2>3, <2>4, FetchKept
  <1>3. CASE View!HandleInputChange
    BY <1>1, <1>3, RequestsAlone DEF View!HandleInputChange, View!balanceState
  <1>4. ASSUME NEW isReadOnly \in BOOLEAN, View!ExecuteAction(wallet, isReadOnly)
        PROVE  RequestInv'
    BY <1>1, <1>4, ExecuteKept
  <1>5. QED
    BY <1>2, <1>3, <1>4 DEF UserActs, View!User

(* So does every answer, in any order. *)
LEMMA AnswersKeepRequests ==
  ASSUME RequestInv, PageTyped, AnswersArrive
  PROVE  RequestInv'
  <1>1. part = "view" /\ UNCHANGED <<part, wallet, leaving>>
    BY DEF AnswersArrive, page
  <1>2. ASSUME NEW i \in DOMAIN asks, View!Answer(i) PROVE RequestInv'
    <2>1. UNCHANGED <<sends, told>>
      BY <1>2 DEF View!Answer, View!NodeReads, View!BalanceAnswers, View!BalanceFails
    <2>2. QED
      BY <1>1, <1>2, <2>1, NodeReadsKept, AnswerKept DEF View!Answer, PageAlone
  <1>3. CASE View!AbiAnswers
    BY <1>1, <1>3, RequestsAlone DEF View!AbiAnswers, View!balanceState
  <1>4. ASSUME NEW i \in DOMAIN sends,
               View!TxAccepted(i) \/ View!TxSucceeds(i) \/ View!TxFails(i)
        PROVE  RequestInv'
    BY <1>1, <1>4, TxAcceptedKept, TxSucceedsKept, TxFailsKept
  <1>5. ASSUME NEW a \in Address, View!Elsewhere(a) PROVE RequestInv'
    BY <1>1, <1>5, ElsewhereKept
  <1>6. QED
    BY <1>2, <1>3, <1>4, <1>5 DEF AnswersArrive, View!Answers

(* A wallet that is mounted has asked for its own balance only. *)
LEMMA ShowKeepsRequests ==
  ASSUME RequestInv, PageTyped, NEW a \in Address, NEW brief \in BOOLEAN, Show(a, brief)
  PROVE  RequestInv'
  <1>1. part' = part /\ wallet = NoWallet
    BY DEF Show, Page!Show
  <1>2. CASE part = "view"
    <2> DEFINE n == Times
               ask == View!Ask(a)
    <2>1. View!Mount(a, n)
      BY <1>2 DEF Show
    <2>2. n \in 1 .. 2
      BY DEF Times
    <2>3. /\ ask \in Request /\ ask.addr = a /\ ask.pc = "sent"
      BY Constants DEF View!Ask, Request
    <2> HIDE DEF n, ask
    <2>4. /\ asks' = [i \in 1 .. n |-> ask]
          /\ balance' = 0 /\ balanceLoading' = TRUE /\ balanceError' = FALSE
          /\ sends' = << >> /\ told' = 0 /\ UNCHANGED chain
      BY <2>1 DEF View!Mount, ask
    <2>5. /\ asks' \in Seq(Request) /\ Len(asks') = n /\ DOMAIN asks' = 1 .. n
          /\ \A i \in 1 .. n : asks'[i] = ask
      BY <2>2, <2>3, <2>4
    <2>6. RequestTyped'
      <3>1. sends' \in Seq(Sending) /\ told' \in 0 .. MaxChanges
        BY <2>4, Constants
      <3>2. balance' \in 0 .. Len(asks')
        BY <2>2, <2>4, <2>5
      <3>3. QED
        BY <2>4, <2>5, <3>1, <3>2 DEF RequestInv, RequestTyped
    <2>7. View!Awaited'
      <3>1. 1 \in DOMAIN asks' /\ asks'[1].pc = "sent"
        BY <2>2, <2>3, <2>5
      <3>2. QED
        BY <3>1 DEF View!Awaited
    <2>8. wallet' = a /\ DOMAIN sends' = {}
      BY <2>4 DEF Show, Page!Show
    <2>9. OwnOnly'
      BY <2>3, <2>5, <2>8 DEF OwnOnly
    <2>10. LastIsNew'
      <3>1. chain'[a] \in 0 .. MaxChanges /\ told' = 0
        BY <2>4 DEF RequestInv, RequestTyped
      <3>2. told' <= chain'[a]
        BY <3>1, Constants
      <3>3. \A i \in DOMAIN asks' : asks'[i].pc # "read" /\ balance' # i
        BY <2>2, <2>3, <2>4, <2>5
      <3>4. QED
        BY <2>8, <3>2, <3>3 DEF LastIsNew
    <2>11. QED
      BY <1>1, <1>2, <2>6, <2>7, <2>9, <2>10 DEF RequestInv, SpinnerHasRequest, Unused
  <1>3. CASE part = "blocks"
    <2>1. UNCHANGED <<chain, asks, balance, balanceLoading, balanceError, sends, told>>
      BY <1>3 DEF Show, view
    <2>2. ~ Shows /\ ~ Shows'
      BY <1>1, <1>3 DEF Shows
    <2>3. RequestTyped' /\ Unused'
      BY <1>1, <2>1 DEF RequestInv, RequestTyped, Unused
    <2>4. OwnOnly' /\ LastIsNew'
      BY <2>2 DEF OwnOnly, LastIsNew, Stays
    <2>5. SpinnerHasRequest'
      BY <1>1, <1>3, <2>1 DEF RequestInv, SpinnerHasRequest, View!Awaited
    <2>6. QED
      BY <2>3, <2>4, <2>5 DEF RequestInv
  <1>4. QED
    BY <1>2, <1>3 DEF PageTyped

(* A wallet that is handed another address keeps what is of the old one,   *)
(* and is about to be taken down.                                          *)
LEMMA HandKeepsRequests ==
  ASSUME RequestInv, PageTyped, NEW a \in Address, Hand(a)
  PROVE  RequestInv'
  <1>1. /\ part' = part /\ wallet' = a /\ leaving' = TRUE
        /\ a # NoWallet /\ wallet # NoWallet
    BY Constants DEF Hand, Page!Hand
  <1>2. ~ Stays'
    BY <1>1 DEF Stays
  <1>3. OwnOnly' /\ LastIsNew'
    BY <1>2 DEF OwnOnly, LastIsNew
  <1>4. CASE part = "view"
    <2> DEFINE ask == View!Ask(a)
    <2>1. /\ ask \in Request /\ ask.pc = "sent"
      BY Constants DEF View!Ask, Request
    <2>2. /\ asks' = Append(asks, ask)
          /\ balanceLoading' = TRUE
          /\ UNCHANGED <<chain, balance, balanceError, sends, told>>
      BY <1>4 DEF Hand, View!NewAddress, View!FetchBalance
    <2> HIDE DEF ask
    <2>3. asks \in Seq(Request) /\ balance \in 0 .. Len(asks)
      BY DEF RequestInv, RequestTyped
    <2>4. /\ asks' \in Seq(Request) /\ Len(asks') = Len(asks) + 1
          /\ Len(asks') \in DOMAIN asks' /\ asks'[Len(asks')] = ask
      BY <2>1, <2>2, <2>3
    <2>5. RequestTyped'
      <3>1. balance' \in 0 .. Len(asks')
        BY <2>2, <2>3, <2>4
      <3>2. QED
        BY <2>2, <2>4, <3>1 DEF RequestInv, RequestTyped
    <2>6. View!Awaited'
      BY <2>1, <2>4 DEF View!Awaited
    <2>7. QED
      BY <1>1, <1>3, <1>4, <2>5, <2>6 DEF RequestInv, SpinnerHasRequest, Unused
  <1>5. CASE part = "blocks"
    <2>1. UNCHANGED <<chain, asks, balance, balanceLoading, balanceError, sends, told>>
      BY <1>5 DEF Hand, view
    <2>2. RequestTyped' /\ Unused'
      BY <1>1, <2>1 DEF RequestInv, RequestTyped, Unused
    <2>3. SpinnerHasRequest'
      BY <1>1, <1>5, <2>1 DEF RequestInv, SpinnerHasRequest, View!Awaited
    <2>4. QED
      BY <1>3, <2>2, <2>3 DEF RequestInv
  <1>6. QED
    BY <1>4, <1>5 DEF PageTyped

LEMMA LeaveKeepsRequests ==
  ASSUME RequestInv, PageTyped, Leave
  PROVE  RequestInv'
  <1>1. part' = part /\ wallet' = NoWallet
    BY DEF Leave, Page!Leave
  <1>2. OwnOnly' /\ LastIsNew'
    BY <1>1 DEF OwnOnly, LastIsNew, Stays, Shows
  <1>3. CASE part = "view"
    <2>1. /\ asks' = << >> /\ balance' = 0
          /\ balanceLoading' = FALSE /\ balanceError' = FALSE
          /\ sends' = << >> /\ told' = 0
          /\ chain' = [x \in Address |-> 0]
      BY <1>3 DEF Leave, View!Unmount
    <2>2. RequestTyped'
      <3>1. chain' \in [Address -> 0 .. MaxChanges] /\ told' \in 0 .. MaxChanges
        BY <2>1, Constants
      <3>2. asks' \in Seq(Request) /\ sends' \in Seq(Sending) /\ balance' \in 0 .. Len(asks')
        BY <2>1
      <3>3. QED
        BY <2>1, <3>1, <3>2 DEF RequestTyped
    <2>3. QED
      BY <1>1, <1>2, <1>3, <2>1, <2>2 DEF RequestInv, SpinnerHasRequest, Unused
  <1>4. CASE part = "blocks"
    <2>1. UNCHANGED <<chain, asks, balance, balanceLoading, balanceError, sends, told>>
      BY <1>4 DEF Leave, view
    <2>2. RequestTyped' /\ Unused'
      BY <1>1, <2>1 DEF RequestInv, RequestTyped, Unused
    <2>3. SpinnerHasRequest'
      BY <1>1, <2>1 DEF RequestInv, SpinnerHasRequest, View!Awaited
    <2>4. QED
      BY <1>2, <2>2, <2>3 DEF RequestInv
  <1>5. QED
    BY <1>3, <1>4 DEF PageTyped
-----------------------------------------------------------------------------
ListTyped == /\ height \in Nat /\ mount \in Nat
             /\ mounted = (part = "blocks" /\ wallet # NoWallet)
             /\ blocks \in Seq(Nat) /\ Len(blocks) <= MaxShown
             /\ subs \in Seq(SubOf(mount, height))

Blank == ~ mounted => blocks = << >>

(* A production mount has one subscription, which nothing has ended yet.   *)
OnlyOne ==
  build = "production" =>
    /\ \A s, t \in DOMAIN subs : subs[s].mount = subs[t].mount => s = t
    /\ mounted => \A s \in DOMAIN subs : subs[s].mount = mount => ~ subs[s].left

(* It has delivered every block that is shown. *)
ShownDelivered ==
  build = "production" /\ mounted =>
    \A s \in DOMAIN subs : subs[s].mount = mount =>
      \A i \in DOMAIN blocks : blocks[i] <= subs[s].at

ListInv == ListTyped /\ Blank /\ OnlyOne /\ ShownDelivered /\ NewestFirst

ListAlone == UNCHANGED <<height, mount, mounted, blocks>>

LEMMA ListUntouched ==
  ASSUME ListInv, UNCHANGED <<build, part, height, mount, mounted, blocks, subs>>,
         wallet = NoWallet <=> wallet' = NoWallet
  PROVE  ListInv'
  BY DEF ListInv, ListTyped, Blank, OnlyOne, ShownDelivered, NewestFirst

(* Prepending puts the block first and the others one further. *)
LEMMA PrependIs ==
  ASSUME NEW shown \in Seq(Nat), Len(shown) <= MaxShown, NEW block \in Nat
  PROVE  LET p == Lists!Prepend(block, shown)
         IN  /\ p \in Seq(Nat) /\ Len(p) <= MaxShown /\ p # << >>
             /\ p[1] = block
             /\ \A i \in DOMAIN p : i # 1 => i - 1 \in DOMAIN shown /\ p[i] = shown[i - 1]
  <1> DEFINE n == IF Len(shown) < MaxShown THEN Len(shown) + 1 ELSE MaxShown
             all == <<block>> \o shown
             p == SubSeq(all, 1, n)
  <1>1. /\ Len(shown) \in Nat /\ n \in 1 .. Len(shown) + 1 /\ n <= MaxShown
    BY Constants
  <1>2. /\ all \in Seq(Nat) /\ Len(all) = Len(shown) + 1
        /\ all[1] = block
        /\ \A i \in 2 .. Len(shown) + 1 : all[i] = shown[i - 1]
    OBVIOUS
  <1> HIDE DEF n, all
  <1>3. /\ p \in Seq(Nat) /\ Len(p) = n
        /\ \A i \in 1 .. n : p[i] = all[i]
    BY <1>1, <1>2
  <1>4. Lists!Prepend(block, shown) = p
    BY DEF Lists!Prepend, p, n, all
  <1> HIDE DEF p
  <1>5. QED
    BY <1>1, <1>2, <1>3, <1>4

(* One subscription is changed: it stays that of its mount. *)
LEMMA OneSub ==
  ASSUME ListInv, NEW s \in DOMAIN subs, NEW sub \in SubOf(mount, height),
         sub.mount = subs[s].mount, sub.left = subs[s].left,
         subs' = [subs EXCEPT ![s] = sub], UNCHANGED <<height, mount, mounted, build>>
  PROVE  /\ subs' \in Seq(SubOf(mount', height')) /\ DOMAIN subs' = DOMAIN subs
         /\ subs'[s] = sub
         /\ \A t \in DOMAIN subs : t # s => subs'[t] = subs[t]
         /\ \A t \in DOMAIN subs : subs'[t].mount = subs[t].mount
         /\ OnlyOne'
  <1>1. subs \in Seq(SubOf(mount, height))
    BY DEF ListInv, ListTyped
  <1>2. /\ subs' \in Seq(SubOf(mount', height')) /\ DOMAIN subs' = DOMAIN subs
        /\ subs'[s] = sub
        /\ \A t \in DOMAIN subs : t # s => subs'[t] = subs[t]
    BY <1>1
  <1>3. \A t \in DOMAIN subs : subs'[t].mount = subs[t].mount /\ subs'[t].left = subs[t].left
    BY <1>2
  <1>4. OnlyOne'
    BY <1>2, <1>3 DEF ListInv, OnlyOne
  <1>5. QED
    BY <1>2, <1>3, <1>4

(* A subscription of n mounts and h blocks is one of more. *)
LEMMA SubGrows ==
  ASSUME NEW m \in Nat, NEW h \in Nat, NEW m2 \in Nat, NEW h2 \in Nat, m <= m2, h <= h2
  PROVE  SubOf(m, h) \subseteq SubOf(m2, h2)
  <1>1. 1 .. m \subseteq 1 .. m2 /\ 0 .. h \subseteq 0 .. h2
    OBVIOUS
  <1>2. QED
    BY <1>1 DEF SubOf

LEMMA NewBlockKept ==
  ASSUME ListInv, Lists!NewBlock, UNCHANGED <<build, part, wallet>>
  PROVE  ListInv'
  <1>1. height' = height + 1 /\ UNCHANGED <<mount, mounted, blocks, subs>>
    BY DEF Lists!NewBlock
  <1>2. height \in Nat /\ mount \in Nat /\ subs \in Seq(SubOf(mount, height))
    BY DEF ListInv, ListTyped
  <1>3. height' \in Nat /\ SubOf(mount, height) \subseteq SubOf(mount, height')
    BY <1>1, <1>2, SubGrows
  <1>4. subs' \in Seq(SubOf(mount', height'))
    BY <1>1, <1>2, <1>3
  <1>5. ListTyped'
    BY <1>1, <1>3, <1>4 DEF ListInv, ListTyped
  <1>6. QED
    BY <1>1, <1>5 DEF ListInv, Blank, OnlyOne, ShownDelivered, NewestFirst

(* A block is put before those that were delivered. *)
LEMMA DeliveredKept ==
  ASSUME ListInv, NEW s \in DOMAIN subs, Lists!Delivered(s), UNCHANGED <<build, part, wallet>>
  PROVE  ListInv'
  <1> DEFINE sub == [subs[s] EXCEPT !.at = @ + 1]
             new == subs[s].at + 1
  <1>1. /\ subs[s].at < height
        /\ subs' = [subs EXCEPT ![s].at = @ + 1]
        /\ UNCHANGED <<height, mount, mounted>>
    BY DEF Lists!Delivered
  <1>2. /\ subs \in Seq(SubOf(mount, height)) /\ subs[s] \in SubOf(mount, height)
        /\ height \in Nat /\ mount \in Nat
        /\ blocks \in Seq(Nat) /\ Len(blocks) <= MaxShown
    BY DEF ListInv, ListTyped
  <1>3. subs[s].at \in Nat /\ new \in 0 .. height /\ new \in Nat
    BY <1>1, <1>2 DEF SubOf
  <1>4. /\ sub \in SubOf(mount, height)
        /\ sub.mount = subs[s].mount /\ sub.left = subs[s].left /\ sub.at = new
    BY <1>2, <1>3 DEF SubOf
  <1>5. subs' = [subs EXCEPT ![s] = sub]
    BY <1>1, <1>2
  <1>6. blocks' = IF mounted /\ subs[s].mount = mount
                  THEN Lists!Prepend(subs'[s].at, blocks) ELSE blocks
    BY DEF Lists!Delivered
  <1> HIDE DEF sub, new
  <1>7. /\ subs' \in Seq(SubOf(mount', height')) /\ DOMAIN subs' = DOMAIN subs
        /\ subs'[s] = sub
        /\ \A t \in DOMAIN subs : t # s => subs'[t] = subs[t]
        /\ \A t \in DOMAIN subs : subs'[t].mount = subs[t].mount
        /\ OnlyOne'
    BY <1>1, <1>4, <1>5, OneSub
  <1>8. CASE mounted /\ subs[s].mount = mount
    <2>1. blocks' = Lists!Prepend(new, blocks)
      BY <1>4, <1>6, <1>7, <1>8
    <2>2. /\ blocks' \in Seq(Nat) /\ Len(blocks') <= MaxShown /\ blocks' # << >>
          /\ blocks'[1] = new
          /\ \A i \in DOMAIN blocks' :
               i # 1 => i - 1 \in DOMAIN blocks /\ blocks'[i] = blocks[i - 1]
      BY <1>2, <1>3, <2>1, PrependIs
    <2>3. ListTyped' /\ Blank'
      BY <1>1, <1>7, <1>8, <2>2 DEF ListInv, ListTyped, Blank
    <2>4. ASSUME build = "production"
          PROVE  \A i \in DOMAIN blocks : blocks[i] <= subs[s].at
      BY <1>8, <2>4 DEF ListInv, ShownDelivered
    <2>5. \A i \in DOMAIN blocks : blocks[i] \in Nat
      BY <1>2
    <2>6. ShownDelivered'
      <3>1. SUFFICES ASSUME build = "production", NEW t \in DOMAIN subs, subs[t].mount = mount,
                            NEW i \in DOMAIN blocks'
                     PROVE  blocks'[i] <= subs'[t].at
        BY <1>1, <1>7 DEF ShownDelivered
      <3>2. t = s
        BY <1>8, <3>1 DEF ListInv, OnlyOne
      <3>3. subs'[t].at = new
        BY <1>4, <1>7, <3>2
      <3>4. CASE i = 1
        BY <1>3, <2>2, <3>3, <3>4
      <3>5. CASE i # 1
        <4>1. blocks'[i] \in Nat /\ blocks'[i] <= subs[s].at
          BY <2>2, <2>4, <2>5, <3>1, <3>5
        <4>2. QED
          BY <1>3, <3>3, <4>1 DEF new
      <3>6. QED
        BY <3>4, <3>5
    <2>7. NewestFirst'
      <3>1. SUFFICES ASSUME build = "production",
                            NEW i \in DOMAIN blocks', NEW j \in DOMAIN blocks', i < j
                     PROVE  blocks'[i] > blocks'[j]
        BY DEF NewestFirst
      <3>2. i \in Nat /\ j \in Nat /\ i >= 1 /\ j # 1
        BY <2>2, <3>1
      <3>3. j - 1 \in DOMAIN blocks /\ blocks'[j] = blocks[j - 1]
        BY <2>2, <3>2
      <3>4. CASE i = 1
        <4>1. blocks'[i] = new /\ blocks[j - 1] <= subs[s].at /\ blocks[j - 1] \in Nat
          BY <2>2, <2>4, <2>5, <3>1, <3>3, <3>4
        <4>2. QED
          BY <1>3, <3>3, <4>1 DEF new
      <3>5. CASE i # 1
        <4>1. i - 1 \in DOMAIN blocks /\ blocks'[i] = blocks[i - 1] /\ i - 1 < j - 1
          BY <2>2, <3>1, <3>2, <3>5
        <4>2. QED
          BY <3>1, <3>3, <4>1 DEF ListInv, NewestFirst
      <3>6. QED
        BY <3>4, <3>5
    <2>8. QED
      BY <1>7, <2>3, <2>6, <2>7 DEF ListInv
  <1>9. CASE ~ (mounted /\ subs[s].mount = mount)
    <2>1. blocks' = blocks
      BY <1>6, <1>9
    <2>2. ListTyped' /\ Blank' /\ NewestFirst'
      BY <1>1, <1>7, <2>1 DEF ListInv, ListTyped, Blank, NewestFirst
    <2>3. ShownDelivered'
      BY <1>1, <1>7, <1>9, <2>1 DEF ListInv, ShownDelivered
    <2>4. QED
      BY <1>7, <2>2, <2>3 DEF ListInv
  <1>10. QED
    BY <1>8, <1>9

(* A subscription that begins late has missed what is not shown either;    *)
(* none of the mount that is shown is ended.                               *)
LEMMA GoesKept ==
  ASSUME ListInv, NEW s \in DOMAIN subs, Lists!Goes(s), UNCHANGED <<build, part, wallet>>
  PROVE  ListInv'
  <1>0. /\ subs \in Seq(SubOf(mount, height)) /\ subs[s] \in SubOf(mount, height)
        /\ height \in Nat /\ mount \in Nat
        /\ blocks \in Seq(Nat)
    BY DEF ListInv, ListTyped
  <1>1. /\ subs[s].at \in Nat /\ height >= subs[s].at /\ subs[s].at >= subs[s].at
        /\ {0, height} \subseteq 0 .. height
    <2>1. subs[s].at \in 0 .. height
      BY <1>0 DEF SubOf
    <2>2. QED
      BY <1>0, <2>1
  <1>2. ListAlone
    BY DEF Lists!Goes, Lists!Subscribed, Lists!CleanUp, ListAlone
  <1>3. PICK sub \in SubOf(mount, height) :
          /\ subs' = [subs EXCEPT ![s] = sub]
          /\ sub.mount = subs[s].mount /\ sub.left = subs[s].left
          /\ sub.at >= subs[s].at \/ subs[s].left
    <2>1. CASE Lists!Subscribed(s) /\ subs' = [subs EXCEPT ![s].pc = "listening", ![s].at = height]
      <3> DEFINE sub == [subs[s] EXCEPT !.pc = "listening", !.at = height]
      <3>1. /\ sub \in SubOf(mount, height)
            /\ sub.at = height
            /\ sub.mount = subs[s].mount /\ sub.left = subs[s].left
        BY <1>0, <1>1 DEF SubOf
      <3>2. subs' = [subs EXCEPT ![s] = sub]
        BY <1>0, <2>1
      <3> HIDE DEF sub
      <3>3. QED
        BY <1>1, <3>1, <3>2
    <2>2. CASE Lists!Subscribed(s) /\ subs' = [subs EXCEPT ![s].pc = "failed"]
      <3> DEFINE sub == [subs[s] EXCEPT !.pc = "failed"]
      <3>1. /\ sub \in SubOf(mount, height)
            /\ sub.at = subs[s].at
            /\ sub.mount = subs[s].mount /\ sub.left = subs[s].left
        BY <1>0, <1>1 DEF SubOf
      <3>2. subs' = [subs EXCEPT ![s] = sub]
        BY <1>0, <2>2
      <3> HIDE DEF sub
      <3>3. QED
        BY <1>1, <3>1, <3>2
    <2>3. CASE Lists!CleanUp(s)
      <3> DEFINE sub == [subs[s] EXCEPT !.pc = "ended", !.timer = FALSE, !.at = 0]
      <3>1. /\ sub \in SubOf(mount, height)
            /\ sub.mount = subs[s].mount /\ sub.left = subs[s].left
        BY <1>0, <1>1 DEF SubOf
      <3>2. subs' = [subs EXCEPT ![s] = sub] /\ subs[s].left
        BY <1>0, <2>3 DEF Lists!CleanUp
      <3> HIDE DEF sub
      <3>3. QED
        BY <3>1, <3>2
    <2>4. QED
      BY <2>1, <2>2, <2>3 DEF Lists!Goes, Lists!Subscribed
  <1>4. /\ subs' \in Seq(SubOf(mount', height')) /\ DOMAIN subs' = DOMAIN subs
        /\ subs'[s] = sub
        /\ \A t \in DOMAIN subs : t # s => subs'[t] = subs[t]
        /\ \A t \in DOMAIN subs : subs'[t].mount = subs[t].mount
        /\ OnlyOne'
    BY <1>2, <1>3, OneSub DEF ListAlone
  <1>5. ListTyped' /\ Blank' /\ NewestFirst'
    BY <1>2, <1>4 DEF ListInv, ListAlone, ListTyped, Blank, NewestFirst
  <1>6. ShownDelivered'
    <2>1. SUFFICES ASSUME build = "production", mounted,
                          NEW t \in DOMAIN subs, subs[t].mount = mount,
                          NEW i \in DOMAIN blocks
                   PROVE  blocks[i] <= subs'[t].at
      BY <1>2, <1>4 DEF ShownDelivered, ListAlone
    <2>2. blocks[i] <= subs[t].at /\ ~ subs[t].left
      BY <2>1 DEF ListInv, ShownDelivered, OnlyOne
    <2>3. CASE t = s
      <3>1. sub.at \in Nat /\ subs[s].at \in Nat /\ blocks[i] \in Nat
        BY <1>0 DEF SubOf
      <3>2. QED
        BY <1>3, <1>4, <2>2, <2>3, <3>1
    <2>4. CASE t # s
      BY <1>4, <2>2, <2>4
    <2>5. QED
      BY <2>3, <2>4
  <1>7. QED
    BY <1>4, <1>5, <1>6 DEF ListInv

(* The list is mounted with a subscription that is new. *)
LEMMA ShowKeepsList ==
  ASSUME ListInv, PageTyped, NEW a \in Address, NEW brief \in BOOLEAN, Show(a, brief)
  PROVE  ListInv'
  <1>1. /\ UNCHANGED <<build, part>>
        /\ wallet = NoWallet /\ wallet' = a /\ a # NoWallet
    BY Constants DEF Show, Page!Show
  <1>2. CASE part = "view"
    <2>1. UNCHANGED <<height, mount, mounted, blocks, subs>>
      BY <1>2 DEF Show, latest
    <2>2. ListTyped'
      BY <1>1, <1>2, <2>1 DEF ListInv, ListTyped
    <2>3. QED
      BY <1>1, <2>1, <2>2 DEF ListInv, Blank, OnlyOne, ShownDelivered, NewestFirst
  <1>3. CASE part = "blocks"
    <2> DEFINE n == Times
               fresh == [i \in 1 .. n |-> [Lists!NewSub EXCEPT !.left = i < n]]
    <2>1. /\ mount' = mount + 1 /\ mounted' = TRUE /\ blocks' = << >>
          /\ subs' = subs \o fresh /\ UNCHANGED height
      BY <1>3 DEF Show, Lists!Mount
    <2>2. /\ subs \in Seq(SubOf(mount, height)) /\ height \in Nat /\ mount \in Nat
      BY DEF ListInv, ListTyped
    <2>3. n \in 1 .. 2 /\ (build = "production" => n = 1)
      BY DEF Times
    <2>4. /\ \A i \in 1 .. n : /\ fresh[i] \in SubOf(mount', height)
                               /\ fresh[i].mount = mount'
                               /\ fresh[i].left = (i < n)
          /\ fresh \in Seq(SubOf(mount', height)) /\ Len(fresh) = n
      <3>1. ASSUME NEW i \in 1 .. n
            PROVE  /\ fresh[i] \in SubOf(mount', height)
                   /\ fresh[i].mount = mount'
                   /\ fresh[i].left = (i < n)
        <4> DEFINE old == i < n
        <4>1. mount' \in 1 .. mount' /\ 0 \in 0 .. height /\ old \in BOOLEAN
          BY <2>1, <2>2, <2>3
        <4>2. fresh[i] = [Lists!NewSub EXCEPT !.left = old]
          OBVIOUS
        <4> HIDE DEF old, fresh
        <4>3. QED
          BY <4>1, <4>2 DEF Lists!NewSub, SubOf, old
      <3>2. n \in Nat /\ fresh = [i \in 1 .. n |-> fresh[i]]
        BY <2>3
      <3> HIDE DEF n, fresh
      <3>3. fresh \in Seq(SubOf(mount', height)) /\ Len(fresh) = n
        BY <3>1, <3>2
      <3>4. QED
        BY <3>1, <3>3
    <2> HIDE DEF n, fresh
    <2>5. SubOf(mount, height) \subseteq SubOf(mount', height)
      BY <2>1, <2>2, SubGrows
    <2>6. subs \in Seq(SubOf(mount', height))
      BY <2>2, <2>5
    <2>7. /\ subs' \in Seq(SubOf(mount', height'))
          /\ Len(subs') = Len(subs) + n
          /\ \A s \in 1 .. Len(subs) : subs'[s] = subs[s]
          /\ \A i \in 1 .. n : subs'[Len(subs) + i] = fresh[i]
      BY <2>1, <2>3, <2>4, <2>6
    <2>8. \A s \in DOMAIN subs' :
            \/ s \in DOMAIN subs /\ subs'[s] = subs[s] /\ subs'[s].mount # mount'
            \/ \E i \in 1 .. n : s = Len(subs) + i /\ subs'[s] = fresh[i]
      <3>1. TAKE s \in DOMAIN subs'
      <3>2. CASE s \in DOMAIN subs
        <4>1. subs[s] \in SubOf(mount, height)
          BY <2>2, <3>2
        <4>2. subs[s].mount # mount'
          BY <2>1, <2>2, <4>1 DEF SubOf
        <4>3. QED
          BY <2>2, <2>7, <3>2, <4>2
      <3>3. CASE s \notin DOMAIN subs
        <4>1. s - Len(subs) \in 1 .. n /\ s = Len(subs) + (s - Len(subs))
          BY <2>2, <2>3, <2>7, <3>3
        <4>2. QED
          BY <2>7, <4>1
      <3>4. QED
        BY <3>2, <3>3
    <2>9. ASSUME build = "production"
          PROVE  /\ \A s, t \in DOMAIN subs' : subs'[s].mount = subs'[t].mount => s = t
                 /\ \A s \in DOMAIN subs' : subs'[s].mount = mount' => ~ subs'[s].left
      <3>1. /\ \A s, t \in DOMAIN subs : subs[s].mount = subs[t].mount => s = t
            /\ n = 1
        BY <2>3, <2>9 DEF ListInv, OnlyOne
      <3>2. fresh[1].mount = mount' /\ ~ fresh[1].left /\ 1 .. n = {1}
        <4>1. 1 .. n = {1} /\ 1 \in 1 .. n /\ ~ (1 < n)
          BY <3>1
        <4>2. fresh[1].mount = mount' /\ fresh[1].left = (1 < n)
          BY <2>4, <4>1
        <4>3. QED
          BY <4>1, <4>2
      <3>3. \A s \in DOMAIN subs' :
              \/ s \in DOMAIN subs /\ subs'[s] = subs[s] /\ subs'[s].mount # mount'
              \/ s = Len(subs) + 1 /\ subs'[s] = fresh[1]
        BY <2>8, <3>2
      <3>4. QED
        BY <3>1, <3>2, <3>3
    <2>10. ListTyped'
      <3>1. mounted' = (part' = "blocks" /\ wallet' # NoWallet)
        BY <1>1, <1>3, <2>1
      <3>2. blocks' \in Seq(Nat) /\ Len(blocks') <= MaxShown
        BY <2>1, Constants
      <3>3. height' \in Nat /\ mount' \in Nat
        BY <2>1, <2>2
      <3>4. QED
        BY <2>7, <3>1, <3>2, <3>3 DEF ListTyped
    <2>11. QED
      BY <1>1, <2>1, <2>9, <2>10 DEF ListInv, Blank, OnlyOne, ShownDelivered, NewestFirst
  <1>4. QED
    BY <1>2, <1>3 DEF PageTyped

LEMMA LeaveKeepsList ==
  ASSUME ListInv, PageTyped, Leave
  PROVE  ListInv'
  <1>1. UNCHANGED <<build, part>> /\ wallet' = NoWallet
    BY DEF Leave, Page!Leave
  <1>2. CASE part = "view"
    <2>1. UNCHANGED <<height, mount, mounted, blocks, subs>>
      BY <1>2 DEF Leave, latest
    <2>2. ListTyped'
      BY <1>1, <1>2, <2>1 DEF ListInv, ListTyped
    <2>3. QED
      BY <1>1, <2>1, <2>2 DEF ListInv, Blank, OnlyOne, ShownDelivered, NewestFirst
  <1>3. CASE part = "blocks"
    <2>1. /\ mounted' = FALSE /\ blocks' = << >>
          /\ subs' = [s \in DOMAIN subs |-> [subs[s] EXCEPT !.left = TRUE]]
          /\ UNCHANGED <<height, mount>>
      BY <1>3 DEF Leave, Lists!Unmount
    <2>2. subs \in Seq(SubOf(mount, height))
      BY DEF ListInv, ListTyped
    <2>3. \A s \in DOMAIN subs : /\ [subs[s] EXCEPT !.left = TRUE] \in SubOf(mount, height)
                                 /\ [subs[s] EXCEPT !.left = TRUE].mount = subs[s].mount
      <3>1. \A s \in DOMAIN subs : subs[s] \in SubOf(mount, height)
        BY <2>2
      <3>2. QED
        BY <3>1 DEF SubOf
    <2>4. /\ DOMAIN subs' = DOMAIN subs
          /\ \A s \in DOMAIN subs : /\ subs'[s] \in SubOf(mount, height)
                                    /\ subs'[s].mount = subs[s].mount
      BY <2>1, <2>3
    <2>5. subs' \in Seq(SubOf(mount', height'))
      BY <2>1, <2>2, <2>4
    <2>6. ListTyped'
      <3>1. mounted' = (part' = "blocks" /\ wallet' # NoWallet)
        BY <1>1, <2>1
      <3>2. blocks' \in Seq(Nat) /\ Len(blocks') <= MaxShown
        BY <2>1, Constants
      <3>3. height' \in Nat /\ mount' \in Nat
        BY <2>1 DEF ListInv, ListTyped
      <3>4. QED
        BY <2>5, <3>1, <3>2, <3>3 DEF ListTyped
    <2>7. OnlyOne'
      BY <1>1, <2>1, <2>4 DEF ListInv, OnlyOne
    <2>8. QED
      BY <2>1, <2>6, <2>7 DEF ListInv, Blank, ShownDelivered, NewestFirst
  <1>4. QED
    BY <1>2, <1>3 DEF PageTyped
-----------------------------------------------------------------------------
(* The inductive invariant. *)
WalletInv == PageTyped /\ ActionInv /\ RequestInv /\ ListInv

LEMMA InitWalletInv == Init => WalletInv
  <1>1. SUFFICES ASSUME Init PROVE WalletInv
    OBVIOUS
  <1>2. PageTyped
    BY <1>1 DEF Init, Page!Init, PageTyped
  <1>3. ActionInv
    BY <1>1 DEF Init, View!InitView, ActionInv, ActionTyped, EditedIsTyped
  <1>4. RequestInv
    <2>1. /\ chain = [a \in Address |-> 0] /\ asks = << >> /\ balance = 0
          /\ balanceLoading = FALSE /\ balanceError = FALSE
          /\ sends = << >> /\ told = 0 /\ wallet = NoWallet
      BY <1>1 DEF Init, View!InitView, Page!Init
    <2>2. RequestTyped
      <3>1. chain \in [Address -> 0 .. MaxChanges] /\ told \in 0 .. MaxChanges
        BY <2>1, Constants
      <3>2. asks \in Seq(Request) /\ sends \in Seq(Sending) /\ balance \in 0 .. Len(asks)
        BY <2>1
      <3>3. QED
        BY <2>1, <3>1, <3>2 DEF RequestTyped
    <2>3. QED
      BY <2>1, <2>2 DEF RequestInv, SpinnerHasRequest, OwnOnly, LastIsNew, Unused, Stays, Shows
  <1>5. ListInv
    <2>1. /\ height = 0 /\ mount = 0 /\ mounted = FALSE /\ blocks = << >> /\ subs = << >>
          /\ wallet = NoWallet
      BY <1>1 DEF Init, Lists!InitBlocks, Page!Init
    <2>2. ListTyped
      <3>1. mounted = (part = "blocks" /\ wallet # NoWallet)
        BY <2>1
      <3>2. blocks \in Seq(Nat) /\ Len(blocks) <= MaxShown /\ subs \in Seq(SubOf(mount, height))
        BY <2>1, Constants
      <3>3. height \in Nat /\ mount \in Nat
        BY <2>1
      <3>4. QED
        BY <3>1, <3>2, <3>3 DEF ListTyped
    <2>3. QED
      BY <2>1, <2>2 DEF ListInv, Blank, OnlyOne, ShownDelivered, NewestFirst
  <1>6. QED
    BY <1>2, <1>3, <1>4, <1>5 DEF WalletInv

LEMMA NextWalletInv == WalletInv /\ [Next]_vars => WalletInv'
  <1>1. SUFFICES ASSUME WalletInv, [Next]_vars PROVE WalletInv'
    OBVIOUS
  <1>2. PageTyped /\ ActionInv /\ RequestInv /\ ListInv
    BY <1>1 DEF WalletInv
  <1>3. ASSUME NEW a \in Address, Hand(a) PROVE WalletInv'
    <2>1. PageTyped'
      BY <1>2, <1>3 DEF Hand, Page!Hand, PageTyped
    <2>2. ActionInv'
      BY <1>2, <1>3, PageKeepsAction
    <2>3. RequestInv'
      BY <1>2, <1>3, HandKeepsRequests
    <2>4. ListInv'
      <3>1. UNCHANGED <<build, part, height, mount, mounted, blocks, subs>>
        BY <1>3 DEF Hand, latest
      <3>2. wallet # NoWallet /\ wallet' # NoWallet
        BY <1>3, Constants DEF Hand, Page!Hand
      <3>3. QED
        BY <1>2, <3>1, <3>2, ListUntouched
    <2>5. QED
      BY <2>1, <2>2, <2>3, <2>4 DEF WalletInv
  <1>4. ASSUME NEW a \in Address, NEW brief \in BOOLEAN, Show(a, brief) PROVE WalletInv'
    <2>1. PageTyped'
      BY <1>2, <1>4 DEF Show, Page!Show, PageTyped
    <2>2. ActionInv'
      BY <1>2, <1>4, PageKeepsAction
    <2>3. QED
      BY <1>2, <1>4, <2>1, <2>2, ShowKeepsRequests, ShowKeepsList DEF WalletInv
  <1>5. CASE Leave
    <2>1. PageTyped'
      BY <1>2, <1>5 DEF Leave, Page!Leave, PageTyped
    <2>2. ActionInv'
      BY <1>2, <1>5, PageKeepsAction
    <2>3. QED
      BY <1>2, <1>5, <2>1, <2>2, LeaveKeepsRequests, LeaveKeepsList DEF WalletInv
  <1>6. CASE UserActs \/ AnswersArrive
    <2>1. UNCHANGED <<build, part, wallet, leaving, height, mount, mounted, blocks, subs>>
      BY <1>6 DEF UserActs, AnswersArrive, page, latest
    <2>2. PageTyped'
      BY <1>2, <2>1 DEF PageTyped
    <2>3. ActionInv'
      BY <1>2, <1>6, AnswersKeepAction DEF UserActs, AnswersArrive
    <2>4. RequestInv'
      BY <1>2, <1>6, UserKeepsRequests, AnswersKeepRequests
    <2>5. ListInv'
      BY <1>2, <2>1, ListUntouched
    <2>6. QED
      BY <2>2, <2>3, <2>4, <2>5 DEF WalletInv
  <1>7. ASSUME BlocksArrive \/ \E s \in DOMAIN subs : SubscriptionGoes(s) PROVE WalletInv'
    <2>1. UNCHANGED build /\ UNCHANGED part /\ UNCHANGED page /\ UNCHANGED view
      BY <1>7 DEF BlocksArrive, SubscriptionGoes
    <2>2. PageTyped' /\ ActionInv'
      BY <1>2, <2>1 DEF page, view, PageTyped, ActionInv, ActionTyped, EditedIsTyped
    <2>3. RequestInv'
      BY <1>2, <2>1, RequestsAlone DEF page, view
    <2>4. ListInv'
      <3>1. UNCHANGED <<build, part, wallet>>
        BY <2>1 DEF page
      <3>2. \/ Lists!NewBlock
            \/ \E s \in DOMAIN subs : Lists!Delivered(s) \/ Lists!Goes(s)
        BY <1>7 DEF BlocksArrive, SubscriptionGoes, Lists!Deliveries
      <3>3. QED
        BY <1>2, <3>1, <3>2, NewBlockKept, DeliveredKept, GoesKept
    <2>5. QED
      BY <2>2, <2>3, <2>4 DEF WalletInv
  <1>8. CASE UNCHANGED vars
    <2>1. UNCHANGED build /\ UNCHANGED part /\ UNCHANGED page /\ UNCHANGED view /\ UNCHANGED latest
      BY <1>8 DEF vars
    <2>2. PageTyped' /\ ActionInv'
      BY <1>2, <2>1 DEF page, view, PageTyped, ActionInv, ActionTyped, EditedIsTyped
    <2>3. RequestInv'
      BY <1>2, <2>1, RequestsAlone DEF page, view
    <2>4. ListInv'
      BY <1>2, <2>1, ListUntouched DEF page, latest
    <2>5. QED
      BY <2>2, <2>3, <2>4 DEF WalletInv
  <1>9. CASE Over
    BY <1>8, <1>9 DEF Over
  <1>10. QED
    BY <1>1, <1>3, <1>4, <1>5, <1>6, <1>7, <1>8, <1>9 DEF Next

(* WalletInv holds in every state of every page. *)
THEOREM WalletInvariant == Spec => []WalletInv
  BY InitWalletInv, NextWalletInv, PTL DEF Spec

(* The state of the wallet is well formed, whatever comes in which order:  *)
(* the balance is that of a request there is, and the list of blocks keeps *)
(* its length.                                                             *)
THEOREM WalletTypeCorrect == Spec => []TypeOK
  <1>1. ASSUME WalletInv PROVE TypeOK
    <2>1. PageTyped /\ ActionTyped /\ RequestTyped /\ ListTyped
      BY <1>1 DEF WalletInv, ActionInv, RequestInv, ListInv
    <2>2. \A i \in DOMAIN asks : asks[i] \in Request
      BY <2>1 DEF RequestTyped
    <2>3. \A i \in DOMAIN sends : sends[i] \in Sending
      BY <2>1 DEF RequestTyped
    <2>4. \A s \in DOMAIN subs : subs[s] \in SubOf(mount, height)
      BY <2>1 DEF ListTyped
    <2>5. {balanceLoading, balanceError, abi, abiLoading, abiError, edited} \subseteq BOOLEAN
      BY <2>1 DEF RequestTyped, ActionTyped
    <2>6. QED
      BY <2>1, <2>2, <2>3, <2>4, <2>5 DEF TypeOK, PageTyped, ActionTyped, RequestTyped,
         ListTyped, Request, Sending, SubOf
  <1>2. QED
    BY <1>1, WalletInvariant, PTL

(* A balance that can be relied on is of the address beside it. *)
THEOREM ShownBalanceIsOwn == Spec => []ShownIsOwn
  <1>1. ASSUME WalletInv PROVE ShownIsOwn
    <2>1. SUFFICES ASSUME wallet # NoWallet, ~ leaving, balance # 0
                   PROVE  asks[balance].addr = wallet
      BY DEF ShownIsOwn
    <2>2. part = "view" /\ balance \in DOMAIN asks
      BY <1>1, <2>1 DEF WalletInv, PageTyped, RequestInv, RequestTyped, Unused
    <2>3. QED
      BY <1>1, <2>1, <2>2 DEF WalletInv, RequestInv, OwnOnly, Stays, Shows
  <1>2. QED
    BY <1>1, WalletInvariant, PTL

(* The spinner of the balance stands for a request that is under way. *)
THEOREM SpinnerIsOfRequest == Spec => []SpinnerHasRequest
  <1>1. WalletInv => SpinnerHasRequest
    BY DEF WalletInv, RequestInv
  <1>2. QED
    BY <1>1, WalletInvariant, PTL

(* A balance that stays older than what a transaction told was answered    *)
(* after one that was asked later.                                         *)
THEOREM LagIsOverlap == Spec => []LagsOnlyByOverlap
  <1>1. ASSUME WalletInv PROVE LagsOnlyByOverlap
    <2>1. SUFFICES ASSUME part = "view", wallet # NoWallet, ~ leaving,
                          ~ View!Awaited, ~ balanceError,
                          asks[balance].got < told
                   PROVE  balance < Len(asks)
      BY DEF LagsOnlyByOverlap
    <2>2. balance # 0
      BY <1>1, <2>1 DEF WalletInv, RequestInv, SpinnerHasRequest
    <2>3. /\ balance \in 1 .. Len(asks) /\ Len(asks) \in Nat /\ balance \in DOMAIN asks
          /\ asks[balance] \in Request /\ told \in 0 .. MaxChanges
      BY <1>1, <2>2 DEF WalletInv, RequestInv, RequestTyped
    <2>4. asks[balance].got \in Int /\ told \in Int
      BY <2>3, Constants DEF Request
    <2>5. balance = Len(asks) => asks[balance].got >= told
      BY <1>1, <2>1, <2>3 DEF WalletInv, RequestInv, LastIsNew, Stays, Shows
    <2>6. balance # Len(asks)
      BY <2>1, <2>4, <2>5
    <2>7. QED
      BY <2>3, <2>6
  <1>2. QED
    BY <1>1, WalletInvariant, PTL

(* What the user typed is what is executed. *)
THEOREM TypedStays == Spec => []TypedIsKept
  <1>1. WalletInv => TypedIsKept
    BY DEF WalletInv, ActionInv, EditedIsTyped, TypedIsKept
  <1>2. QED
    BY <1>1, WalletInvariant, PTL

(* The blocks of a production page are shown in their order, once. *)
THEOREM BlocksNewestFirst == Spec => []NewestFirst
  <1>1. WalletInv => NewestFirst
    BY DEF WalletInv, ListInv
  <1>2. QED
    BY <1>1, WalletInvariant, PTL
=============================================================================
