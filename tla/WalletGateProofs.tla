-------------------------- MODULE WalletGateProofs --------------------------
(***************************************************************************)
(* Theorems about the gate, for any signers, coins, requests and polls:    *)
(* the spinner counts the runs under way, the wallet is shown to funded    *)
(* accounts only, the faucet is asked again only after errors, and the     *)
(* gate keeps the promise of Screen.                                       *)
(***************************************************************************)
EXTENDS WalletGate, FiniteSetTheorems, TLAPS

RunOf(m) == [mount : 1 .. m, addr : Address,
             pc : {"check", "ask", "asked", "poll", "done"},
             seen : Coins \cup {NoAnswer}, peak : Coins,
             tries : 0 .. MaxAttempts - 1, polls : 0 .. MaxPolls - 1,
             answer : {"none", "sent", "enough", "error"},
             paid : BOOLEAN, owed : 0 .. MaxAttempts]

Typed == /\ build \in Builds
         /\ balance \in [Address -> Coins]
         /\ signer \in Address \cup {NoSigner}
         /\ events \in 0 .. MaxEvents /\ mount \in 0 .. events /\ due \in 0 .. 2
         /\ loading \in Nat /\ failed \in BOOLEAN
         /\ runs \in Seq(RunOf(mount))
         /\ signer # NoSigner => mount > 0
         /\ due > 0 => signer # NoSigner

(* What is true of a run, whatever the others do.  Coins make a balance    *)
(* above minBalance, and a run polls only after the faucet's word of them. *)
Sound(r) ==
  /\ r.pc = "check" => r.answer = "none"
  /\ r.pc = "ask" => r.answer \in {"none", "error"}
  /\ r.seen # NoAnswer => r.seen <= r.peak
  /\ r.pc = "poll" => r.peak > MinBalance
  /\ r.pc # "done" => r.owed <= r.tries

Fed(r) == r.paid => r.peak > MinBalance

RunsSound ==
  \A i \in 1 .. Len(runs) :
    Sound(runs[i]) /\ Fed(runs[i]) /\ balance[runs[i].addr] <= runs[i].peak

(* The runs of the page that is shown that ended without an error have     *)
(* seen a balance above minBalance.                                        *)
EndedFunded ==
  signer # NoSigner /\ ~ failed =>
    \A i \in 1 .. Len(runs) :
      runs[i].mount = mount /\ runs[i].pc = "done" => runs[i].peak > MinBalance

(* When no effect is due, the address that is shown has a run. *)
Started ==
  signer # NoSigner /\ due = 0 =>
    \E i \in 1 .. Len(runs) : runs[i].mount = mount /\ runs[i].addr = signer

GateInv == Typed /\ RunsSound /\ LoadingCounts /\ EndedFunded /\ Started

Active == {i \in DOMAIN runs : runs[i].mount = mount /\ runs[i].pc # "done"}
-----------------------------------------------------------------------------
LEMMA Constants ==
  /\ MinBalance \in Nat /\ Threshold \in Nat /\ MinBalance < Plenty
  /\ Plenty \in Coins /\ Coins \subseteq Nat /\ NoAnswer \notin Coins
  /\ MaxAttempts \in Nat /\ 0 < MaxAttempts /\ MaxPolls \in Nat /\ 0 < MaxPolls
  /\ MaxEvents \in Nat
  BY GateAssumption DEF Plenty, Coins

LEMMA ActiveFinite ==
  ASSUME Typed
  PROVE  IsFiniteSet(Active) /\ Cardinality(Active) \in Nat
  <1>1. DOMAIN runs = 1 .. Len(runs) /\ Len(runs) \in Nat
    BY DEF Typed
  <1>2. IsFiniteSet(1 .. Len(runs))
    BY <1>1, FS_Interval
  <1>3. Active \subseteq 1 .. Len(runs)
    BY <1>1 DEF Active
  <1>4. QED
    BY <1>2, <1>3, FS_Subset, FS_CardinalityType

(* A later page has all the runs of an earlier one, and no others. *)
LEMMA RunOfLater ==
  ASSUME NEW m \in Nat, NEW n \in Nat, m <= n
  PROVE  RunOf(m) \subseteq RunOf(n)
  BY DEF RunOf

(* A step of a run changes that run; the gate's state only when it ends.   *)
GoesOn(i, next) == /\ next.pc # "done"
                   /\ UNCHANGED <<loading, failed>>

Ends(i, next, error) ==
  /\ next.pc = "done"
  /\ ~ error => next.peak > MinBalance
  /\ loading' = IF Shown(i) THEN loading - 1 ELSE loading
  /\ failed' = (failed \/ (Shown(i) /\ error))

Steps(i, next) ==
  /\ UNCHANGED <<balance, app>>
  /\ runs[i].pc # "done"
  /\ runs' = [runs EXCEPT ![i] = next]
  /\ next \in RunOf(mount)
  /\ next.mount = runs[i].mount /\ next.addr = runs[i].addr
  /\ next.peak = runs[i].peak
  /\ Sound(next) /\ Fed(next)
  /\ runs[i].pc # "asked" /\ next.pc = "asked" => runs[i].answer \in {"none", "error"}
  /\ GoesOn(i, next) \/ \E error \in BOOLEAN : Ends(i, next, error)

LEMMA FinishSteps ==
  ASSUME Typed, RunsSound, NEW i \in 1 .. Len(runs), NEW last \in RunOf(mount),
         NEW error \in BOOLEAN, Finish(i, last, error), UNCHANGED <<balance, app>>,
         runs[i].pc # "done",
         last.mount = runs[i].mount, last.addr = runs[i].addr,
         last.peak = runs[i].peak, last.paid => last.peak > MinBalance,
         ~ error => last.peak > MinBalance
  PROVE  \E next : Steps(i, next)
  <1> DEFINE next == Ended(last)
  <1>1. /\ next \in RunOf(mount) /\ next.pc = "done" /\ next.seen = NoAnswer
        /\ next.mount = last.mount /\ next.addr = last.addr /\ next.peak = last.peak
        /\ next.paid = last.paid
    <2>1. 0 \in 0 .. MaxAttempts - 1 /\ 0 \in 0 .. MaxPolls - 1
      BY Constants
    <2>2. QED
      BY <2>1 DEF Ended, RunOf
  <1>2. /\ runs' = [runs EXCEPT ![i] = next]
        /\ loading' = IF Shown(i) THEN loading - 1 ELSE loading
        /\ failed' = (failed \/ (Shown(i) /\ error))
    BY DEF Finish
  <1> HIDE DEF next
  <1>3. Sound(next) /\ Fed(next)
    BY <1>1 DEF Sound, Fed
  <1>4. Ends(i, next, error)
    BY <1>1, <1>2 DEF Ends
  <1>5. QED
    BY <1>1, <1>2, <1>3, <1>4 DEF Steps

LEMMA GotoSteps ==
  ASSUME Typed, NEW i \in 1 .. Len(runs), NEW next \in RunOf(mount),
         Goto(i, next), UNCHANGED <<balance, app>>,
         runs[i].pc # "done", next.pc # "done",
         next.mount = runs[i].mount, next.addr = runs[i].addr,
         next.peak = runs[i].peak, Sound(next), Fed(next),
         next.pc = "asked" => runs[i].answer \in {"none", "error"}
  PROVE  \E n : Steps(i, n)
  BY DEF Steps, Goto, GoesOn

LEMMA NodeAnswersSteps ==
  ASSUME Typed, RunsSound, NEW i \in 1 .. Len(runs), NodeAnswers(i)
  PROVE  \E next : Steps(i, next)
  <1> DEFINE r    == runs[i]
             next == [r EXCEPT !.seen = balance[r.addr]]
  <1>1. /\ r \in RunOf(mount) /\ Sound(r) /\ Fed(r) /\ balance[r.addr] <= r.peak
        /\ r.pc \in {"check", "poll"}
    BY DEF Typed, RunsSound, NodeAnswers, Awaiting
  <1>2. balance[r.addr] \in Coins
    BY <1>1 DEF Typed, RunOf
  <1>3. Goto(i, next) /\ UNCHANGED <<balance, app>>
    BY DEF NodeAnswers
  <1> HIDE DEF r
  <1>4. /\ next \in RunOf(mount) /\ next.pc = r.pc /\ next.seen = balance[r.addr]
        /\ next.mount = r.mount /\ next.addr = r.addr /\ next.peak = r.peak
        /\ next.paid = r.paid /\ next.answer = r.answer /\ next.owed = r.owed
        /\ next.tries = r.tries
    BY <1>1, <1>2 DEF RunOf
  <1> HIDE DEF next
  <1>5. Sound(next) /\ Fed(next)
    BY <1>1, <1>4 DEF Sound, Fed
  <1>6. QED
    BY <1>1, <1>3, <1>4, <1>5, GotoSteps DEF r

LEMMA NodeFailsSteps ==
  ASSUME Typed, RunsSound, NEW i \in 1 .. Len(runs), NodeFails(i)
  PROVE  \E next : Steps(i, next)
  <1>1. runs[i] \in RunOf(mount) /\ Fed(runs[i])
    BY DEF Typed, RunsSound
  <1>2. /\ Finish(i, runs[i], TRUE) /\ UNCHANGED <<balance, app>>
        /\ runs[i].pc # "done"
    BY DEF NodeFails, Awaiting
  <1>3. QED
    BY <1>1, <1>2, FinishSteps DEF Fed

LEMMA CheckSteps ==
  ASSUME Typed, RunsSound, NEW i \in 1 .. Len(runs), Check(i)
  PROVE  \E next : Steps(i, next)
  <1> DEFINE r    == runs[i]
             next == [r EXCEPT !.pc = "ask", !.seen = NoAnswer]
  <1>1. r \in RunOf(mount) /\ Sound(r) /\ Fed(r)
    BY DEF Typed, RunsSound
  <1>2. /\ r.pc = "check" /\ r.seen # NoAnswer
        /\ IF r.seen <= MinBalance THEN Goto(i, next) ELSE Finish(i, r, FALSE)
        /\ UNCHANGED <<balance, app>>
    BY DEF Check, Awaiting
  <1> HIDE DEF r
  <1>3. CASE r.seen <= MinBalance
    <2>1. /\ next \in RunOf(mount) /\ next.pc = "ask" /\ next.seen = NoAnswer
          /\ next.mount = r.mount /\ next.addr = r.addr /\ next.peak = r.peak
          /\ next.paid = r.paid /\ next.answer = r.answer /\ next.owed = r.owed
          /\ next.tries = r.tries
      BY <1>1 DEF RunOf
    <2>2. Goto(i, next)
      BY <1>2, <1>3
    <2> HIDE DEF next
    <2>3. Sound(next) /\ Fed(next)
      BY <1>1, <1>2, <2>1 DEF Sound, Fed
    <2>4. QED
      BY <1>2, <2>1, <2>2, <2>3, GotoSteps DEF r
  <1>4. CASE ~ (r.seen <= MinBalance)
    <2>1. r.seen \in Nat /\ r.peak \in Nat
      BY <1>1, <1>2, Constants DEF RunOf
    <2>2. r.peak > MinBalance
      BY <1>1, <1>2, <1>4, <2>1, Constants DEF Sound
    <2>3. QED
      BY <1>1, <1>2, <1>4, <2>2, FinishSteps DEF r
  <1>5. QED
    BY <1>3, <1>4

LEMMA AskSteps ==
  ASSUME Typed, RunsSound, NEW i \in 1 .. Len(runs), Ask(i)
  PROVE  \E next : Steps(i, next)
  <1> DEFINE r    == runs[i]
             next == [r EXCEPT !.pc = "asked", !.paid = FALSE]
  <1>1. r \in RunOf(mount) /\ Sound(r) /\ r.pc = "ask"
    BY DEF Typed, RunsSound, Ask
  <1>2. Goto(i, next) /\ UNCHANGED <<balance, app>>
    BY DEF Ask
  <1> HIDE DEF r
  <1>3. /\ next \in RunOf(mount) /\ next.pc = "asked" /\ next.seen = r.seen
        /\ next.mount = r.mount /\ next.addr = r.addr /\ next.peak = r.peak
        /\ next.paid = FALSE /\ next.answer = r.answer /\ next.owed = r.owed
        /\ next.tries = r.tries
    BY <1>1 DEF RunOf
  <1> HIDE DEF next
  <1>4. Sound(next) /\ Fed(next) /\ r.answer \in {"none", "error"}
    BY <1>1, <1>3 DEF Sound, Fed
  <1>5. QED
    BY <1>1, <1>2, <1>3, <1>4, GotoSteps DEF r

(* The answer is written into the run, then the loop goes on: an answer    *)
(* that is no error comes after coins, or with a balance above the         *)
(* faucet's threshold, which is not below minBalance.                      *)
LEMMA FaucetAnswersSteps ==
  ASSUME Typed, RunsSound, NEW i \in 1 .. Len(runs), FaucetAnswers(i)
  PROVE  \E next : Steps(i, next)
  <1> DEFINE r == runs[i]
  <1>1. r \in RunOf(mount) /\ Sound(r) /\ Fed(r) /\ r.pc = "asked"
    BY DEF Typed, RunsSound, FaucetAnswers
  <1>2. PICK kind \in {"sent", "enough", "error"} :
          /\ Possible(r, kind)
          /\ Answered(i, [r EXCEPT !.answer = kind, !.paid = FALSE,
                            !.owed = IF kind = "error" /\ ~ r.paid THEN @ + 1 ELSE @])
    BY DEF FaucetAnswers
  <1>3. UNCHANGED <<balance, app>>
    BY DEF FaucetAnswers
  <1> DEFINE told == [r EXCEPT !.answer = kind, !.paid = FALSE,
                        !.owed = IF kind = "error" /\ ~ r.paid THEN @ + 1 ELSE @]
  <1>4. /\ Possible(r, kind) /\ Answered(i, told)
    BY <1>2
  <1> HIDE DEF r
  <1>5. /\ r.owed \in Nat /\ r.tries \in 0 .. MaxAttempts - 1 /\ r.owed <= r.tries
        /\ r.peak \in Nat
    <2>1. /\ r.owed \in 0 .. MaxAttempts /\ r.tries \in 0 .. MaxAttempts - 1
          /\ r.peak \in Coins
      BY <1>1 DEF RunOf
    <2>2. r.owed <= r.tries
      BY <1>1 DEF Sound
    <2>3. r.peak \in Nat
      BY <2>1, Constants
    <2>4. r.owed \in Nat
      BY <2>1, Constants
    <2>5. QED
      BY <2>1, <2>2, <2>3, <2>4
  <1> DEFINE owed == IF kind = "error" /\ ~ r.paid THEN r.owed + 1 ELSE r.owed
  <1>6. owed \in 0 .. r.tries + 1 /\ owed \in 0 .. MaxAttempts
    BY <1>5, Constants
  <1>7. told = [r EXCEPT !.answer = kind, !.paid = FALSE, !.owed = owed]
    BY <1>1 DEF RunOf
  <1> HIDE DEF owed, told
  <1>8. /\ told \in RunOf(mount) /\ told.owed = owed
        /\ told.answer = kind /\ told.paid = FALSE
        /\ told.pc = r.pc /\ told.seen = r.seen /\ told.tries = r.tries
        /\ told.mount = r.mount /\ told.addr = r.addr /\ told.peak = r.peak
    BY <1>1, <1>2, <1>6, <1>7 DEF RunOf
  <1>9. CASE kind # "error"
    <2> DEFINE next == [told EXCEPT !.pc = "poll"]
    <2>1. Goto(i, next)
      BY <1>4, <1>8, <1>9 DEF Answered
    <2>2. /\ next \in RunOf(mount) /\ next.pc = "poll" /\ next.seen = r.seen
          /\ next.mount = r.mount /\ next.addr = r.addr /\ next.peak = r.peak
          /\ next.paid = FALSE /\ next.owed = told.owed /\ next.tries = r.tries
      BY <1>8 DEF RunOf
    <2>3. r.peak > MinBalance
      <3>1. r.paid \/ r.peak > Threshold
        BY <1>2, <1>4, <1>9 DEF Possible
      <3>2. CASE r.paid
        BY <1>1, <3>2 DEF Fed
      <3>3. CASE r.peak > Threshold
        BY <1>5, <3>3, GateAssumption
      <3>4. QED
        BY <3>1, <3>2, <3>3
    <2>4. told.owed = r.owed
      BY <1>8, <1>9 DEF owed
    <2> HIDE DEF next
    <2>5. Sound(next) /\ Fed(next)
      BY <1>1, <1>5, <2>2, <2>3, <2>4 DEF Sound, Fed
    <2>6. QED
      BY <1>1, <1>3, <2>1, <2>2, <2>5, GotoSteps DEF r
  <1>10. CASE kind = "error" /\ r.tries + 1 < MaxAttempts
    <2> DEFINE next == [told EXCEPT !.pc = "ask", !.tries = @ + 1]
    <2>1. Goto(i, next)
      BY <1>4, <1>8, <1>10 DEF Answered
    <2>2. /\ next \in RunOf(mount) /\ next.pc = "ask" /\ next.seen = r.seen
          /\ next.mount = r.mount /\ next.addr = r.addr /\ next.peak = r.peak
          /\ next.paid = FALSE /\ next.owed = told.owed /\ next.tries = r.tries + 1
          /\ next.answer = "error"
      <3>1. told.tries \in 0 .. MaxAttempts - 1 /\ told.tries + 1 \in 0 .. MaxAttempts - 1
        BY <1>5, <1>8, <1>10, Constants
      <3>2. QED
        BY <1>8, <1>10, <3>1 DEF RunOf
    <2> HIDE DEF next
    <2>3. Sound(next) /\ Fed(next)
      BY <1>1, <1>5, <1>8, <1>6, <2>2 DEF Sound, Fed
    <2>4. QED
      BY <1>1, <1>3, <2>1, <2>2, <2>3, GotoSteps DEF r
  <1>11. CASE kind = "error" /\ ~ (r.tries + 1 < MaxAttempts)
    <2>1. Finish(i, told, TRUE)
      BY <1>4, <1>8, <1>11 DEF Answered
    <2>2. QED
      BY <1>1, <1>3, <1>8, <2>1, FinishSteps DEF r
  <1>12. QED
    BY <1>9, <1>10, <1>11

LEMMA PollSteps ==
  ASSUME Typed, RunsSound, NEW i \in 1 .. Len(runs), Poll(i)
  PROVE  \E next : Steps(i, next)
  <1> DEFINE r    == runs[i]
             next == [r EXCEPT !.seen = NoAnswer, !.polls = @ + 1]
             over == r.seen # MinBalance \/ r.polls + 1 = MaxPolls
  <1>1. r \in RunOf(mount) /\ Sound(r) /\ Fed(r) /\ r.pc = "poll"
    BY DEF Typed, RunsSound, Poll
  <1>2. /\ IF over THEN Finish(i, r, FALSE) ELSE Goto(i, next)
        /\ UNCHANGED <<balance, app>>
    BY DEF Poll
  <1>3. r.peak > MinBalance
    BY <1>1 DEF Sound
  <1> HIDE DEF r
  <1>4. CASE over
    BY <1>1, <1>2, <1>3, <1>4, FinishSteps DEF r, Fed
  <1>5. CASE ~ over
    <2>1. r.polls \in 0 .. MaxPolls - 1 /\ r.polls + 1 \in 0 .. MaxPolls - 1
      BY <1>1, <1>5, Constants DEF RunOf
    <2>2. /\ next \in RunOf(mount) /\ next.pc = "poll" /\ next.seen = NoAnswer
          /\ next.mount = r.mount /\ next.addr = r.addr /\ next.peak = r.peak
          /\ next.paid = r.paid /\ next.owed = r.owed /\ next.tries = r.tries
      BY <1>1, <2>1 DEF RunOf
    <2>3. Goto(i, next)
      BY <1>2, <1>5
    <2> HIDE DEF next
    <2>4. Sound(next) /\ Fed(next)
      BY <1>1, <1>3, <2>2 DEF Sound, Fed
    <2>5. QED
      BY <1>1, <1>2, <2>2, <2>3, <2>4, GotoSteps DEF r
  <1>6. QED
    BY <1>4, <1>5

LEMMA AdvanceSteps ==
  ASSUME Typed, RunsSound, NEW i \in DOMAIN runs, Advance(i)
  PROVE  i \in 1 .. Len(runs) /\ \E next : Steps(i, next)
  <1>1. i \in 1 .. Len(runs)
    BY DEF Typed
  <1>2. QED
    BY <1>1, NodeAnswersSteps, NodeFailsSteps, CheckSteps, AskSteps,
       FaucetAnswersSteps, PollSteps DEF Advance

LEMMA StepsKept ==
  ASSUME Typed, RunsSound, LoadingCounts, EndedFunded, Started,
         NEW i \in 1 .. Len(runs), NEW next, Steps(i, next)
  PROVE  GateInv'
  <1>1. /\ Len(runs) \in Nat /\ DOMAIN runs = 1 .. Len(runs)
        /\ runs' \in Seq(RunOf(mount)) /\ Len(runs') = Len(runs)
        /\ DOMAIN runs' = 1 .. Len(runs)
        /\ runs'[i] = next /\ \A j \in 1 .. Len(runs) : j # i => runs'[j] = runs[j]
    BY DEF Typed, Steps
  <1>2. /\ UNCHANGED <<build, balance, signer, events, mount, due>>
        /\ runs[i].pc # "done"
        /\ next.mount = runs[i].mount /\ next.addr = runs[i].addr
        /\ next.peak = runs[i].peak /\ Sound(next) /\ Fed(next)
    BY DEF Steps, app
  <1>3. loading \in Nat /\ failed \in BOOLEAN
    BY DEF Typed
  <1>4. RunsSound'
    <2>1. ASSUME NEW j \in 1 .. Len(runs)
          PROVE  /\ Sound(runs'[j]) /\ Fed(runs'[j])
                 /\ balance[runs'[j].addr] <= runs'[j].peak
      BY <1>1, <1>2 DEF RunsSound
    <2>2. QED
      BY <1>1, <1>2, <2>1 DEF RunsSound, Sound, Fed
  <1>5. Started'
    BY <1>1, <1>2 DEF Started
  <1>6. IsFiniteSet(Active) /\ Cardinality(Active) \in Nat
    BY ActiveFinite
  <1>7. CASE GoesOn(i, next)
    <2>1. next.pc # "done" /\ loading' = loading /\ failed' = failed
      BY <1>7 DEF GoesOn
    <2>2. Typed'
      BY <1>1, <1>2, <2>1 DEF Typed
    <2>3. Active' = Active
      BY <1>1, <1>2, <2>1 DEF Active
    <2>4. LoadingCounts'
      BY <1>2, <2>1, <2>3 DEF LoadingCounts, Active
    <2>5. EndedFunded'
      BY <1>1, <1>2, <2>1 DEF EndedFunded
    <2>6. QED
      BY <1>4, <1>5, <2>2, <2>4, <2>5 DEF GateInv
  <1>8. ASSUME NEW error \in BOOLEAN, Ends(i, next, error) PROVE GateInv'
    <2>1. /\ next.pc = "done" /\ (~ error => next.peak > MinBalance)
          /\ loading' = IF Shown(i) THEN loading - 1 ELSE loading
          /\ failed' = (failed \/ (Shown(i) /\ error))
      BY <1>8 DEF Ends
    <2>2. CASE signer = NoSigner
      <3>1. ~ Shown(i)
        BY <2>2 DEF Shown
      <3>2. loading' = loading /\ failed' = failed
        BY <1>3, <2>1, <3>1
      <3>3. Typed'
        BY <1>1, <1>2, <3>2 DEF Typed
      <3>4. QED
        BY <1>2, <1>4, <1>5, <2>2, <3>3 DEF GateInv, LoadingCounts, EndedFunded
    <2>3. CASE signer # NoSigner /\ runs[i].mount # mount
      <3>1. ~ Shown(i)
        BY <2>3 DEF Shown
      <3>2. loading' = loading /\ failed' = failed
        BY <1>3, <2>1, <3>1
      <3>3. Typed'
        BY <1>1, <1>2, <3>2 DEF Typed
      <3>4. Active' = Active
        BY <1>1, <1>2, <2>3 DEF Active
      <3>5. LoadingCounts'
        BY <1>2, <3>2, <3>4 DEF LoadingCounts, Active
      <3>6. EndedFunded'
        BY <1>1, <1>2, <2>3, <3>2 DEF EndedFunded
      <3>7. QED
        BY <1>4, <1>5, <3>3, <3>5, <3>6 DEF GateInv
    <2>4. CASE signer # NoSigner /\ runs[i].mount = mount
      <3>1. loading' = loading - 1 /\ failed' = (failed \/ error)
        BY <2>1, <2>4 DEF Shown
      <3>2. i \in Active /\ Active' = Active \ {i}
        BY <1>1, <1>2, <2>1, <2>4 DEF Active
      <3>3. Cardinality(Active') = Cardinality(Active) - 1 /\ 0 < Cardinality(Active)
        <4>1. Cardinality(Active \ {i}) = Cardinality(Active) - 1
          BY <1>6, <3>2, FS_RemoveElement
        <4>2. Cardinality(Active \ {i}) \in Nat
          BY <1>6, FS_RemoveElement, FS_CardinalityType
        <4>3. QED
          BY <1>6, <3>2, <4>1, <4>2
      <3>4. loading = Cardinality(Active)
        BY <2>4 DEF LoadingCounts, Active
      <3>5. LoadingCounts' /\ loading' \in Nat
        BY <1>2, <1>6, <3>1, <3>3, <3>4 DEF LoadingCounts, Active
      <3>6. failed' \in BOOLEAN
        BY <2>1
      <3>7. Typed'
        BY <1>1, <1>2, <3>5, <3>6 DEF Typed
      <3>8. EndedFunded'
        <4>1. CASE error
          BY <3>1, <4>1 DEF EndedFunded
        <4>2. CASE ~ error
          BY <1>1, <1>2, <1>3, <2>1, <3>1, <4>2 DEF EndedFunded
        <4>3. QED
          BY <4>1, <4>2
      <3>9. QED
        BY <1>4, <1>5, <3>5, <3>7, <3>8 DEF GateInv
    <2>5. QED
      BY <2>2, <2>3, <2>4
  <1>9. QED
    BY <1>7, <1>8 DEF Steps
-----------------------------------------------------------------------------
(* Coins come and go: the runs stay where they are, and their peaks grow.  *)
Grown == /\ Len(runs') = Len(runs)
         /\ \A j \in 1 .. Len(runs) :
              /\ runs'[j].mount = runs[j].mount /\ runs'[j].addr = runs[j].addr
              /\ runs'[j].pc = runs[j].pc /\ runs[j].peak <= runs'[j].peak
         /\ UNCHANGED <<app, loading, failed>>

Risen(r, b) == [r EXCEPT !.peak = Max2(@, b)]

LEMMA RisenRun ==
  ASSUME NEW r \in RunOf(mount), NEW b \in Coins, Sound(r),
         Fed(r) \/ b > MinBalance
  PROVE  /\ Risen(r, b) \in RunOf(mount) /\ Sound(Risen(r, b)) /\ Fed(Risen(r, b))
         /\ Risen(r, b).mount = r.mount /\ Risen(r, b).addr = r.addr
         /\ Risen(r, b).pc = r.pc
         /\ r.peak <= Risen(r, b).peak /\ b <= Risen(r, b).peak
  <1> DEFINE peak == Max2(r.peak, b)
  <1>1. r.peak \in Nat /\ b \in Nat /\ r.peak \in Coins /\ MinBalance \in Nat
    BY Constants DEF RunOf
  <1>2. peak \in Coins /\ r.peak <= peak /\ b <= peak
    BY <1>1 DEF Max2
  <1>3. Risen(r, b) = [r EXCEPT !.peak = peak]
    BY DEF Risen, RunOf
  <1>4. peak \in Nat
    BY <1>2, Constants
  <1> HIDE DEF peak
  <1>5. /\ Risen(r, b) \in RunOf(mount) /\ Risen(r, b).peak = peak
        /\ Risen(r, b).mount = r.mount /\ Risen(r, b).addr = r.addr
        /\ Risen(r, b).pc = r.pc /\ Risen(r, b).seen = r.seen
        /\ Risen(r, b).answer = r.answer /\ Risen(r, b).paid = r.paid
        /\ Risen(r, b).owed = r.owed /\ Risen(r, b).tries = r.tries
    BY <1>2, <1>3 DEF RunOf
  <1>6. r.seen \in Nat \cup {NoAnswer}
    BY Constants DEF RunOf
  <1>7. Sound(Risen(r, b))
    BY <1>1, <1>2, <1>4, <1>5, <1>6 DEF Sound
  <1>8. Fed(Risen(r, b))
    BY <1>1, <1>2, <1>4, <1>5 DEF Fed
  <1>9. QED
    BY <1>2, <1>5, <1>7, <1>8

LEMMA BecomesGrown ==
  ASSUME Typed, RunsSound, NEW a \in Address, NEW b \in Coins,
         NEW before \in Seq(RunOf(mount)), Len(before) = Len(runs),
         Becomes(a, b, before),
         \A j \in 1 .. Len(runs) :
           /\ before[j].mount = runs[j].mount /\ before[j].addr = runs[j].addr
           /\ before[j].pc = runs[j].pc /\ before[j].peak = runs[j].peak
           /\ Sound(before[j])
           /\ Fed(before[j]) \/ (before[j].addr = a /\ b > MinBalance)
  PROVE  Typed' /\ RunsSound' /\ Grown
  <1>1. /\ Len(runs) \in Nat /\ DOMAIN runs = 1 .. Len(runs)
        /\ balance \in [Address -> Coins]
    BY DEF Typed
  <1>2. /\ balance' = [balance EXCEPT ![a] = b]
        /\ runs' = [j \in DOMAIN runs |->
                      IF before[j].addr = a THEN Risen(before[j], b) ELSE before[j]]
        /\ UNCHANGED <<app, loading, failed>>
    BY DEF Becomes, Risen
  <1>3. ASSUME NEW j \in 1 .. Len(runs)
        PROVE  /\ runs'[j] \in RunOf(mount) /\ Sound(runs'[j]) /\ Fed(runs'[j])
               /\ runs'[j].mount = runs[j].mount /\ runs'[j].addr = runs[j].addr
               /\ runs'[j].pc = runs[j].pc /\ runs[j].peak <= runs'[j].peak
               /\ balance'[runs'[j].addr] <= runs'[j].peak
    <2>1. /\ before[j] \in RunOf(mount) /\ Sound(before[j])
          /\ Fed(before[j]) \/ (before[j].addr = a /\ b > MinBalance)
          /\ before[j].mount = runs[j].mount /\ before[j].addr = runs[j].addr
          /\ before[j].pc = runs[j].pc /\ before[j].peak = runs[j].peak
      OBVIOUS
    <2>2. before[j].addr \in Address /\ before[j].peak \in Nat
      BY <2>1, Constants DEF RunOf
    <2>3. runs'[j] = IF before[j].addr = a THEN Risen(before[j], b) ELSE before[j]
      BY <1>1, <1>2
    <2>4. balance[runs[j].addr] <= runs[j].peak
      BY DEF RunsSound
    <2>5. CASE before[j].addr = a
      BY <1>1, <1>2, <2>1, <2>3, <2>5, RisenRun
    <2>6. CASE before[j].addr # a
      BY <1>1, <1>2, <2>1, <2>2, <2>3, <2>4, <2>6
    <2>7. QED
      BY <2>5, <2>6
  <1>4. runs' \in Seq(RunOf(mount)) /\ Len(runs') = Len(runs)
    BY <1>1, <1>2, <1>3
  <1>5. balance' \in [Address -> Coins]
    BY <1>1, <1>2
  <1>6. Typed'
    BY <1>2, <1>4, <1>5 DEF Typed, app
  <1>7. RunsSound'
    BY <1>3, <1>4 DEF RunsSound, Sound, Fed
  <1>8. QED
    BY <1>2, <1>3, <1>4, <1>6, <1>7 DEF Grown

LEMMA SpendGrown ==
  ASSUME Typed, RunsSound, NEW a \in Address, NEW rest \in Remainders, Spend(a, rest)
  PROVE  Typed' /\ RunsSound' /\ Grown
  <1>1. rest \in Coins /\ Becomes(a, rest, runs) /\ runs \in Seq(RunOf(mount))
    BY GateAssumption DEF Spend, Typed
  <1>2. QED
    BY <1>1, BecomesGrown DEF RunsSound

LEMMA FaucetPaysGrown ==
  ASSUME Typed, RunsSound, NEW i \in DOMAIN runs, FaucetPays(i)
  PROVE  Typed' /\ RunsSound' /\ Grown
  <1> DEFINE r == runs[i]
             paid  == [r EXCEPT !.paid = TRUE]
             fewer == [r EXCEPT !.owed = @ - 1]
  <1>1. /\ runs \in Seq(RunOf(mount)) /\ i \in 1 .. Len(runs)
        /\ r \in RunOf(mount) /\ Sound(r) /\ Fed(r)
    BY DEF Typed, RunsSound
  <1>2. \/ r.pc = "asked" /\ Becomes(r.addr, Plenty, [runs EXCEPT ![i] = paid])
        \/ r.owed > 0 /\ Becomes(r.addr, Plenty, [runs EXCEPT ![i] = fewer])
    BY DEF FaucetPays
  <1>3. ASSUME NEW next \in RunOf(mount), Becomes(r.addr, Plenty, [runs EXCEPT ![i] = next]),
               next.mount = r.mount, next.addr = r.addr, next.pc = r.pc,
               next.peak = r.peak, Sound(next)
        PROVE  Typed' /\ RunsSound' /\ Grown
    <2> DEFINE before == [runs EXCEPT ![i] = next]
    <2>1. /\ before \in Seq(RunOf(mount)) /\ Len(before) = Len(runs)
          /\ before[i] = next /\ \A j \in 1 .. Len(runs) : j # i => before[j] = runs[j]
      BY <1>1
    <2>2. r.addr \in Address /\ Plenty \in Coins /\ Plenty > MinBalance
      BY <1>1, Constants DEF RunOf, Coins
    <2>3. Becomes(r.addr, Plenty, before)
      BY <1>3
    <2> HIDE DEF before
    <2>4. \A j \in 1 .. Len(runs) :
            /\ before[j].mount = runs[j].mount /\ before[j].addr = runs[j].addr
            /\ before[j].pc = runs[j].pc /\ before[j].peak = runs[j].peak
            /\ Sound(before[j])
            /\ Fed(before[j]) \/ (before[j].addr = r.addr /\ Plenty > MinBalance)
      BY <1>3, <2>1, <2>2 DEF RunsSound
    <2> HIDE DEF r
    <2>5. QED
      BY <2>1, <2>2, <2>3, <2>4, BecomesGrown
  <1> HIDE DEF r
  <1>4. /\ paid \in RunOf(mount) /\ paid.mount = r.mount /\ paid.addr = r.addr
        /\ paid.pc = r.pc /\ paid.peak = r.peak /\ Sound(paid)
    BY <1>1 DEF RunOf, Sound
  <1>5. CASE r.owed > 0
    <2>1. r.owed \in 0 .. MaxAttempts /\ r.tries \in 0 .. MaxAttempts - 1
      BY <1>1 DEF RunOf
    <2>2. /\ r.owed - 1 \in 0 .. MaxAttempts
          /\ r.owed \in Nat /\ r.tries \in Nat
      BY <1>5, <2>1, Constants
    <2>3. /\ fewer \in RunOf(mount) /\ fewer.mount = r.mount /\ fewer.addr = r.addr
          /\ fewer.pc = r.pc /\ fewer.peak = r.peak /\ fewer.seen = r.seen
          /\ fewer.answer = r.answer /\ fewer.tries = r.tries
          /\ fewer.owed = r.owed - 1
      BY <1>1, <2>2 DEF RunOf
    <2> HIDE DEF fewer
    <2>4. Sound(fewer)
      BY <1>1, <2>2, <2>3 DEF Sound
    <2>5. QED
      BY <1>2, <1>3, <1>4, <2>3, <2>4
  <1>6. CASE ~ (r.owed > 0)
    BY <1>2, <1>3, <1>4, <1>6
  <1>7. QED
    BY <1>5, <1>6

LEMMA GrownKept ==
  ASSUME Typed, Typed', RunsSound', LoadingCounts, EndedFunded, Started, Grown
  PROVE  GateInv'
  <1>1. /\ DOMAIN runs = 1 .. Len(runs) /\ DOMAIN runs' = 1 .. Len(runs)
        /\ Len(runs') = Len(runs)
        /\ \A j \in 1 .. Len(runs) :
              /\ runs'[j].mount = runs[j].mount /\ runs'[j].addr = runs[j].addr
              /\ runs'[j].pc = runs[j].pc /\ runs[j].peak <= runs'[j].peak
              /\ runs[j].peak \in Nat /\ runs'[j].peak \in Nat
        /\ UNCHANGED <<signer, due, mount, loading, failed>>
    <2>1. /\ Len(runs') = Len(runs)
          /\ \A j \in 1 .. Len(runs) :
                /\ runs'[j].mount = runs[j].mount /\ runs'[j].addr = runs[j].addr
                /\ runs'[j].pc = runs[j].pc /\ runs[j].peak <= runs'[j].peak
          /\ UNCHANGED <<signer, due, mount, loading, failed>>
      BY DEF Grown, app
    <2>2. /\ DOMAIN runs = 1 .. Len(runs) /\ DOMAIN runs' = 1 .. Len(runs')
          /\ \A j \in 1 .. Len(runs) : runs[j] \in RunOf(mount)
          /\ \A j \in 1 .. Len(runs') : runs'[j] \in RunOf(mount')
      BY DEF Typed
    <2>3. \A m : \A r \in RunOf(m) : r.peak \in Nat
      BY Constants DEF RunOf
    <2>4. QED
      BY <2>1, <2>2, <2>3
  <1>2. Active' = Active
    BY <1>1 DEF Active
  <1>3. LoadingCounts'
    BY <1>1, <1>2 DEF LoadingCounts, Active
  <1>4. EndedFunded'
    BY <1>1, Constants DEF EndedFunded
  <1>5. Started'
    BY <1>1 DEF Started
  <1>6. QED
    BY <1>3, <1>4, <1>5 DEF GateInv
-----------------------------------------------------------------------------
LEMMA EffectKept ==
  ASSUME Typed, RunsSound, LoadingCounts, EndedFunded, Started, Effect
  PROVE  GateInv'
  <1> DEFINE new == [i \in 1 .. due |-> NewRun]
             n   == Len(runs)
  <1>1. /\ n \in Nat /\ due \in 1 .. 2 /\ signer # NoSigner /\ signer \in Address
        /\ mount \in Nat /\ 0 < mount /\ DOMAIN runs = 1 .. n
        /\ runs \in Seq(RunOf(mount)) /\ balance[signer] \in Coins
        /\ loading \in Nat
    BY DEF Typed, Effect
  <1>2. /\ due' = 0 /\ loading' = loading + due /\ runs' = runs \o new
        /\ UNCHANGED <<build, balance, signer, events, mount, failed>>
    BY DEF Effect
  <1>3. /\ NewRun \in RunOf(mount) /\ NewRun.mount = mount /\ NewRun.addr = signer
        /\ NewRun.pc = "check" /\ NewRun.peak = balance[signer]
        /\ NewRun.seen = NoAnswer /\ NewRun.answer = "none" /\ NewRun.paid = FALSE
        /\ NewRun.owed = 0 /\ NewRun.tries = 0
    <2>1. 0 \in 0 .. MaxAttempts - 1 /\ 0 \in 0 .. MaxPolls - 1 /\ 0 \in 0 .. MaxAttempts
      BY Constants
    <2>2. QED
      BY <1>1, <2>1 DEF NewRun, RunOf
  <1>4. /\ Sound(NewRun) /\ Fed(NewRun)
        /\ balance[NewRun.addr] <= NewRun.peak
    <2>1. balance[signer] \in Nat
      BY <1>1, Constants
    <2>2. QED
      BY <1>3, <2>1 DEF Sound, Fed
  <1>5. /\ new \in Seq(RunOf(mount)) /\ Len(new) = due
        /\ \A i \in 1 .. due : new[i] = NewRun
    BY <1>1, <1>3
  <1> HIDE DEF new, n
  <1>6. /\ runs' \in Seq(RunOf(mount)) /\ Len(runs') = n + due
        /\ \A i \in 1 .. n : runs'[i] = runs[i]
        /\ \A i \in n + 1 .. n + due : runs'[i] = NewRun
        /\ 1 .. n + due = (1 .. n) \cup (n + 1 .. n + due)
        /\ DOMAIN runs' = 1 .. n + due
    <2>1. /\ runs' \in Seq(RunOf(mount)) /\ Len(runs') = n + due
          /\ \A i \in 1 .. n : runs'[i] = runs[i]
          /\ DOMAIN runs' = 1 .. n + due
      BY <1>1, <1>2, <1>5 DEF n
    <2>2. ASSUME NEW i \in n + 1 .. n + due PROVE runs'[i] = NewRun
      <3>1. /\ i - n \in 1 .. due /\ i \in 1 .. n + due /\ ~ (i <= n)
        BY <1>1
      <3>2. runs'[i] = new[i - n]
        BY <1>1, <1>2, <1>5, <3>1 DEF n
      <3>3. QED
        BY <1>5, <3>1, <3>2
    <2>3. QED
      BY <1>1, <2>1, <2>2
  <1>7. Typed'
    BY <1>1, <1>2, <1>6 DEF Typed
  <1>8. RunsSound'
    <2>1. ASSUME NEW i \in 1 .. n + due
          PROVE  /\ Sound(runs'[i]) /\ Fed(runs'[i])
                 /\ balance[runs'[i].addr] <= runs'[i].peak
      BY <1>4, <1>6 DEF RunsSound, n
    <2>2. QED
      BY <1>2, <1>6, <2>1 DEF RunsSound, Sound, Fed
  <1>9. LoadingCounts'
    <2>1. Active' = Active \cup (n + 1 .. n + due)
      BY <1>1, <1>2, <1>3, <1>6 DEF Active
    <2>2. Active \cap (n + 1 .. n + due) = {}
      BY <1>1 DEF Active
    <2>3. IsFiniteSet(n + 1 .. n + due) /\ Cardinality(n + 1 .. n + due) = due
      BY <1>1, FS_Interval
    <2>4. IsFiniteSet(Active) /\ Cardinality(Active) \in Nat
      BY ActiveFinite
    <2>5. Cardinality(Active') = Cardinality(Active) + due
      <3>1. Cardinality(Active') =
              Cardinality(Active) + Cardinality(n + 1 .. n + due)
                - Cardinality(Active \cap (n + 1 .. n + due))
        BY <2>1, <2>3, <2>4, FS_Union
      <3>2. Cardinality(Active \cap (n + 1 .. n + due)) = 0
        BY <2>2, FS_EmptySet, Zenon
      <3>3. QED
        BY <1>1, <2>3, <2>4, <3>1, <3>2
    <2>6. loading = Cardinality(Active)
      BY <1>1 DEF LoadingCounts, Active
    <2>7. QED
      BY <1>2, <2>5, <2>6 DEF LoadingCounts, Active
  <1>10. EndedFunded'
    BY <1>1, <1>2, <1>3, <1>6 DEF EndedFunded, n
  <1>11. Started'
    <2>1. n + due \in 1 .. n + due /\ n + due \in n + 1 .. n + due
      BY <1>1
    <2>2. QED
      BY <1>2, <1>3, <1>6, <2>1 DEF Started
  <1>12. QED
    BY <1>7, <1>8, <1>9, <1>10, <1>11 DEF GateInv

LEMMA SignerKept ==
  ASSUME Typed, RunsSound, LoadingCounts, EndedFunded, Started,
         NEW s \in Address \cup {NoSigner}, SignerConnected(s)
  PROVE  GateInv'
  <1>1. /\ events < MaxEvents /\ s # signer /\ due = 0
        /\ events' = events + 1 /\ signer' = s
        /\ UNCHANGED <<build, balance, runs>>
    BY DEF SignerConnected
  <1>2. /\ due' \in 0 .. 2
        /\ due' > 0 => s # NoSigner
        /\ s # NoSigner => due' > 0
    <2>1. due' = CASE s = NoSigner                      -> 0
                   [] s # NoSigner /\ signer # NoSigner -> 1
                   [] s # NoSigner /\ signer = NoSigner -> IF build = "development" THEN 2 ELSE 1
      BY DEF SignerConnected
    <2>2. QED
      BY <2>1
  <1>3. /\ events' \in 0 .. MaxEvents /\ mount \in Nat /\ mount <= events /\ events \in Nat
        /\ DOMAIN runs = 1 .. Len(runs)
        /\ \A i \in 1 .. Len(runs) : runs[i].mount \in 1 .. mount
    <2>1. /\ events \in 0 .. MaxEvents /\ mount \in 0 .. events
          /\ DOMAIN runs = 1 .. Len(runs)
          /\ \A i \in 1 .. Len(runs) : runs[i] \in RunOf(mount)
      BY DEF Typed
    <2>2. \A i \in 1 .. Len(runs) : runs[i].mount \in 1 .. mount
      BY <2>1 DEF RunOf
    <2>3. QED
      BY <1>1, <2>1, <2>2, Constants
  <1>4. RunsSound'
    BY <1>1 DEF RunsSound, Sound, Fed
  <1>5. Started'
    BY <1>1, <1>2 DEF Started
  <1>6. CASE signer = NoSigner
    <2>1. mount' = mount + 1 /\ loading' = 0 /\ failed' = FALSE
      BY <1>6 DEF SignerConnected
    <2>2. runs' \in Seq(RunOf(mount'))
      <3>1. RunOf(mount) \subseteq RunOf(mount')
        BY <1>3, <2>1, RunOfLater
      <3>2. runs \in Seq(RunOf(mount))
        BY DEF Typed
      <3>3. QED
        BY <1>1, <3>1, <3>2
    <2>3. mount' \in 0 .. events' /\ mount' > 0
      BY <1>1, <1>3, <2>1
    <2>4. Typed'
      <3>1. /\ build' \in Builds /\ balance' \in [Address -> Coins]
            /\ signer' \in Address \cup {NoSigner}
        BY <1>1 DEF Typed
      <3>2. loading' \in Nat /\ (due' > 0 => signer' # NoSigner)
        BY <1>1, <1>2, <2>1
      <3>3. failed' \in BOOLEAN
        BY <2>1
      <3>4. QED
        BY <1>2, <1>3, <2>2, <2>3, <3>1, <3>2, <3>3 DEF Typed
    <2>5. \A i \in 1 .. Len(runs) : runs[i].mount # mount'
      BY <1>3, <2>1
    <2>6. Active' = {}
      BY <1>1, <1>3, <2>5 DEF Active
    <2>7. Cardinality(Active') = 0
      BY <2>6, FS_EmptySet, Zenon
    <2>8. LoadingCounts'
      BY <2>1, <2>7 DEF LoadingCounts, Active
    <2>9. EndedFunded'
      BY <1>1, <2>5 DEF EndedFunded
    <2>10. QED
      BY <1>4, <1>5, <2>4, <2>8, <2>9 DEF GateInv
  <1>7. CASE signer # NoSigner
    <2>1. UNCHANGED <<mount, loading, failed>>
      BY <1>7 DEF SignerConnected
    <2>2. mount' \in 0 .. events'
      BY <1>1, <1>3, <2>1
    <2>3. Typed'
      <3>1. /\ build' \in Builds /\ balance' \in [Address -> Coins]
            /\ signer' \in Address \cup {NoSigner}
            /\ loading' \in Nat /\ failed' \in BOOLEAN
            /\ runs' \in Seq(RunOf(mount'))
        BY <1>1, <2>1 DEF Typed
      <3>2. mount' > 0
        BY <1>7, <2>1 DEF Typed
      <3>3. due' > 0 => signer' # NoSigner
        BY <1>1, <1>2
      <3>4. QED
        BY <1>2, <1>3, <2>2, <3>1, <3>2, <3>3 DEF Typed
    <2>4. Active' = Active
      BY <1>1, <2>1 DEF Active
    <2>5. LoadingCounts'
      BY <1>1, <1>7, <2>1, <2>4 DEF LoadingCounts, Active
    <2>6. EndedFunded'
      BY <1>1, <1>7, <2>1 DEF EndedFunded
    <2>7. QED
      BY <1>4, <1>5, <2>3, <2>5, <2>6 DEF GateInv
  <1>8. QED
    BY <1>6, <1>7

LEMMA InitGateInv ==
  ASSUME Init
  PROVE  GateInv
  <1>1. /\ build \in Builds /\ balance \in [Address -> Coins] /\ signer = NoSigner
        /\ events = 0 /\ mount = 0 /\ due = 0 /\ loading = 0 /\ failed = FALSE
        /\ runs = << >>
    BY GateAssumption DEF Init
  <1>2. Typed
    <2>1. events \in 0 .. MaxEvents /\ mount \in 0 .. events /\ due \in 0 .. 2
      BY <1>1, Constants
    <2>2. runs \in Seq(RunOf(mount)) /\ Len(runs) = 0
      BY <1>1
    <2>3. failed \in BOOLEAN
      BY DEF Init
    <2>4. /\ signer \in Address \cup {NoSigner} /\ loading \in Nat
          /\ signer # NoSigner => mount > 0
          /\ due > 0 => signer # NoSigner
      BY <1>1
    <2>5. build \in Builds /\ balance \in [Address -> Coins]
      BY <1>1
    <2>6. QED
      BY <2>1, <2>2, <2>3, <2>4, <2>5 DEF Typed
  <1>3. QED
    BY <1>1, <1>2 DEF GateInv, RunsSound, LoadingCounts, EndedFunded, Started

LEMMA NextGateInv == GateInv /\ [Next]_vars => GateInv'
  <1> SUFFICES ASSUME GateInv, [Next]_vars PROVE GateInv'
    OBVIOUS
  <1>0. Typed /\ RunsSound /\ LoadingCounts /\ EndedFunded /\ Started
    BY DEF GateInv
  <1>1. ASSUME NEW s \in Address \cup {NoSigner}, SignerConnected(s) PROVE GateInv'
    BY <1>0, <1>1, SignerKept
  <1>2. CASE Effect
    BY <1>0, <1>2, EffectKept
  <1>3. ASSUME NEW i \in DOMAIN runs, Advance(i) PROVE GateInv'
    BY <1>0, <1>3, AdvanceSteps, StepsKept
  <1>4. ASSUME NEW i \in DOMAIN runs, FaucetPays(i) PROVE GateInv'
    BY <1>0, <1>4, FaucetPaysGrown, GrownKept
  <1>5. ASSUME NEW a \in Address, NEW rest \in Remainders, Spend(a, rest) PROVE GateInv'
    BY <1>0, <1>5, SpendGrown, GrownKept
  <1>6. CASE UNCHANGED vars
    BY <1>0, <1>6 DEF vars, GateInv, Typed, RunsSound, Sound, Fed, LoadingCounts,
       EndedFunded, Started
  <1>7. QED
    BY <1>1, <1>2, <1>3, <1>4, <1>5, <1>6 DEF Next, Quiet

(* GateInv holds in every state of every page. *)
THEOREM GateInvariant == Spec => []GateInv
  BY InitGateInv, NextGateInv, PTL DEF Spec

(* The state of the page is well formed, whatever signers and answers come: *)
(* in particular requests and polls stay within their bounds.              *)
THEOREM GateTypeCorrect == Spec => []TypeOK
  <1>1. ASSUME GateInv PROVE TypeOK
    <2>1. /\ DOMAIN runs = 1 .. Len(runs)
          /\ \A i \in 1 .. Len(runs) : runs[i] \in RunOf(mount)
          /\ events \in 0 .. MaxEvents /\ mount \in 0 .. events
      BY <1>1 DEF GateInv, Typed
    <2>2. mount \in 0 .. MaxEvents
      BY <2>1, Constants
    <2>3. QED
      BY <1>1, <2>1, <2>2 DEF GateInv, Typed, TypeOK, RunOf
  <1>2. QED
    BY <1>1, GateInvariant, PTL

(* The count behind the spinner is that of the runs of the page that is    *)
(* shown, although runs of earlier pages and addresses end in between.     *)
THEOREM LoadingCountsRuns == Spec => []LoadingCounts
  <1>1. GateInv => LoadingCounts
    BY DEF GateInv
  <1>2. QED
    BY <1>1, GateInvariant, PTL

(* The wallet is shown only if every account that the page has checked had *)
(* more than minBalance since.                                             *)
THEOREM OpenToFunded == Spec => []OpenMeansFunded
  <1>1. ASSUME GateInv PROVE OpenMeansFunded
    <2>1. Typed /\ LoadingCounts /\ EndedFunded /\ Started
      BY <1>1 DEF GateInv
    <2>2. SUFFICES ASSUME Open, due = 0
                   PROVE  /\ \E i \in DOMAIN runs :
                               runs[i].mount = mount /\ runs[i].addr = signer
                          /\ \A i \in DOMAIN runs :
                               runs[i].mount = mount => runs[i].peak > MinBalance
      BY DEF OpenMeansFunded
    <2>3. signer # NoSigner /\ loading = 0 /\ ~ failed /\ DOMAIN runs = 1 .. Len(runs)
      BY <2>1, <2>2 DEF Open, Typed
    <2>4. Cardinality(Active) = 0 /\ IsFiniteSet(Active)
      BY <2>1, <2>3, ActiveFinite DEF LoadingCounts, Active
    <2>5. Active = {}
      BY <2>4, FS_EmptySet
    <2>6. \A i \in DOMAIN runs : runs[i].mount = mount => runs[i].pc = "done"
      BY <2>5 DEF Active
    <2>7. QED
      BY <2>1, <2>2, <2>3, <2>6 DEF EndedFunded, Started
  <1>2. QED
    BY <1>1, GateInvariant, PTL

(* A run asks the faucet again only after an error. *)
THEOREM AsksAgainAfterErrors == Spec => AsksOnlyAfterErrors
  <1> DEFINE Asks == \A i \in DOMAIN runs :
                       runs[i].pc # "asked" /\ runs'[i].pc = "asked"
                         => runs[i].answer \in {"none", "error"}
  <1>1. ASSUME GateInv, [Next]_vars PROVE Asks
    <2>0. Typed /\ RunsSound /\ DOMAIN runs = 1 .. Len(runs) /\ Len(runs) \in Nat
      BY <1>1 DEF GateInv, Typed
    <2>1. CASE \A i \in 1 .. Len(runs) : runs'[i].pc = runs[i].pc
      BY <2>0, <2>1
    <2>2. ASSUME NEW i \in DOMAIN runs, Advance(i) PROVE Asks
      <3>1. i \in 1 .. Len(runs)
        BY <2>0
      <3>2. PICK next : Steps(i, next)
        BY <2>0, <2>2, AdvanceSteps
      <3>3. /\ runs'[i] = next /\ \A j \in 1 .. Len(runs) : j # i => runs'[j] = runs[j]
            /\ runs[i].pc # "asked" /\ next.pc = "asked"
                 => runs[i].answer \in {"none", "error"}
        BY <2>0, <3>1, <3>2 DEF Steps
      <3>4. QED
        BY <2>0, <3>3
    <2>3. CASE \/ \E i \in DOMAIN runs : FaucetPays(i)
               \/ \E a \in Address, rest \in Remainders : Spend(a, rest)
      BY <2>0, <2>1, <2>3, FaucetPaysGrown, SpendGrown DEF Grown
    <2>4. CASE Effect
      <3>1. runs' = runs \o [i \in 1 .. due |-> NewRun] /\ due \in Nat
        BY <1>1, <2>4 DEF Effect, GateInv, Typed
      <3>2. \A i \in 1 .. Len(runs) : runs'[i] = runs[i]
        BY <2>0, <3>1 DEF Typed
      <3>3. QED
        BY <2>1, <3>2
    <2>5. CASE UNCHANGED runs
      BY <2>1, <2>5
    <2>6. QED
      BY <1>1, <2>2, <2>3, <2>4, <2>5 DEF Next, Quiet, SignerConnected, vars
  <1>2. QED
    BY <1>1, GateInvariant, PTL DEF Spec, AsksOnlyAfterErrors
-----------------------------------------------------------------------------
(* The mapping of ImplementsScreen. *)
ShownWallet == IF Open THEN signer ELSE NoSigner
IsLeaving   == Open /\ due > 0

LEMMA ScreenStutters ==
  ASSUME UNCHANGED <<ShownWallet, IsLeaving>>
  PROVE  [Page!Next]_(Page!screen)
  BY DEF ShownWallet, IsLeaving, Page!screen

LEMMA StepsScreen ==
  ASSUME Typed, LoadingCounts, NEW i \in 1 .. Len(runs), NEW next, Steps(i, next)
  PROVE  [Page!Next]_(Page!screen)
  <1>1. /\ UNCHANGED <<signer, due>> /\ loading \in Nat /\ failed \in BOOLEAN
        /\ signer # NoSigner => signer \in Address
        /\ due \in Nat /\ runs[i].pc # "done"
    BY DEF Steps, app, Typed
  <1>2. CASE UNCHANGED <<loading, failed>>
    BY <1>1, <1>2, ScreenStutters DEF ShownWallet, IsLeaving, Open
  <1>3. CASE Shown(i) /\ \E error \in BOOLEAN : Ends(i, next, error)
    <2>1. signer # NoSigner /\ i \in Active
      BY <1>1, <1>3 DEF Shown, Active, Typed
    <2>2. loading = Cardinality(Active)
      BY <2>1 DEF LoadingCounts, Active
    <2>3. loading # 0
      BY <2>1, <2>2, ActiveFinite, FS_EmptySet
    <2>4. ~ Open
      BY <2>3 DEF Open
    <2>5. CASE Open'
      <3>1. /\ ShownWallet = NoSigner /\ ShownWallet' = signer
            /\ signer \in Address
        BY <1>1, <2>1, <2>4, <2>5 DEF ShownWallet
      <3>2. CASE due > 0
        <4>1. Page!Show(signer, TRUE)
          BY <1>1, <2>5, <3>1, <3>2 DEF Page!Show, ShownWallet, IsLeaving
        <4>2. QED
          BY <3>1, <4>1 DEF Page!Next
      <3>3. CASE ~ (due > 0)
        <4>1. Page!Show(signer, FALSE)
          BY <1>1, <2>5, <3>1, <3>3 DEF Page!Show, ShownWallet, IsLeaving
        <4>2. QED
          BY <3>1, <4>1 DEF Page!Next
      <3>4. QED
        BY <3>2, <3>3
    <2>6. CASE ~ Open'
      BY <2>4, <2>6, ScreenStutters DEF ShownWallet, IsLeaving
    <2>7. QED
      BY <2>5, <2>6
  <1>4. CASE ~ Shown(i) /\ \E error \in BOOLEAN : Ends(i, next, error)
    BY <1>1, <1>2, <1>4 DEF Ends
  <1>5. QED
    BY <1>2, <1>3, <1>4 DEF Steps, GoesOn

LEMMA SignerScreen ==
  ASSUME Typed, NEW s \in Address \cup {NoSigner}, SignerConnected(s)
  PROVE  [Page!Next]_(Page!screen)
  <1>1. s # signer /\ due = 0 /\ signer' = s
    BY DEF SignerConnected
  <1>2. /\ s # NoSigner => due' > 0
        /\ signer = NoSigner => loading' = 0 /\ failed' = FALSE
        /\ signer # NoSigner => UNCHANGED <<loading, failed>>
    BY DEF SignerConnected
  <1>3. ~ IsLeaving
    BY <1>1 DEF IsLeaving
  <1>4. CASE signer = NoSigner
    <2>1. s \in Address /\ s # NoSigner /\ Open' /\ ~ Open
      BY <1>1, <1>2, <1>4 DEF Open
    <2>2. ShownWallet = NoSigner /\ ShownWallet' = s /\ IsLeaving' = TRUE
      BY <1>1, <1>2, <2>1 DEF ShownWallet, IsLeaving
    <2>3. Page!Show(s, TRUE)
      BY <2>2 DEF Page!Show, ShownWallet, IsLeaving
    <2>4. QED
      BY <2>1, <2>3 DEF Page!Next
  <1>5. CASE signer # NoSigner /\ ~ Open
    <2>1. ~ Open'
      BY <1>1, <1>2, <1>5 DEF Open
    <2>2. QED
      BY <1>5, <2>1, ScreenStutters DEF ShownWallet, IsLeaving
  <1>6. CASE signer # NoSigner /\ Open /\ s # NoSigner
    <2>1. Open' /\ s \in Address
      BY <1>1, <1>2, <1>6 DEF Open
    <2>2. /\ ShownWallet = signer /\ ShownWallet' = s /\ IsLeaving' = TRUE
          /\ IsLeaving = FALSE
      BY <1>1, <1>2, <1>3, <1>6, <2>1 DEF ShownWallet, IsLeaving
    <2>3. Page!Hand(s)
      BY <1>1, <1>6, <2>2 DEF Page!Hand, ShownWallet, IsLeaving
    <2>4. QED
      BY <2>1, <2>3 DEF Page!Next
  <1>7. CASE signer # NoSigner /\ Open /\ s = NoSigner
    <2>1. ~ Open'
      BY <1>1, <1>7 DEF Open
    <2>2. ShownWallet = signer /\ ShownWallet' = NoSigner /\ IsLeaving' = FALSE
      BY <1>7, <2>1 DEF ShownWallet, IsLeaving
    <2>3. Page!Leave
      BY <1>7, <2>2 DEF Page!Leave, ShownWallet, IsLeaving
    <2>4. QED
      BY <2>3 DEF Page!Next
  <1>8. QED
    BY <1>4, <1>5, <1>6, <1>7

LEMMA EffectScreen ==
  ASSUME Typed, Effect
  PROVE  [Page!Next]_(Page!screen)
  <1>1. due > 0 /\ loading' = loading + due /\ loading \in Nat /\ due \in Nat
    BY DEF Effect, Typed
  <1>2. ~ Open'
    BY <1>1 DEF Open
  <1>3. CASE Open
    <2>1. /\ ShownWallet = signer /\ signer # NoSigner
          /\ ShownWallet' = NoSigner /\ IsLeaving' = FALSE
      BY <1>2, <1>3 DEF ShownWallet, IsLeaving, Open
    <2>2. Page!Leave
      BY <2>1 DEF Page!Leave, ShownWallet, IsLeaving
    <2>3. QED
      BY <2>2 DEF Page!Next
  <1>4. CASE ~ Open
    BY <1>2, <1>4, ScreenStutters DEF ShownWallet, IsLeaving
  <1>5. QED
    BY <1>3, <1>4

(* The wallet behind the gate is shown for one address at a time: what     *)
(* signers, answers and effects do is a step of Screen or changes nothing  *)
(* that the wallet sees.                                                   *)
THEOREM GateImplementsScreen == Spec => ImplementsScreen
  <1>1. Init => Page!Init
    BY DEF Init, Page!Init, Open
  <1>2. ASSUME GateInv, [Next]_vars PROVE [Page!Next]_(Page!screen)
    <2>0. Typed /\ RunsSound /\ LoadingCounts
      BY <1>2 DEF GateInv
    <2>1. ASSUME NEW s \in Address \cup {NoSigner}, SignerConnected(s)
          PROVE  [Page!Next]_(Page!screen)
      BY <2>0, <2>1, SignerScreen
    <2>2. CASE Effect
      BY <2>0, <2>2, EffectScreen
    <2>3. ASSUME NEW i \in DOMAIN runs, Advance(i) PROVE [Page!Next]_(Page!screen)
      <3>1. i \in 1 .. Len(runs) /\ \E next : Steps(i, next)
        BY <2>0, <2>3, AdvanceSteps
      <3>2. QED
        BY <2>0, <3>1, StepsScreen
    <2>4. CASE UNCHANGED <<signer, due, loading, failed>>
      BY <2>4, ScreenStutters DEF ShownWallet, IsLeaving, Open
    <2>5. QED
      BY <1>2, <2>1, <2>2, <2>3, <2>4
         DEF Next, FaucetPays, Spend, Becomes, Quiet, app, vars
  <1>3. QED
    BY <1>1, <1>2, GateInvariant, PTL DEF Spec, ImplementsScreen, Page!Spec
=============================================================================
