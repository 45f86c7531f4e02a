--------------------------- MODULE FaucetPromise ---------------------------
(***************************************************************************)
(* What the faucet promises the sender of a request, whatever the network, *)
(* the node and the other requests do: coins arrive for a request at most  *)
(* once; "sent" is answered only after they have arrived; after an answer  *)
(* that no coins are given none come.  After any other error it promises   *)
(* nothing more: the coins may have arrived or arrive later.               *)
(***************************************************************************)
CONSTANT Request

VARIABLES asked,   \* the requests that have come in
          paid,    \* how often coins have arrived for each request
          answer   \* the answer each request got, or "none"

vars == <<asked, paid, answer>>

NoCoins == {"limited", "badAddress", "enough", "txFailed"}
Errors  == {"callErr", "registerErr", "listenErr", "deadline", "txErr", "cut"}

Init == /\ asked = {}
        /\ paid = [r \in Request |-> 0]
        /\ answer = [r \in Request |-> "none"]

Ask(r) == /\ r \notin asked
          /\ asked' = asked \cup {r}
          /\ \/ UNCHANGED answer
             \/ \E kind \in NoCoins : answer' = [answer EXCEPT ![r] = kind]
          /\ UNCHANGED paid

Pay(r) == /\ r \in asked
          /\ paid[r] = 0
          /\ answer[r] \notin NoCoins
          /\ paid' = [paid EXCEPT ![r] = 1]
          /\ UNCHANGED <<asked, answer>>

Permitted(r) == Errors \cup IF paid[r] = 1 THEN {"sent"} ELSE NoCoins

(* Some requests are answered, several at once when the process dies. *)
Reply == /\ answer' \in [Request -> {"none", "sent"} \cup NoCoins \cup Errors]
         /\ \A r \in Request :
              answer'[r] # answer[r] => /\ r \in asked
                                        /\ answer[r] = "none"
                                        /\ answer'[r] \in Permitted(r)
         /\ UNCHANGED <<asked, paid>>

Next == (\E r \in Request : Ask(r) \/ Pay(r)) \/ Reply

Spec == Init /\ [][Next]_vars
=============================================================================
