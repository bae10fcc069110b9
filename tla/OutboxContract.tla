--------------------------- MODULE OutboxContract ---------------------------
(***************************************************************************)
(* What the durable outbox promises for an effect that must not be        *)
(* repeated (an audit row): a request that became durable is carried out   *)
(* at most once, and only after it was asked for.  Crashes, redeliveries,  *)
(* lost queues and re-enqueued rows are all invisible at this level.       *)
(***************************************************************************)
EXTENDS Integers

CONSTANT Requests        \* the durable requests (outbox rows)

VARIABLES asked,         \* requests that are durable
          effect         \* how many times each request has taken effect

contractVars == <<asked, effect>>

Init == /\ asked = {}
        /\ effect = [r \in Requests |-> 0]

\* A request becomes durable.
Ask(r) == /\ r \notin asked
          /\ asked' = asked \cup {r}
          /\ UNCHANGED effect

\* A durable request takes effect, once.
Do(r) == /\ r \in asked
         /\ effect[r] = 0
         /\ effect' = [effect EXCEPT ![r] = 1]
         /\ UNCHANGED asked

Next == \E r \in Requests : Ask(r) \/ Do(r)

Spec == Init /\ [][Next]_contractVars
=============================================================================
