-------------------- MODULE CommunicationDeliveryProofs --------------------
(***************************************************************************)
(* Proofs about CommunicationDelivery: the inductive invariant and the     *)
(* safety properties that follow from it, for every set of messages and    *)
(* workers and every bound.                                                *)
(***************************************************************************)
EXTENDS CommunicationDelivery, TLAPS

\* The initial state satisfies the inductive invariant.
LEMMA InitEstablishes == Init => InductiveInvariant
<1> SUFFICES ASSUME Init PROVE InductiveInvariant
  OBVIOUS
<1> USE CommunicationAssumption DEF Init
<1>1. TypeOK
  BY DEF TypeOK, Statuses, Codes, JobStates, Phases, Results, NoJob, Idle,
         Slot
<1>2. CallsAreMarked /\ WorkersAreRight
  BY DEF CallsAreMarked, WorkersAreRight, Idle, Slot
<1>3. CodesAreRight /\ QueuedIsFrozen
  BY DEF CodesAreRight, QueuedIsFrozen, NoJob, Idle, Slot
<1>4. DeliveredAtMostOnce /\ FrozenContent
  BY DEF DeliveredAtMostOnce, FrozenContent
<1>5. SentMeansAccepted /\ CompletedJobIsSettled
  BY DEF SentMeansAccepted, CompletedJobIsSettled, NoJob
<1>6. QED
  BY <1>1, <1>2, <1>3, <1>4, <1>5 DEF InductiveInvariant

\* The records of the worker slots.
Slots == [phase : Phases, msg : Messages \cup {NoOne}, att : 0..MaxAttempts,
          body : Nat, res : Results]

SlotsOK(ws) == /\ ws \in [Workers -> Slots]
               /\ \A w \in Workers :
                     ws[w].phase # "idle" => ws[w].msg \in Messages

\* Giving one slot a well-typed record keeps all of them well typed.
LEMMA SlotUpdate ==
    ASSUME NEW ws, SlotsOK(ws), NEW w \in Workers, NEW slot \in Slots,
           slot.phase # "idle" => slot.msg \in Messages
    PROVE  SlotsOK([ws EXCEPT ![w] = slot])
BY DEF SlotsOK

\* A slot built from well-typed parts is well typed.
LEMMA SlotType ==
    ASSUME NEW how \in Phases, NEW m \in Messages \cup {NoOne},
           NEW att \in 0..MaxAttempts, NEW body \in Nat, NEW res \in Results
    PROVE  /\ Slot(how, m, att, body, res) \in Slots
           /\ Slot(how, m, att, body, res).phase = how
           /\ Slot(how, m, att, body, res).msg = m
BY DEF Slot, Slots

\* A worker without a job holds the idle slot.
LEMMA IdleSlot == Idle \in Slots /\ Idle.phase = "idle"
<1>1. "idle" \in Phases /\ 0 \in 0..MaxAttempts /\ "none" \in Results
  BY CommunicationAssumption DEF Phases, Results
<1>2. QED
  BY <1>1, SlotType DEF Idle

\* A slot with nothing sent yet has its type.
LEMMA PlainSlot ==
    ASSUME NEW m \in Messages, NEW how \in Phases
    PROVE  /\ Slot(how, m, 0, 0, "none") \in Slots
           /\ Slot(how, m, 0, 0, "none").msg = m
<1>1. 0 \in 0..MaxAttempts /\ "none" \in Results
  BY CommunicationAssumption DEF Results
<1>2. QED
  BY <1>1, SlotType

\* Spending a bound keeps the counters well typed.
LEMMA SpendType ==
    ASSUME used \in [Bounds -> Nat], NEW b \in Bounds, NEW limit,
           Spend(b, limit)
    PROVE  used' \in [Bounds -> Nat]
BY DEF Spend

\* A processor that ends leaves the slots well typed.
LEMMA EndsSlots ==
    ASSUME SlotsOK(worker), NEW w \in Workers, NEW m \in Messages,
           NEW how \in Phases, Ends(w, m, how)
    PROVE  SlotsOK(worker')
BY PlainSlot, SlotUpdate DEF Ends

\* A job that changes its state stays well typed.
LEMMA JobStateType ==
    ASSUME TypeOK, NEW m \in Messages, NEW st \in JobStates
    PROVE  [job EXCEPT ![m].st = st]
               \in [Messages -> [st : JobStates, made : Nat, stalls : Nat]]
BY DEF TypeOK

\* So does a job that is charged an attempt or a stall.
LEMMA JobChargedType ==
    ASSUME TypeOK, NEW m \in Messages, NEW st \in JobStates, NEW n \in Nat
    PROVE  /\ [job EXCEPT ![m].made = n, ![m].st = st]
                  \in [Messages -> [st : JobStates, made : Nat, stalls : Nat]]
           /\ [job EXCEPT ![m].stalls = n, ![m].st = st]
                  \in [Messages -> [st : JobStates, made : Nat, stalls : Nat]]
BY ZenonT(60) DEF TypeOK

\* A new claim number is within bounds.
LEMMA NextAttemptType ==
    ASSUME TypeOK, NEW m \in Messages
    PROVE  NextAttempt(m) \in 0..MaxAttempts
BY CommunicationAssumption DEF TypeOK, NextAttempt

\* Type correctness is preserved by every step.
LEMMA TypeStep ==
    InductiveInvariant /\ [Next]_vars => TypeOK'
<1> SUFFICES ASSUME InductiveInvariant, [Next]_vars PROVE TypeOK'
  OBVIOUS
<1>0. TypeOK /\ SlotsOK(worker)
  BY DEF InductiveInvariant, TypeOK, SlotsOK, Slots
<1> USE CommunicationAssumption
    DEF TypeOK, SlotsOK, Slots, Statuses, Codes, JobStates, Phases, Results,
        Bounds
<1> USE DEF message, access, redis, provider
<1>1. ASSUME NEW m \in Messages, SaveDraft(m) PROVE TypeOK'
  BY <1>0, <1>1 DEF SaveDraft, Spend
<1>2. ASSUME NEW m \in Messages, Send(m) PROVE TypeOK'
  BY <1>0, <1>2 DEF Send
<1>3. ASSUME NEW m \in Messages, RetryDispatch(m) \/ DispatchFails(m) PROVE
   TypeOK'
  BY <1>0, <1>3 DEF RetryDispatch, DispatchFails
<1>4. ASSUME NEW m \in Messages, Dispatch(m) PROVE TypeOK'
  BY <1>0, <1>4, SMTT(30) DEF Dispatch
<1>5. ASSUME NEW m \in Messages, Cancel(m) PROVE TypeOK'
  BY <1>0, <1>5 DEF Cancel
<1>6. CASE FlipSender \/ FlipCase
  <2>1. authorised' \in BOOLEAN /\ caseOpen' \in BOOLEAN
    BY <1>0, <1>6, Zenon DEF FlipSender, FlipCase
  <2>2. used' \in [Bounds -> Nat]
    BY <1>0, <1>6, SpendType DEF FlipSender, FlipCase
  <2>3. QED
    BY <1>0, <1>6, <2>1, <2>2 DEF FlipSender, FlipCase, SlotsOK, Slots
<1>7. ASSUME NEW w \in Workers, NEW m \in Messages, Take(w, m) PROVE TypeOK'
  <2>1. SlotsOK(worker')
    BY <1>0, <1>7, PlainSlot, SlotUpdate DEF Take, Phases
  <2>2. job' \in [Messages -> [st : JobStates, made : Nat, stalls : Nat]]
    BY <1>0, <1>7, JobStateType DEF Take
  <2>3. lock' \in [Messages -> Workers \cup {NoOne}]
    BY <1>0, <1>7 DEF Take
  <2>4. QED
    BY <1>0, <1>7, <2>1, <2>2, <2>3 DEF Take
<1>8. ASSUME NEW w \in Workers, NEW m \in Messages, ClaimSkips(w, m) PROVE
   TypeOK'
  <2>1. SlotsOK(worker')
    BY <1>0, <1>8, EndsSlots DEF ClaimSkips, Phases
  <2>2. QED
    BY <1>0, <1>8, <2>1 DEF ClaimSkips, FailClaim
<1>9. ASSUME NEW w \in Workers, NEW m \in Messages, ClaimRevoked(w, m) PROVE
   TypeOK'
  <2>1. SlotsOK(worker')
    BY <1>0, <1>9, EndsSlots DEF ClaimRevoked, FailClaim, Phases
  <2>2. QED
    BY <1>0, <1>9, <2>1 DEF ClaimRevoked, FailClaim
<1>10. ASSUME NEW w \in Workers, NEW m \in Messages, ClaimTooOld(w, m) PROVE
   TypeOK'
  <2>1. SlotsOK(worker')
    BY <1>0, <1>10, EndsSlots DEF ClaimTooOld, FailClaim, Phases
  <2>2. QED
    BY <1>0, <1>10, <2>1 DEF ClaimTooOld, FailClaim
<1>11. ASSUME NEW w \in Workers, NEW m \in Messages, ClaimSends(w, m) PROVE
   TypeOK'
  <2>1. NextAttempt(m) \in 0..MaxAttempts
    BY <1>0, NextAttemptType
  <2>2. SlotsOK(worker')
    <3>1. content[m] \in Nat /\ "calling" \in Phases /\ "none" \in Results
      BY <1>0
    <3> HIDE DEF TypeOK, SlotsOK, Slots, Statuses, Codes, JobStates, Phases,
                 Results, Bounds
    <3>2. Slot("calling", m, NextAttempt(m), content[m], "none") \in Slots
      BY <2>1, <3>1, SlotType
    <3>3. Slot("calling", m, NextAttempt(m), content[m], "none").msg = m
      BY DEF Slot
    <3>4. SlotsOK([worker EXCEPT ![w] =
                     Slot("calling", m, NextAttempt(m), content[m], "none")])
      BY ONLY <1>0, <3>2, <3>3, SlotUpdate, m \in Messages, w \in Workers
    <3>5. QED
      BY <1>11, <3>4 DEF ClaimSends
  <2>3. QED
    BY <1>0, <1>11, <2>1, <2>2 DEF ClaimSends
<1>12. ASSUME NEW w \in Workers, NEW m \in Messages, NEW res \in Results \
   {"none"}, CallProvider(w, m, res) PROVE TypeOK'
  <2>1. SlotsOK(worker')
    <3>1. /\ worker[w].att \in 0..MaxAttempts /\ "called" \in Phases
          /\ m \in Messages \cup {NoOne} /\ 0 \in Nat /\ res \in Results
      BY <1>0, <1>12
    <3>2. Slot("called", m, worker[w].att, 0, res) \in Slots
      BY ONLY <3>1 DEF Slot, Slots
    <3>3. Slot("called", m, worker[w].att, 0, res).msg = m
      BY DEF Slot
    <3>4. SlotsOK([worker EXCEPT ![w] =
                     Slot("called", m, worker[w].att, 0, res)])
      BY ONLY <1>0, <3>2, <3>3, SlotUpdate, m \in Messages, w \in Workers
    <3>5. QED
      BY <1>12, <3>4 DEF CallProvider
  <2>2. delivered' \in [Messages -> Nat]
    BY <1>0, <1>12 DEF CallProvider
  <2>3. bodies' \in [Messages -> SUBSET Nat]
    BY <1>0, <1>12 DEF CallProvider, SlotsOK, Slots
  <2>4. QED
    BY <1>0, <1>12, <2>1, <2>2, <2>3 DEF CallProvider
<1>13. ASSUME NEW w \in Workers, NEW m \in Messages, Finalize(w, m) PROVE
   TypeOK'
  <2>1. SlotsOK(worker')
    BY <1>0, <1>13, EndsSlots DEF Finalize
  <2>2. QED
    BY <1>0, <1>13, <2>1, ZenonT(60) DEF Finalize, Outcome
<1>14. ASSUME NEW w \in Workers, NEW m \in Messages, Complete(w, m) PROVE
   TypeOK'
  <2>1. SlotsOK(worker')
    BY <1>0, <1>14, IdleSlot, SlotUpdate DEF Complete
  <2>2. job' \in [Messages -> [st : JobStates, made : Nat, stalls : Nat]]
    <3>1. "completed" \in JobStates
      OBVIOUS
    <3>2. [job EXCEPT ![m].st = "completed"]
              \in [Messages -> [st : JobStates, made : Nat, stalls : Nat]]
      BY ONLY <1>0, <3>1, JobStateType, m \in Messages
    <3>3. job' = [job EXCEPT ![m].st = "completed"] \/ job' = job
      BY <1>14 DEF Complete
    <3>4. QED
      BY ONLY <1>0, <3>2, <3>3 DEF TypeOK
  <2>3. lock' \in [Messages -> Workers \cup {NoOne}]
    BY <1>0, <1>14 DEF Complete
  <2>4. QED
    BY <1>0, <1>14, <2>1, <2>2, <2>3 DEF Complete
<1>15. ASSUME NEW w \in Workers, NEW m \in Messages, JobFails(w, m) PROVE
   TypeOK'
  <2>1. SlotsOK(worker')
    BY <1>0, <1>15, IdleSlot, SlotUpdate DEF JobFails
  <2>2. job' \in [Messages -> [st : JobStates, made : Nat, stalls : Nat]]
    <3>1. /\ "failed" \in JobStates /\ "waiting" \in JobStates
          /\ job[m].made + 1 \in Nat
      BY <1>0
    <3>2. /\ [job EXCEPT ![m].made = job[m].made + 1, ![m].st = "failed"]
                 \in [Messages -> [st : JobStates, made : Nat, stalls : Nat]]
          /\ [job EXCEPT ![m].made = job[m].made + 1, ![m].st = "waiting"]
                 \in [Messages -> [st : JobStates, made : Nat, stalls : Nat]]
      BY ONLY <1>0, <3>1, JobChargedType, m \in Messages
    <3>3. \/ job' = [job EXCEPT ![m].made = job[m].made + 1, ![m].st = "failed"]
          \/ job' = [job EXCEPT ![m].made = job[m].made + 1, ![m].st = "waiting"]
          \/ job' = job
      BY ONLY <1>15 DEF JobFails, redis
    <3>4. QED
      BY ONLY <1>0, <3>2, <3>3 DEF TypeOK
  <2>3. lock' \in [Messages -> Workers \cup {NoOne}]
    BY <1>0, <1>15 DEF JobFails
  <2>4. listener' \subseteq Messages
    BY <1>0, <1>15 DEF JobFails
  <2>5. QED
    BY <1>0, <1>15, <2>1, <2>2, <2>3, <2>4 DEF JobFails
<1>16. ASSUME NEW w \in Workers, DatabaseError(w) PROVE TypeOK'
  <2>1. worker[w].msg \in Messages
    BY <1>0, <1>16 DEF DatabaseError, SlotsOK
  <2>2. SlotsOK(worker')
    BY <1>0, <1>16, <2>1, EndsSlots DEF DatabaseError
  <2>3. QED
    BY <1>0, <1>16, <2>2 DEF DatabaseError
<1>17. ASSUME NEW w \in Workers, Crash(w) PROVE TypeOK'
  <2>1. SlotsOK(worker')
    BY <1>0, <1>17, IdleSlot, SlotUpdate DEF Crash
  <2>2. QED
    BY <1>0, <1>17, <2>1 DEF Crash
<1>18. ASSUME NEW m \in Messages, Reconcile(m) PROVE TypeOK'
  BY <1>0, <1>18, ZenonT(60) DEF Reconcile
<1>19. ASSUME NEW m \in Messages, ReconcileLost(m) PROVE TypeOK'
  BY <1>0, <1>19 DEF ReconcileLost, Spend
<1>20. ASSUME NEW m \in Messages, Stall(m) PROVE TypeOK'
  <2>1. job' \in [Messages -> [st : JobStates, made : Nat, stalls : Nat]]
    <3>1. /\ "failed" \in JobStates /\ "waiting" \in JobStates
          /\ job[m].stalls + 1 \in Nat
      BY <1>0
    <3>2. /\ [job EXCEPT ![m].stalls = job[m].stalls + 1, ![m].st = "failed"]
                 \in [Messages -> [st : JobStates, made : Nat, stalls : Nat]]
          /\ [job EXCEPT ![m].stalls = job[m].stalls + 1, ![m].st = "waiting"]
                 \in [Messages -> [st : JobStates, made : Nat, stalls : Nat]]
      BY ONLY <1>0, <3>1, JobChargedType, m \in Messages
    <3>3. \/ job' = [job EXCEPT ![m].stalls = job[m].stalls + 1, ![m].st = "failed"]
          \/ job' = [job EXCEPT ![m].stalls = job[m].stalls + 1, ![m].st = "waiting"]
      BY ONLY <1>20 DEF Stall
    <3>4. QED
      BY ONLY <3>2, <3>3
  <2>2. listener' \subseteq Messages /\ lock' \in [Messages -> Workers \cup {NoOne}]
    BY <1>0, <1>20 DEF Stall
  <2>3. QED
    BY <1>0, <1>20, <2>1, <2>2 DEF Stall
<1>21. ASSUME NEW m \in Messages, Evict(m) PROVE TypeOK'
  BY <1>0, <1>21 DEF Evict, NoJob
<1>22. CASE RedisLoss
  BY <1>0, <1>22 DEF RedisLoss, Spend, NoJob
<1>23. ASSUME NEW m \in Messages, GrowOlder(m) PROVE TypeOK'
  BY <1>0, <1>23 DEF GrowOlder
<1>24. CASE UNCHANGED vars
  BY <1>0, <1>24 DEF vars
<1>25. QED
  BY <1>1, <1>2, <1>3, <1>4, <1>5, <1>6, <1>7, <1>8, <1>9, <1>10, <1>11,
     <1>12, <1>13, <1>14, <1>15, <1>16, <1>17, <1>18, <1>19, <1>20,
     <1>21, <1>22, <1>23, <1>24
     DEF Next, RouteStep, Attempt, QueueStep

\* The provider is only called after the first attempt is marked, with the
\* frozen content.
LEMMA MarkedStep ==
    InductiveInvariant /\ [Next]_vars => CallsAreMarked'
<1> SUFFICES ASSUME InductiveInvariant, [Next]_vars PROVE CallsAreMarked'
  OBVIOUS
<1>0. InductiveInvariant /\ TypeOK'
  BY TypeStep
<1> USE CommunicationAssumption
    DEF InductiveInvariant, Slot, TypeOK, CallsAreMarked, NextAttempt
<1> USE DEF message, access, redis, provider
<1>1. ASSUME NEW m \in Messages, SaveDraft(m) PROVE CallsAreMarked'
  BY <1>0, <1>1 DEF SaveDraft, Spend
<1>2. ASSUME NEW m \in Messages, Send(m) PROVE CallsAreMarked'
  BY <1>0, <1>2 DEF Send
<1>3. ASSUME NEW m \in Messages, RetryDispatch(m) \/ DispatchFails(m) PROVE
   CallsAreMarked'
  BY <1>0, <1>3 DEF RetryDispatch, DispatchFails
<1>4. ASSUME NEW m \in Messages, Dispatch(m) PROVE CallsAreMarked'
  BY <1>0, <1>4 DEF Dispatch
<1>5. ASSUME NEW m \in Messages, Cancel(m) PROVE CallsAreMarked'
  BY <1>0, <1>5 DEF Cancel
<1>6. CASE FlipSender \/ FlipCase
  BY <1>0, <1>6 DEF FlipSender, FlipCase, Spend
<1>7. ASSUME NEW w \in Workers, NEW m \in Messages, Take(w, m) PROVE
   CallsAreMarked'
  BY <1>0, <1>7 DEF Take, Idle
<1>8. ASSUME NEW w \in Workers, NEW m \in Messages, ClaimSkips(w, m) PROVE
   CallsAreMarked'
  BY <1>0, <1>8 DEF ClaimSkips, Ends, Idle
<1>9. ASSUME NEW w \in Workers, NEW m \in Messages, ClaimRevoked(w, m) PROVE
   CallsAreMarked'
  BY <1>0, <1>9 DEF ClaimRevoked, FailClaim, Ends, Idle, Revoked, CaseAllowed
<1>10. ASSUME NEW w \in Workers, NEW m \in Messages, ClaimTooOld(w, m) PROVE
   CallsAreMarked'
  BY <1>0, <1>10 DEF ClaimTooOld, FailClaim, Ends, Idle
<1>11. ASSUME NEW w \in Workers, NEW m \in Messages, ClaimSends(w, m) PROVE
   CallsAreMarked'
  <2>1. \A v \in Workers : worker'[v] =
           IF v = w
           THEN Slot("calling", m, NextAttempt(m), content[m], "none")
           ELSE worker[v]
    BY <1>0, <1>11 DEF ClaimSends
  <2>2. /\ status'[m] = "sending" /\ started'[m]
        /\ \A n \in Messages \ {m} : status'[n] = status[n]
                                     /\ started'[n] = started[n]
        /\ UNCHANGED <<bodies, delivered, age, content>>
    BY <1>0, <1>11 DEF ClaimSends
  <2>3. age[m] < 2
    <3>1. age[m] \in 0..2 /\ (age[m] > 0 => started[m])
      BY <1>0
    <3>2. ~started[m] \/ age[m] = 0
      BY <1>11 DEF ClaimSends
    <3>3. QED
      BY ONLY <3>1, <3>2
  <2>4. \A n \in Messages :
           /\ bodies'[n] # {} \/ delivered'[n] > 0 => started'[n]
           /\ age'[n] > 0 => started'[n]
           /\ started'[n] => status'[n] # "draft"
    BY <1>0, <2>2
  <2>5. \A v \in Workers : worker'[v].phase = "calling" =>
           /\ started'[worker'[v].msg]
           /\ age'[worker'[v].msg] < 2
           /\ worker'[v].body = content'[worker'[v].msg]
    <3>1. TAKE v \in Workers
    <3>2. CASE v = w
      BY <3>2, <2>1, <2>2, <2>3
    <3>3. CASE v # w
      <4>1. worker'[v] = worker[v] /\ age' = age /\ content' = content
        BY <3>3, <2>1, <2>2
      <4>2. worker[v].phase = "calling" => worker[v].msg \in Messages
        BY <1>0
      <4>3. QED
        BY <1>0, <4>1, <4>2, <2>2
    <3>4. QED
      BY <3>2, <3>3
  <2>6. QED
    BY <2>4, <2>5
<1>12. ASSUME NEW w \in Workers, NEW m \in Messages, NEW res \in Results \
   {"none"}, CallProvider(w, m, res) PROVE CallsAreMarked'
  BY <1>0, <1>12 DEF CallProvider
<1>13. ASSUME NEW w \in Workers, NEW m \in Messages, Finalize(w, m) PROVE
   CallsAreMarked'
  <2>1. \A v \in Workers : worker'[v].phase = "calling" =>
                              worker'[v] = worker[v]
    BY <1>0, <1>13 DEF Finalize, Ends
  <2>2. \A n \in Messages : status'[n] = "draft" => status[n] = "draft"
    BY <1>0, <1>13 DEF Finalize, Outcome
  <2>3. UNCHANGED <<bodies, delivered, age, content, started>>
    BY <1>13 DEF Finalize
  <2>4. QED
    BY <1>0, <2>1, <2>2, <2>3
<1>14. ASSUME NEW w \in Workers, NEW m \in Messages, Complete(w, m) PROVE
   CallsAreMarked'
  BY <1>0, <1>14 DEF Complete, Idle
<1>15. ASSUME NEW w \in Workers, NEW m \in Messages, JobFails(w, m) PROVE
   CallsAreMarked'
  BY <1>0, <1>15 DEF JobFails, Idle
<1>16. ASSUME NEW w \in Workers, DatabaseError(w) PROVE CallsAreMarked'
  BY <1>0, <1>16 DEF DatabaseError, Ends, Idle
<1>17. ASSUME NEW w \in Workers, Crash(w) PROVE CallsAreMarked'
  BY <1>0, <1>17 DEF Crash, Idle
<1>18. ASSUME NEW m \in Messages, Reconcile(m) PROVE CallsAreMarked'
  BY <1>0, <1>18 DEF Reconcile
<1>19. ASSUME NEW m \in Messages, ReconcileLost(m) PROVE CallsAreMarked'
  BY <1>0, <1>19 DEF ReconcileLost, Spend
<1>20. ASSUME NEW m \in Messages, Stall(m) PROVE CallsAreMarked'
  BY <1>0, <1>20 DEF Stall
<1>21. ASSUME NEW m \in Messages, Evict(m) PROVE CallsAreMarked'
  BY <1>0, <1>21 DEF Evict, NoJob
<1>22. CASE RedisLoss
  BY <1>0, <1>22 DEF RedisLoss, Spend, NoJob
<1>23. ASSUME NEW m \in Messages, GrowOlder(m) PROVE CallsAreMarked'
  BY <1>0, <1>23 DEF GrowOlder
<1>24. CASE UNCHANGED vars
  BY <1>0, <1>24 DEF vars
<1>25. QED
  BY <1>1, <1>2, <1>3, <1>4, <1>5, <1>6, <1>7, <1>8, <1>9, <1>10, <1>11,
     <1>12, <1>13, <1>14, <1>15, <1>16, <1>17, <1>18, <1>19, <1>20,
     <1>21, <1>22, <1>23, <1>24
     DEF Next, RouteStep, Attempt, QueueStep

\* Only frozen messages reach the queue and the workers.
LEMMA QueuedStep ==
    InductiveInvariant /\ [Next]_vars => QueuedIsFrozen'
<1> SUFFICES ASSUME InductiveInvariant, [Next]_vars PROVE QueuedIsFrozen'
  OBVIOUS
<1>0. InductiveInvariant /\ TypeOK'
  BY TypeStep
<1> USE CommunicationAssumption
    DEF InductiveInvariant, Slot, TypeOK, QueuedIsFrozen, NoJob
<1> USE DEF message, access, redis, provider
<1>1. ASSUME NEW m \in Messages, SaveDraft(m) PROVE QueuedIsFrozen'
  BY <1>0, <1>1 DEF SaveDraft, Spend
<1>2. ASSUME NEW m \in Messages, Send(m) PROVE QueuedIsFrozen'
  BY <1>0, <1>2 DEF Send
<1>3. ASSUME NEW m \in Messages, RetryDispatch(m) \/ DispatchFails(m) PROVE
   QueuedIsFrozen'
  BY <1>0, <1>3 DEF RetryDispatch, DispatchFails
<1>4. ASSUME NEW m \in Messages, Dispatch(m) PROVE QueuedIsFrozen'
  BY <1>0, <1>4 DEF Dispatch
<1>5. ASSUME NEW m \in Messages, Cancel(m) PROVE QueuedIsFrozen'
  BY <1>0, <1>5 DEF Cancel
<1>6. CASE FlipSender \/ FlipCase
  BY <1>0, <1>6 DEF FlipSender, FlipCase, Spend
<1>7. ASSUME NEW w \in Workers, NEW m \in Messages, Take(w, m) PROVE
   QueuedIsFrozen'
  BY <1>0, <1>7 DEF Take, Idle
<1>8. ASSUME NEW w \in Workers, NEW m \in Messages, ClaimSkips(w, m) PROVE
   QueuedIsFrozen'
  BY <1>0, <1>8 DEF ClaimSkips, Ends, Idle
<1>9. ASSUME NEW w \in Workers, NEW m \in Messages, ClaimRevoked(w, m) PROVE
   QueuedIsFrozen'
  BY <1>0, <1>9 DEF ClaimRevoked, FailClaim, Ends, Idle, Revoked, CaseAllowed
<1>10. ASSUME NEW w \in Workers, NEW m \in Messages, ClaimTooOld(w, m) PROVE
   QueuedIsFrozen'
  BY <1>0, <1>10 DEF ClaimTooOld, FailClaim, Ends, Idle
<1>11. ASSUME NEW w \in Workers, NEW m \in Messages, ClaimSends(w, m) PROVE
   QueuedIsFrozen'
  BY <1>0, <1>11 DEF ClaimSends, NextAttempt
<1>12. ASSUME NEW w \in Workers, NEW m \in Messages, NEW res \in Results \
   {"none"}, CallProvider(w, m, res) PROVE QueuedIsFrozen'
  BY <1>0, <1>12 DEF CallProvider
<1>13. ASSUME NEW w \in Workers, NEW m \in Messages, Finalize(w, m) PROVE
   QueuedIsFrozen'
  <2>1. \A n \in Messages : status'[n] = "draft" => status[n] = "draft"
    BY <1>0, <1>13 DEF Finalize, Outcome
  <2>2. \A v \in Workers : worker'[v].phase # "idle" =>
           worker[v].phase # "idle" /\ worker'[v].msg = worker[v].msg
    BY <1>0, <1>13 DEF Finalize, Ends
  <2>3. UNCHANGED <<dispatching, job>>
    BY <1>13 DEF Finalize
  <2>4. QED
    BY <1>0, <2>1, <2>2, <2>3
<1>14. ASSUME NEW w \in Workers, NEW m \in Messages, Complete(w, m) PROVE
   QueuedIsFrozen'
  <2>1. status[m] # "draft" /\ status' = status /\ dispatching' = dispatching
    BY <1>0, <1>14 DEF Complete
  <2>2. \A n \in Messages : n # m => job'[n] = job[n]
    BY <1>0, <1>14 DEF Complete
  <2>3. \A v \in Workers : worker'[v].phase # "idle" => worker'[v] = worker[v]
    BY <1>0, <1>14 DEF Complete, Idle
  <2>4. QED
    BY ONLY <1>0, <2>1, <2>2, <2>3 DEF InductiveInvariant, QueuedIsFrozen
<1>15. ASSUME NEW w \in Workers, NEW m \in Messages, JobFails(w, m) PROVE
   QueuedIsFrozen'
  <2>1. status[m] # "draft" /\ status' = status /\ dispatching' = dispatching
    BY <1>0, <1>15 DEF JobFails
  <2>2. \A n \in Messages : n # m => job'[n] = job[n]
    BY <1>0, <1>15 DEF JobFails
  <2>3. \A v \in Workers : worker'[v].phase # "idle" => worker'[v] = worker[v]
    BY <1>0, <1>15 DEF JobFails, Idle
  <2>4. QED
    BY ONLY <1>0, <2>1, <2>2, <2>3 DEF InductiveInvariant, QueuedIsFrozen
<1>16. ASSUME NEW w \in Workers, DatabaseError(w) PROVE QueuedIsFrozen'
  BY <1>0, <1>16 DEF DatabaseError, Ends, Idle
<1>17. ASSUME NEW w \in Workers, Crash(w) PROVE QueuedIsFrozen'
  BY <1>0, <1>17 DEF Crash, Idle
<1>18. ASSUME NEW m \in Messages, Reconcile(m) PROVE QueuedIsFrozen'
  BY <1>0, <1>18 DEF Reconcile
<1>19. ASSUME NEW m \in Messages, ReconcileLost(m) PROVE QueuedIsFrozen'
  BY <1>0, <1>19 DEF ReconcileLost, Spend
<1>20. ASSUME NEW m \in Messages, Stall(m) PROVE QueuedIsFrozen'
  BY <1>0, <1>20 DEF Stall
<1>21. ASSUME NEW m \in Messages, Evict(m) PROVE QueuedIsFrozen'
  BY <1>0, <1>21 DEF Evict, NoJob
<1>22. CASE RedisLoss
  BY <1>0, <1>22 DEF RedisLoss, Spend, NoJob
<1>23. ASSUME NEW m \in Messages, GrowOlder(m) PROVE QueuedIsFrozen'
  BY <1>0, <1>23 DEF GrowOlder
<1>24. CASE UNCHANGED vars
  BY <1>0, <1>24 DEF vars
<1>25. QED
  BY <1>1, <1>2, <1>3, <1>4, <1>5, <1>6, <1>7, <1>8, <1>9, <1>10, <1>11,
     <1>12, <1>13, <1>14, <1>15, <1>16, <1>17, <1>18, <1>19, <1>20,
     <1>21, <1>22, <1>23, <1>24
     DEF Next, RouteStep, Attempt, QueueStep

\* A worker that saw an acceptance, or is about to end its job, is right.
LEMMA WorkersStep ==
    InductiveInvariant /\ [Next]_vars => WorkersAreRight'
<1> SUFFICES ASSUME InductiveInvariant, [Next]_vars PROVE WorkersAreRight'
  OBVIOUS
<1>0. InductiveInvariant /\ TypeOK'
  BY TypeStep
<1> USE CommunicationAssumption
    DEF InductiveInvariant, Slot, TypeOK, WorkersAreRight, QueuedIsFrozen,
        Statuses, Terminal, Live
<1> USE DEF message, access, redis, provider
<1>1. ASSUME NEW m \in Messages, SaveDraft(m) PROVE WorkersAreRight'
  BY <1>0, <1>1 DEF SaveDraft, Spend
<1>2. ASSUME NEW m \in Messages, Send(m) PROVE WorkersAreRight'
  BY <1>0, <1>2 DEF Send
<1>3. ASSUME NEW m \in Messages, RetryDispatch(m) \/ DispatchFails(m) PROVE
   WorkersAreRight'
  BY <1>0, <1>3 DEF RetryDispatch, DispatchFails
<1>4. ASSUME NEW m \in Messages, Dispatch(m) PROVE WorkersAreRight'
  BY <1>0, <1>4 DEF Dispatch
<1>5. ASSUME NEW m \in Messages, Cancel(m) PROVE WorkersAreRight'
  BY <1>0, <1>5 DEF Cancel
<1>6. CASE FlipSender \/ FlipCase
  BY <1>0, <1>6 DEF FlipSender, FlipCase, Spend
<1>7. ASSUME NEW w \in Workers, NEW m \in Messages, Take(w, m) PROVE
   WorkersAreRight'
  BY <1>0, <1>7 DEF Take, Idle
<1>8. ASSUME NEW w \in Workers, NEW m \in Messages, ClaimSkips(w, m) PROVE
   WorkersAreRight'
  <2>1. \A v \in Workers : worker'[v] =
           IF v = w THEN Slot("return", m, 0, 0, "none") ELSE worker[v]
    BY <1>0, <1>8 DEF ClaimSkips, Ends
  <2>2. status[m] \in Terminal
    BY <1>0, <1>8 DEF ClaimSkips
  <2>3. UNCHANGED <<status, delivered>>
    BY <1>8 DEF ClaimSkips
  <2>4. QED
    BY <1>0, <2>1, <2>2, <2>3
<1>9. ASSUME NEW w \in Workers, NEW m \in Messages, ClaimRevoked(w, m) PROVE
   WorkersAreRight'
  BY <1>0, <1>9 DEF ClaimRevoked, FailClaim, Ends, Idle, Revoked, CaseAllowed
<1>10. ASSUME NEW w \in Workers, NEW m \in Messages, ClaimTooOld(w, m) PROVE
   WorkersAreRight'
  BY <1>0, <1>10 DEF ClaimTooOld, FailClaim, Ends, Idle
<1>11. ASSUME NEW w \in Workers, NEW m \in Messages, ClaimSends(w, m) PROVE
   WorkersAreRight'
  BY <1>0, <1>11 DEF ClaimSends, NextAttempt
<1>12. ASSUME NEW w \in Workers, NEW m \in Messages, NEW res \in Results \
   {"none"}, CallProvider(w, m, res) PROVE WorkersAreRight'
  BY <1>0, <1>12 DEF CallProvider
<1>13. ASSUME NEW w \in Workers, NEW m \in Messages, Finalize(w, m) PROVE
   WorkersAreRight'
  <2>1. \A v \in Workers \ {w} : worker'[v] = worker[v]
    BY <1>0, <1>13 DEF Finalize, Ends
  <2>2. worker'[w].msg = m /\ worker'[w].phase # "called"
    BY <1>0, <1>13 DEF Finalize, Ends
  <2>3. worker'[w].phase \in {"return", "fatal"} => status'[m] \in Terminal
    <3>1. CASE status[m] \notin Live
      <4>1. status[m] \in Terminal
        BY <1>0, <1>13, <3>1 DEF Finalize
      <4>2. QED
        BY <1>13, <3>1, <4>1 DEF Finalize
    <3>2. CASE status[m] \in Live
      BY <1>0, <1>13, <3>2 DEF Finalize, Ends, Outcome
    <3>3. QED
      BY <3>1, <3>2
  <2>4. \A n \in Messages : status[n] \in Terminal => status'[n] = status[n]
    BY <1>0, <1>13 DEF Finalize
  <2>5. delivered' = delivered
    BY <1>13 DEF Finalize
  <2>6. \A v \in Workers :
           worker[v].phase # "idle" => worker[v].msg \in Messages
    BY <1>0
  <2>7. ASSUME NEW v \in Workers
        PROVE  /\ worker'[v].phase = "called" /\ worker'[v].res = "ok" =>
                     delivered'[worker'[v].msg] > 0
               /\ worker'[v].phase \in {"return", "fatal"} =>
                     status'[worker'[v].msg] \in Terminal
    <3>1. CASE v = w
      BY <3>1, <2>2, <2>3
    <3>2. CASE v # w
      BY <1>0, <3>2, <2>1, <2>4, <2>5, <2>6
    <3>3. QED
      BY <3>1, <3>2
  <2>8. QED
    BY <2>7
<1>14. ASSUME NEW w \in Workers, NEW m \in Messages, Complete(w, m) PROVE
   WorkersAreRight'
  BY <1>0, <1>14 DEF Complete, Idle
<1>15. ASSUME NEW w \in Workers, NEW m \in Messages, JobFails(w, m) PROVE
   WorkersAreRight'
  BY <1>0, <1>15 DEF JobFails, Idle
<1>16. ASSUME NEW w \in Workers, DatabaseError(w) PROVE WorkersAreRight'
  BY <1>0, <1>16 DEF DatabaseError, Ends, Idle
<1>17. ASSUME NEW w \in Workers, Crash(w) PROVE WorkersAreRight'
  BY <1>0, <1>17 DEF Crash, Idle
<1>18. ASSUME NEW m \in Messages, Reconcile(m) PROVE WorkersAreRight'
  BY <1>0, <1>18 DEF Reconcile
<1>19. ASSUME NEW m \in Messages, ReconcileLost(m) PROVE WorkersAreRight'
  BY <1>0, <1>19 DEF ReconcileLost, Spend
<1>20. ASSUME NEW m \in Messages, Stall(m) PROVE WorkersAreRight'
  BY <1>0, <1>20 DEF Stall
<1>21. ASSUME NEW m \in Messages, Evict(m) PROVE WorkersAreRight'
  BY <1>0, <1>21 DEF Evict, NoJob
<1>22. CASE RedisLoss
  BY <1>0, <1>22 DEF RedisLoss, Spend, NoJob
<1>23. ASSUME NEW m \in Messages, GrowOlder(m) PROVE WorkersAreRight'
  BY <1>0, <1>23 DEF GrowOlder
<1>24. CASE UNCHANGED vars
  BY <1>0, <1>24 DEF vars
<1>25. QED
  BY <1>1, <1>2, <1>3, <1>4, <1>5, <1>6, <1>7, <1>8, <1>9, <1>10, <1>11,
     <1>12, <1>13, <1>14, <1>15, <1>16, <1>17, <1>18, <1>19, <1>20,
     <1>21, <1>22, <1>23, <1>24
     DEF Next, RouteStep, Attempt, QueueStep

\* The codes of an unattempted failure stay with unmarked messages.
LEMMA CodesStep ==
    InductiveInvariant /\ [Next]_vars => CodesAreRight'
<1> SUFFICES ASSUME InductiveInvariant, [Next]_vars PROVE CodesAreRight'
  OBVIOUS
<1>0. InductiveInvariant /\ TypeOK'
  BY TypeStep
<1> USE CommunicationAssumption
    DEF InductiveInvariant, Slot, TypeOK, CodesAreRight, Live, Outcome
<1> USE DEF message, access, redis, provider
<1>1. ASSUME NEW m \in Messages, SaveDraft(m) PROVE CodesAreRight'
  BY <1>0, <1>1 DEF SaveDraft, Spend
<1>2. ASSUME NEW m \in Messages, Send(m) PROVE CodesAreRight'
  BY <1>0, <1>2 DEF Send
<1>3. ASSUME NEW m \in Messages, RetryDispatch(m) \/ DispatchFails(m) PROVE
   CodesAreRight'
  BY <1>0, <1>3 DEF RetryDispatch, DispatchFails
<1>4. ASSUME NEW m \in Messages, Dispatch(m) PROVE CodesAreRight'
  BY <1>0, <1>4 DEF Dispatch
<1>5. ASSUME NEW m \in Messages, Cancel(m) PROVE CodesAreRight'
  BY <1>0, <1>5 DEF Cancel
<1>6. CASE FlipSender \/ FlipCase
  BY <1>0, <1>6 DEF FlipSender, FlipCase, Spend
<1>7. ASSUME NEW w \in Workers, NEW m \in Messages, Take(w, m) PROVE
   CodesAreRight'
  BY <1>0, <1>7 DEF Take, Idle
<1>8. ASSUME NEW w \in Workers, NEW m \in Messages, ClaimSkips(w, m) PROVE
   CodesAreRight'
  BY <1>0, <1>8 DEF ClaimSkips, Ends, Idle
<1>9. ASSUME NEW w \in Workers, NEW m \in Messages, ClaimRevoked(w, m) PROVE
   CodesAreRight'
  BY <1>0, <1>9 DEF ClaimRevoked, FailClaim, Ends, Idle, Revoked, CaseAllowed
<1>10. ASSUME NEW w \in Workers, NEW m \in Messages, ClaimTooOld(w, m) PROVE
   CodesAreRight'
  BY <1>0, <1>10 DEF ClaimTooOld, FailClaim, Ends, Idle
<1>11. ASSUME NEW w \in Workers, NEW m \in Messages, ClaimSends(w, m) PROVE
   CodesAreRight'
  BY <1>0, <1>11 DEF ClaimSends, NextAttempt
<1>12. ASSUME NEW w \in Workers, NEW m \in Messages, NEW res \in Results \
   {"none"}, CallProvider(w, m, res) PROVE CodesAreRight'
  BY <1>0, <1>12 DEF CallProvider
<1>13. ASSUME NEW w \in Workers, NEW m \in Messages, Finalize(w, m) PROVE
   CodesAreRight'
  BY <1>0, <1>13 DEF Finalize, Outcome, Retries, Ends, Idle
<1>14. ASSUME NEW w \in Workers, NEW m \in Messages, Complete(w, m) PROVE
   CodesAreRight'
  BY <1>0, <1>14 DEF Complete, Idle
<1>15. ASSUME NEW w \in Workers, NEW m \in Messages, JobFails(w, m) PROVE
   CodesAreRight'
  BY <1>0, <1>15 DEF JobFails, Idle
<1>16. ASSUME NEW w \in Workers, DatabaseError(w) PROVE CodesAreRight'
  BY <1>0, <1>16 DEF DatabaseError, Ends, Idle
<1>17. ASSUME NEW w \in Workers, Crash(w) PROVE CodesAreRight'
  BY <1>0, <1>17 DEF Crash, Idle
<1>18. ASSUME NEW m \in Messages, Reconcile(m) PROVE CodesAreRight'
  BY <1>0, <1>18 DEF Reconcile
<1>19. ASSUME NEW m \in Messages, ReconcileLost(m) PROVE CodesAreRight'
  BY <1>0, <1>19 DEF ReconcileLost, Spend
<1>20. ASSUME NEW m \in Messages, Stall(m) PROVE CodesAreRight'
  BY <1>0, <1>20 DEF Stall
<1>21. ASSUME NEW m \in Messages, Evict(m) PROVE CodesAreRight'
  BY <1>0, <1>21 DEF Evict, NoJob
<1>22. CASE RedisLoss
  BY <1>0, <1>22 DEF RedisLoss, Spend, NoJob
<1>23. ASSUME NEW m \in Messages, GrowOlder(m) PROVE CodesAreRight'
  BY <1>0, <1>23 DEF GrowOlder
<1>24. CASE UNCHANGED vars
  BY <1>0, <1>24 DEF vars
<1>25. QED
  BY <1>1, <1>2, <1>3, <1>4, <1>5, <1>6, <1>7, <1>8, <1>9, <1>10, <1>11,
     <1>12, <1>13, <1>14, <1>15, <1>16, <1>17, <1>18, <1>19, <1>20,
     <1>21, <1>22, <1>23, <1>24
     DEF Next, RouteStep, Attempt, QueueStep

\* No step delivers a message twice.
LEMMA DeliveredStep ==
    InductiveInvariant /\ [Next]_vars => DeliveredAtMostOnce'
<1> SUFFICES ASSUME InductiveInvariant, [Next]_vars
             PROVE  DeliveredAtMostOnce'
  OBVIOUS
<1>0. InductiveInvariant /\ TypeOK'
  BY TypeStep
<1> USE CommunicationAssumption
    DEF InductiveInvariant, Slot, TypeOK, DeliveredAtMostOnce, CallsAreMarked
<1> USE DEF message, access, redis, provider
<1>1. ASSUME NEW m \in Messages, SaveDraft(m) PROVE DeliveredAtMostOnce'
  BY <1>0, <1>1 DEF SaveDraft, Spend
<1>2. ASSUME NEW m \in Messages, Send(m) PROVE DeliveredAtMostOnce'
  BY <1>0, <1>2 DEF Send
<1>3. ASSUME NEW m \in Messages, RetryDispatch(m) \/ DispatchFails(m) PROVE
   DeliveredAtMostOnce'
  BY <1>0, <1>3 DEF RetryDispatch, DispatchFails
<1>4. ASSUME NEW m \in Messages, Dispatch(m) PROVE DeliveredAtMostOnce'
  BY <1>0, <1>4 DEF Dispatch
<1>5. ASSUME NEW m \in Messages, Cancel(m) PROVE DeliveredAtMostOnce'
  BY <1>0, <1>5 DEF Cancel
<1>6. CASE FlipSender \/ FlipCase
  BY <1>0, <1>6 DEF FlipSender, FlipCase, Spend
<1>7. ASSUME NEW w \in Workers, NEW m \in Messages, Take(w, m) PROVE
   DeliveredAtMostOnce'
  BY <1>0, <1>7 DEF Take, Idle
<1>8. ASSUME NEW w \in Workers, NEW m \in Messages, ClaimSkips(w, m) PROVE
   DeliveredAtMostOnce'
  BY <1>0, <1>8 DEF ClaimSkips, Ends, Idle
<1>9. ASSUME NEW w \in Workers, NEW m \in Messages, ClaimRevoked(w, m) PROVE
   DeliveredAtMostOnce'
  BY <1>0, <1>9 DEF ClaimRevoked, FailClaim, Ends, Idle, Revoked, CaseAllowed
<1>10. ASSUME NEW w \in Workers, NEW m \in Messages, ClaimTooOld(w, m) PROVE
   DeliveredAtMostOnce'
  BY <1>0, <1>10 DEF ClaimTooOld, FailClaim, Ends, Idle
<1>11. ASSUME NEW w \in Workers, NEW m \in Messages, ClaimSends(w, m) PROVE
   DeliveredAtMostOnce'
  BY <1>0, <1>11 DEF ClaimSends, NextAttempt
<1>12. ASSUME NEW w \in Workers, NEW m \in Messages, NEW res \in Results \
   {"none"}, CallProvider(w, m, res) PROVE DeliveredAtMostOnce'
  BY <1>0, <1>12 DEF CallProvider
<1>13. ASSUME NEW w \in Workers, NEW m \in Messages, Finalize(w, m) PROVE
   DeliveredAtMostOnce'
  BY <1>0, <1>13 DEF Finalize, Outcome, Retries, Ends, Idle
<1>14. ASSUME NEW w \in Workers, NEW m \in Messages, Complete(w, m) PROVE
   DeliveredAtMostOnce'
  BY <1>0, <1>14 DEF Complete, Idle
<1>15. ASSUME NEW w \in Workers, NEW m \in Messages, JobFails(w, m) PROVE
   DeliveredAtMostOnce'
  BY <1>0, <1>15 DEF JobFails, Idle
<1>16. ASSUME NEW w \in Workers, DatabaseError(w) PROVE DeliveredAtMostOnce'
  BY <1>0, <1>16 DEF DatabaseError, Ends, Idle
<1>17. ASSUME NEW w \in Workers, Crash(w) PROVE DeliveredAtMostOnce'
  BY <1>0, <1>17 DEF Crash, Idle
<1>18. ASSUME NEW m \in Messages, Reconcile(m) PROVE DeliveredAtMostOnce'
  BY <1>0, <1>18 DEF Reconcile
<1>19. ASSUME NEW m \in Messages, ReconcileLost(m) PROVE
   DeliveredAtMostOnce'
  BY <1>0, <1>19 DEF ReconcileLost, Spend
<1>20. ASSUME NEW m \in Messages, Stall(m) PROVE DeliveredAtMostOnce'
  BY <1>0, <1>20 DEF Stall
<1>21. ASSUME NEW m \in Messages, Evict(m) PROVE DeliveredAtMostOnce'
  BY <1>0, <1>21 DEF Evict, NoJob
<1>22. CASE RedisLoss
  BY <1>0, <1>22 DEF RedisLoss, Spend, NoJob
<1>23. ASSUME NEW m \in Messages, GrowOlder(m) PROVE DeliveredAtMostOnce'
  BY <1>0, <1>23 DEF GrowOlder
<1>24. CASE UNCHANGED vars
  BY <1>0, <1>24 DEF vars
<1>25. QED
  BY <1>1, <1>2, <1>3, <1>4, <1>5, <1>6, <1>7, <1>8, <1>9, <1>10, <1>11,
     <1>12, <1>13, <1>14, <1>15, <1>16, <1>17, <1>18, <1>19, <1>20,
     <1>21, <1>22, <1>23, <1>24
     DEF Next, RouteStep, Attempt, QueueStep

\* No step shows the provider another content.
LEMMA FrozenStep ==
    InductiveInvariant /\ [Next]_vars => FrozenContent'
<1> SUFFICES ASSUME InductiveInvariant, [Next]_vars PROVE FrozenContent'
  OBVIOUS
<1>0. InductiveInvariant /\ TypeOK'
  BY TypeStep
<1> USE CommunicationAssumption
    DEF InductiveInvariant, Slot, TypeOK, FrozenContent, CallsAreMarked
<1> USE DEF message, access, redis, provider
<1>1. ASSUME NEW m \in Messages, SaveDraft(m) PROVE FrozenContent'
  BY <1>0, <1>1 DEF SaveDraft, Spend
<1>2. ASSUME NEW m \in Messages, Send(m) PROVE FrozenContent'
  BY <1>0, <1>2 DEF Send
<1>3. ASSUME NEW m \in Messages, RetryDispatch(m) \/ DispatchFails(m) PROVE
   FrozenContent'
  BY <1>0, <1>3 DEF RetryDispatch, DispatchFails
<1>4. ASSUME NEW m \in Messages, Dispatch(m) PROVE FrozenContent'
  BY <1>0, <1>4 DEF Dispatch
<1>5. ASSUME NEW m \in Messages, Cancel(m) PROVE FrozenContent'
  BY <1>0, <1>5 DEF Cancel
<1>6. CASE FlipSender \/ FlipCase
  BY <1>0, <1>6 DEF FlipSender, FlipCase, Spend
<1>7. ASSUME NEW w \in Workers, NEW m \in Messages, Take(w, m) PROVE
   FrozenContent'
  BY <1>0, <1>7 DEF Take, Idle
<1>8. ASSUME NEW w \in Workers, NEW m \in Messages, ClaimSkips(w, m) PROVE
   FrozenContent'
  BY <1>0, <1>8 DEF ClaimSkips, Ends, Idle
<1>9. ASSUME NEW w \in Workers, NEW m \in Messages, ClaimRevoked(w, m) PROVE
   FrozenContent'
  BY <1>0, <1>9 DEF ClaimRevoked, FailClaim, Ends, Idle, Revoked, CaseAllowed
<1>10. ASSUME NEW w \in Workers, NEW m \in Messages, ClaimTooOld(w, m) PROVE
   FrozenContent'
  BY <1>0, <1>10 DEF ClaimTooOld, FailClaim, Ends, Idle
<1>11. ASSUME NEW w \in Workers, NEW m \in Messages, ClaimSends(w, m) PROVE
   FrozenContent'
  BY <1>0, <1>11 DEF ClaimSends, NextAttempt
<1>12. ASSUME NEW w \in Workers, NEW m \in Messages, NEW res \in Results \
   {"none"}, CallProvider(w, m, res) PROVE FrozenContent'
  BY <1>0, <1>12 DEF CallProvider
<1>13. ASSUME NEW w \in Workers, NEW m \in Messages, Finalize(w, m) PROVE
   FrozenContent'
  BY <1>0, <1>13 DEF Finalize, Outcome, Retries, Ends, Idle
<1>14. ASSUME NEW w \in Workers, NEW m \in Messages, Complete(w, m) PROVE
   FrozenContent'
  BY <1>0, <1>14 DEF Complete, Idle
<1>15. ASSUME NEW w \in Workers, NEW m \in Messages, JobFails(w, m) PROVE
   FrozenContent'
  BY <1>0, <1>15 DEF JobFails, Idle
<1>16. ASSUME NEW w \in Workers, DatabaseError(w) PROVE FrozenContent'
  BY <1>0, <1>16 DEF DatabaseError, Ends, Idle
<1>17. ASSUME NEW w \in Workers, Crash(w) PROVE FrozenContent'
  BY <1>0, <1>17 DEF Crash, Idle
<1>18. ASSUME NEW m \in Messages, Reconcile(m) PROVE FrozenContent'
  BY <1>0, <1>18 DEF Reconcile
<1>19. ASSUME NEW m \in Messages, ReconcileLost(m) PROVE FrozenContent'
  BY <1>0, <1>19 DEF ReconcileLost, Spend
<1>20. ASSUME NEW m \in Messages, Stall(m) PROVE FrozenContent'
  BY <1>0, <1>20 DEF Stall
<1>21. ASSUME NEW m \in Messages, Evict(m) PROVE FrozenContent'
  BY <1>0, <1>21 DEF Evict, NoJob
<1>22. CASE RedisLoss
  BY <1>0, <1>22 DEF RedisLoss, Spend, NoJob
<1>23. ASSUME NEW m \in Messages, GrowOlder(m) PROVE FrozenContent'
  BY <1>0, <1>23 DEF GrowOlder
<1>24. CASE UNCHANGED vars
  BY <1>0, <1>24 DEF vars
<1>25. QED
  BY <1>1, <1>2, <1>3, <1>4, <1>5, <1>6, <1>7, <1>8, <1>9, <1>10, <1>11,
     <1>12, <1>13, <1>14, <1>15, <1>16, <1>17, <1>18, <1>19, <1>20,
     <1>21, <1>22, <1>23, <1>24
     DEF Next, RouteStep, Attempt, QueueStep

\* No step marks a message sent that the provider did not accept.
LEMMA AcceptedStep ==
    InductiveInvariant /\ [Next]_vars => SentMeansAccepted'
<1> SUFFICES ASSUME InductiveInvariant, [Next]_vars PROVE SentMeansAccepted'
  OBVIOUS
<1>0. InductiveInvariant /\ TypeOK'
  BY TypeStep
<1> USE CommunicationAssumption
    DEF InductiveInvariant, Slot, TypeOK, SentMeansAccepted, WorkersAreRight,
        Live
<1> USE DEF message, access, redis, provider
<1>1. ASSUME NEW m \in Messages, SaveDraft(m) PROVE SentMeansAccepted'
  BY <1>0, <1>1 DEF SaveDraft, Spend
<1>2. ASSUME NEW m \in Messages, Send(m) PROVE SentMeansAccepted'
  BY <1>0, <1>2 DEF Send
<1>3. ASSUME NEW m \in Messages, RetryDispatch(m) \/ DispatchFails(m) PROVE
   SentMeansAccepted'
  BY <1>0, <1>3 DEF RetryDispatch, DispatchFails
<1>4. ASSUME NEW m \in Messages, Dispatch(m) PROVE SentMeansAccepted'
  BY <1>0, <1>4 DEF Dispatch
<1>5. ASSUME NEW m \in Messages, Cancel(m) PROVE SentMeansAccepted'
  BY <1>0, <1>5 DEF Cancel
<1>6. CASE FlipSender \/ FlipCase
  BY <1>0, <1>6 DEF FlipSender, FlipCase, Spend
<1>7. ASSUME NEW w \in Workers, NEW m \in Messages, Take(w, m) PROVE
   SentMeansAccepted'
  BY <1>0, <1>7 DEF Take, Idle
<1>8. ASSUME NEW w \in Workers, NEW m \in Messages, ClaimSkips(w, m) PROVE
   SentMeansAccepted'
  BY <1>0, <1>8 DEF ClaimSkips, Ends, Idle
<1>9. ASSUME NEW w \in Workers, NEW m \in Messages, ClaimRevoked(w, m) PROVE
   SentMeansAccepted'
  BY <1>0, <1>9 DEF ClaimRevoked, FailClaim, Ends, Idle, Revoked, CaseAllowed
<1>10. ASSUME NEW w \in Workers, NEW m \in Messages, ClaimTooOld(w, m) PROVE
   SentMeansAccepted'
  BY <1>0, <1>10 DEF ClaimTooOld, FailClaim, Ends, Idle
<1>11. ASSUME NEW w \in Workers, NEW m \in Messages, ClaimSends(w, m) PROVE
   SentMeansAccepted'
  BY <1>0, <1>11 DEF ClaimSends, NextAttempt
<1>12. ASSUME NEW w \in Workers, NEW m \in Messages, NEW res \in Results \
   {"none"}, CallProvider(w, m, res) PROVE SentMeansAccepted'
  BY <1>0, <1>12 DEF CallProvider
<1>13. ASSUME NEW w \in Workers, NEW m \in Messages, Finalize(w, m) PROVE
   SentMeansAccepted'
  BY <1>0, <1>13 DEF Finalize, Outcome, Retries, Ends, Idle
<1>14. ASSUME NEW w \in Workers, NEW m \in Messages, Complete(w, m) PROVE
   SentMeansAccepted'
  BY <1>0, <1>14 DEF Complete, Idle
<1>15. ASSUME NEW w \in Workers, NEW m \in Messages, JobFails(w, m) PROVE
   SentMeansAccepted'
  BY <1>0, <1>15 DEF JobFails, Idle
<1>16. ASSUME NEW w \in Workers, DatabaseError(w) PROVE SentMeansAccepted'
  BY <1>0, <1>16 DEF DatabaseError, Ends, Idle
<1>17. ASSUME NEW w \in Workers, Crash(w) PROVE SentMeansAccepted'
  BY <1>0, <1>17 DEF Crash, Idle
<1>18. ASSUME NEW m \in Messages, Reconcile(m) PROVE SentMeansAccepted'
  BY <1>0, <1>18 DEF Reconcile
<1>19. ASSUME NEW m \in Messages, ReconcileLost(m) PROVE SentMeansAccepted'
  BY <1>0, <1>19 DEF ReconcileLost, Spend
<1>20. ASSUME NEW m \in Messages, Stall(m) PROVE SentMeansAccepted'
  BY <1>0, <1>20 DEF Stall
<1>21. ASSUME NEW m \in Messages, Evict(m) PROVE SentMeansAccepted'
  BY <1>0, <1>21 DEF Evict, NoJob
<1>22. CASE RedisLoss
  BY <1>0, <1>22 DEF RedisLoss, Spend, NoJob
<1>23. ASSUME NEW m \in Messages, GrowOlder(m) PROVE SentMeansAccepted'
  BY <1>0, <1>23 DEF GrowOlder
<1>24. CASE UNCHANGED vars
  BY <1>0, <1>24 DEF vars
<1>25. QED
  BY <1>1, <1>2, <1>3, <1>4, <1>5, <1>6, <1>7, <1>8, <1>9, <1>10, <1>11,
     <1>12, <1>13, <1>14, <1>15, <1>16, <1>17, <1>18, <1>19, <1>20,
     <1>21, <1>22, <1>23, <1>24
     DEF Next, RouteStep, Attempt, QueueStep

\* No step completes the job of an unsettled message.
LEMMA CompletedStep ==
    InductiveInvariant /\ [Next]_vars => CompletedJobIsSettled'
<1> SUFFICES ASSUME InductiveInvariant, [Next]_vars
             PROVE  CompletedJobIsSettled'
  OBVIOUS
<1>0. InductiveInvariant /\ TypeOK'
  BY TypeStep
<1> USE CommunicationAssumption
    DEF InductiveInvariant, Slot, TypeOK, CompletedJobIsSettled,
        WorkersAreRight, Live, Terminal, NoJob
<1> USE DEF message, access, redis, provider
<1>1. ASSUME NEW m \in Messages, SaveDraft(m) PROVE CompletedJobIsSettled'
  BY <1>0, <1>1 DEF SaveDraft, Spend
<1>2. ASSUME NEW m \in Messages, Send(m) PROVE CompletedJobIsSettled'
  BY <1>0, <1>2 DEF Send
<1>3. ASSUME NEW m \in Messages, RetryDispatch(m) \/ DispatchFails(m) PROVE
   CompletedJobIsSettled'
  BY <1>0, <1>3 DEF RetryDispatch, DispatchFails
<1>4. ASSUME NEW m \in Messages, Dispatch(m) PROVE CompletedJobIsSettled'
  BY <1>0, <1>4 DEF Dispatch
<1>5. ASSUME NEW m \in Messages, Cancel(m) PROVE CompletedJobIsSettled'
  BY <1>0, <1>5 DEF Cancel
<1>6. CASE FlipSender \/ FlipCase
  BY <1>0, <1>6 DEF FlipSender, FlipCase, Spend
<1>7. ASSUME NEW w \in Workers, NEW m \in Messages, Take(w, m) PROVE
   CompletedJobIsSettled'
  BY <1>0, <1>7 DEF Take, Idle
<1>8. ASSUME NEW w \in Workers, NEW m \in Messages, ClaimSkips(w, m) PROVE
   CompletedJobIsSettled'
  BY <1>0, <1>8 DEF ClaimSkips, Ends, Idle
<1>9. ASSUME NEW w \in Workers, NEW m \in Messages, ClaimRevoked(w, m) PROVE
   CompletedJobIsSettled'
  BY <1>0, <1>9 DEF ClaimRevoked, FailClaim, Ends, Idle, Revoked, CaseAllowed
<1>10. ASSUME NEW w \in Workers, NEW m \in Messages, ClaimTooOld(w, m) PROVE
   CompletedJobIsSettled'
  BY <1>0, <1>10 DEF ClaimTooOld, FailClaim, Ends, Idle
<1>11. ASSUME NEW w \in Workers, NEW m \in Messages, ClaimSends(w, m) PROVE
   CompletedJobIsSettled'
  BY <1>0, <1>11 DEF ClaimSends, NextAttempt
<1>12. ASSUME NEW w \in Workers, NEW m \in Messages, NEW res \in Results \
   {"none"}, CallProvider(w, m, res) PROVE CompletedJobIsSettled'
  BY <1>0, <1>12 DEF CallProvider
<1>13. ASSUME NEW w \in Workers, NEW m \in Messages, Finalize(w, m) PROVE
   CompletedJobIsSettled'
  BY <1>0, <1>13 DEF Finalize, Outcome, Retries, Ends, Idle
<1>14. ASSUME NEW w \in Workers, NEW m \in Messages, Complete(w, m) PROVE
   CompletedJobIsSettled'
  BY <1>0, <1>14 DEF Complete, Idle
<1>15. ASSUME NEW w \in Workers, NEW m \in Messages, JobFails(w, m) PROVE
   CompletedJobIsSettled'
  <2>1. \A n \in Messages : n # m => job'[n] = job[n]
    BY <1>0, <1>15 DEF JobFails
  <2>2. job'[m].st = "completed" => job[m].st = "completed"
    BY <1>0, <1>15 DEF JobFails
  <2>3. status' = status
    BY <1>15 DEF JobFails
  <2>4. QED
    BY ONLY <1>0, <2>1, <2>2, <2>3 DEF InductiveInvariant, CompletedJobIsSettled
<1>16. ASSUME NEW w \in Workers, DatabaseError(w) PROVE
   CompletedJobIsSettled'
  BY <1>0, <1>16 DEF DatabaseError, Ends, Idle
<1>17. ASSUME NEW w \in Workers, Crash(w) PROVE CompletedJobIsSettled'
  BY <1>0, <1>17 DEF Crash, Idle
<1>18. ASSUME NEW m \in Messages, Reconcile(m) PROVE CompletedJobIsSettled'
  BY <1>0, <1>18 DEF Reconcile
<1>19. ASSUME NEW m \in Messages, ReconcileLost(m) PROVE
   CompletedJobIsSettled'
  BY <1>0, <1>19 DEF ReconcileLost, Spend
<1>20. ASSUME NEW m \in Messages, Stall(m) PROVE CompletedJobIsSettled'
  BY <1>0, <1>20 DEF Stall
<1>21. ASSUME NEW m \in Messages, Evict(m) PROVE CompletedJobIsSettled'
  BY <1>0, <1>21 DEF Evict, NoJob
<1>22. CASE RedisLoss
  BY <1>0, <1>22 DEF RedisLoss, Spend, NoJob
<1>23. ASSUME NEW m \in Messages, GrowOlder(m) PROVE CompletedJobIsSettled'
  BY <1>0, <1>23 DEF GrowOlder
<1>24. CASE UNCHANGED vars
  BY <1>0, <1>24 DEF vars
<1>25. QED
  BY <1>1, <1>2, <1>3, <1>4, <1>5, <1>6, <1>7, <1>8, <1>9, <1>10, <1>11,
     <1>12, <1>13, <1>14, <1>15, <1>16, <1>17, <1>18, <1>19, <1>20,
     <1>21, <1>22, <1>23, <1>24
     DEF Next, RouteStep, Attempt, QueueStep

Settled == \A m \in Messages : status[m] \in Terminal =>
               status'[m] = status[m] /\ code'[m] = code[m]

\* No step touches the status or the code of a settled message.
LEMMA TerminalStep ==
    InductiveInvariant /\ [Next]_vars => Settled
<1> SUFFICES ASSUME InductiveInvariant, [Next]_vars PROVE Settled
  OBVIOUS
<1>0. InductiveInvariant /\ TypeOK'
  BY TypeStep
<1> USE CommunicationAssumption
    DEF InductiveInvariant, TypeOK, Live, Terminal, Settled
<1> USE DEF message, access, redis, provider
<1>1. ASSUME NEW m \in Messages, SaveDraft(m) PROVE Settled
  BY <1>0, <1>1 DEF SaveDraft, Spend
<1>2. ASSUME NEW m \in Messages, Send(m) PROVE Settled
  BY <1>0, <1>2 DEF Send
<1>3. ASSUME NEW m \in Messages, RetryDispatch(m) \/ DispatchFails(m) PROVE
   Settled
  BY <1>0, <1>3 DEF RetryDispatch, DispatchFails
<1>4. ASSUME NEW m \in Messages, Dispatch(m) PROVE Settled
  BY <1>0, <1>4 DEF Dispatch
<1>5. ASSUME NEW m \in Messages, Cancel(m) PROVE Settled
  BY <1>0, <1>5 DEF Cancel
<1>6. CASE FlipSender \/ FlipCase
  BY <1>0, <1>6 DEF FlipSender, FlipCase, Spend
<1>7. ASSUME NEW w \in Workers, NEW m \in Messages, Take(w, m) PROVE Settled
  BY <1>0, <1>7 DEF Take, Idle
<1>8. ASSUME NEW w \in Workers, NEW m \in Messages, ClaimSkips(w, m) PROVE
   Settled
  BY <1>0, <1>8 DEF ClaimSkips, Ends, Idle
<1>9. ASSUME NEW w \in Workers, NEW m \in Messages, ClaimRevoked(w, m) PROVE
   Settled
  BY <1>0, <1>9 DEF ClaimRevoked, FailClaim, Ends, Idle, Revoked, CaseAllowed
<1>10. ASSUME NEW w \in Workers, NEW m \in Messages, ClaimTooOld(w, m) PROVE
   Settled
  BY <1>0, <1>10 DEF ClaimTooOld, FailClaim, Ends, Idle
<1>11. ASSUME NEW w \in Workers, NEW m \in Messages, ClaimSends(w, m) PROVE
   Settled
  BY <1>0, <1>11 DEF ClaimSends, NextAttempt
<1>12. ASSUME NEW w \in Workers, NEW m \in Messages, NEW res \in Results \
   {"none"}, CallProvider(w, m, res) PROVE Settled
  BY <1>0, <1>12 DEF CallProvider
<1>13. ASSUME NEW w \in Workers, NEW m \in Messages, Finalize(w, m) PROVE
   Settled
  BY <1>0, <1>13 DEF Finalize, Outcome, Retries, Ends, Idle
<1>14. ASSUME NEW w \in Workers, NEW m \in Messages, Complete(w, m) PROVE
   Settled
  BY <1>0, <1>14 DEF Complete, Idle
<1>15. ASSUME NEW w \in Workers, NEW m \in Messages, JobFails(w, m) PROVE
   Settled
  BY <1>0, <1>15 DEF JobFails, Idle
<1>16. ASSUME NEW w \in Workers, DatabaseError(w) PROVE Settled
  BY <1>0, <1>16 DEF DatabaseError, Ends, Idle
<1>17. ASSUME NEW w \in Workers, Crash(w) PROVE Settled
  BY <1>0, <1>17 DEF Crash, Idle
<1>18. ASSUME NEW m \in Messages, Reconcile(m) PROVE Settled
  BY <1>0, <1>18 DEF Reconcile
<1>19. ASSUME NEW m \in Messages, ReconcileLost(m) PROVE Settled
  BY <1>0, <1>19 DEF ReconcileLost, Spend
<1>20. ASSUME NEW m \in Messages, Stall(m) PROVE Settled
  BY <1>0, <1>20 DEF Stall
<1>21. ASSUME NEW m \in Messages, Evict(m) PROVE Settled
  BY <1>0, <1>21 DEF Evict, NoJob
<1>22. CASE RedisLoss
  BY <1>0, <1>22 DEF RedisLoss, Spend, NoJob
<1>23. ASSUME NEW m \in Messages, GrowOlder(m) PROVE Settled
  BY <1>0, <1>23 DEF GrowOlder
<1>24. CASE UNCHANGED vars
  BY <1>0, <1>24 DEF vars
<1>25. QED
  BY <1>1, <1>2, <1>3, <1>4, <1>5, <1>6, <1>7, <1>8, <1>9, <1>10, <1>11,
     <1>12, <1>13, <1>14, <1>15, <1>16, <1>17, <1>18, <1>19, <1>20,
     <1>21, <1>22, <1>23, <1>24
     DEF Next, RouteStep, Attempt, QueueStep

\* When no reconciliation is lost, a job only fails with its message settled
\* or its reconciliation pending.
LEMMA ReconciledStep ==
    ASSUME ~ListenerMayDie, InductiveInvariant, FailedJobIsReconciled,
           [Next]_vars
    PROVE  FailedJobIsReconciled'
<1>0. InductiveInvariant /\ TypeOK' /\ FailedJobIsReconciled
  BY TypeStep
<1> USE CommunicationAssumption
    DEF InductiveInvariant, TypeOK, FailedJobIsReconciled, WorkersAreRight,
        Live, Terminal, Statuses
<1> USE DEF message, access, redis, provider
<1>1. ASSUME NEW m \in Messages, SaveDraft(m) PROVE FailedJobIsReconciled'
  BY <1>0, <1>1 DEF SaveDraft, Spend
<1>2. ASSUME NEW m \in Messages, Send(m) PROVE FailedJobIsReconciled'
  BY <1>0, <1>2 DEF Send
<1>3. ASSUME NEW m \in Messages, RetryDispatch(m) \/ DispatchFails(m) PROVE
   FailedJobIsReconciled'
  BY <1>0, <1>3 DEF RetryDispatch, DispatchFails
<1>4. ASSUME NEW m \in Messages, Dispatch(m) PROVE FailedJobIsReconciled'
  BY <1>0, <1>4 DEF Dispatch
<1>5. ASSUME NEW m \in Messages, Cancel(m) PROVE FailedJobIsReconciled'
  BY <1>0, <1>5 DEF Cancel
<1>6. CASE FlipSender \/ FlipCase
  BY <1>0, <1>6 DEF FlipSender, FlipCase, Spend
<1>7. ASSUME NEW w \in Workers, NEW m \in Messages, Take(w, m) PROVE
   FailedJobIsReconciled'
  BY <1>0, <1>7 DEF Take, Idle
<1>8. ASSUME NEW w \in Workers, NEW m \in Messages, ClaimSkips(w, m) PROVE
   FailedJobIsReconciled'
  BY <1>0, <1>8 DEF ClaimSkips, Ends, Idle
<1>9. ASSUME NEW w \in Workers, NEW m \in Messages, ClaimRevoked(w, m) PROVE
   FailedJobIsReconciled'
  BY <1>0, <1>9 DEF ClaimRevoked, FailClaim, Ends, Idle, Revoked, CaseAllowed
<1>10. ASSUME NEW w \in Workers, NEW m \in Messages, ClaimTooOld(w, m) PROVE
   FailedJobIsReconciled'
  BY <1>0, <1>10 DEF ClaimTooOld, FailClaim, Ends, Idle
<1>11. ASSUME NEW w \in Workers, NEW m \in Messages, ClaimSends(w, m) PROVE
   FailedJobIsReconciled'
  BY <1>0, <1>11 DEF ClaimSends, NextAttempt
<1>12. ASSUME NEW w \in Workers, NEW m \in Messages, NEW res \in Results \
   {"none"}, CallProvider(w, m, res) PROVE FailedJobIsReconciled'
  BY <1>0, <1>12 DEF CallProvider
<1>13. ASSUME NEW w \in Workers, NEW m \in Messages, Finalize(w, m) PROVE
   FailedJobIsReconciled'
  BY <1>0, <1>13 DEF Finalize, Outcome, Retries, Ends, Idle
<1>14. ASSUME NEW w \in Workers, NEW m \in Messages, Complete(w, m) PROVE
   FailedJobIsReconciled'
  <2>1. status' = status /\ listener' = listener
    BY <1>14 DEF Complete
  <2>2. ASSUME NEW n \in Messages, job'[n].st = "failed" PROVE job[n].st = "failed"
    <3>1. CASE n = m /\ lock[m] = w
      <4>1. job' = [job EXCEPT ![m].st = "completed"]
        BY <1>14, <3>1 DEF Complete
      <4>2. job'[m].st = "completed"
        BY <1>0, <4>1
      <4>3. QED
        BY <2>2, <3>1, <4>2
    <3>2. CASE n # m \/ lock[m] # w
      BY <1>0, <1>14, <2>2, <3>2 DEF Complete
    <3>3. QED
      BY <3>1, <3>2
  <2>3. QED
    BY <1>0, <2>1, <2>2
<1>15. ASSUME NEW w \in Workers, NEW m \in Messages, JobFails(w, m) PROVE
   FailedJobIsReconciled'
  <2>1. status' = status /\ listener \subseteq listener'
    BY <1>15 DEF JobFails
  <2>2. ASSUME NEW n \in Messages, job'[n].st = "failed"
        PROVE  \/ job[n].st = "failed"
               \/ status[n] \in Terminal
               \/ n \in listener'
    <3>1. CASE n = m /\ lock[m] = w
      <4>1. CASE worker[w].phase = "fatal"
        BY <1>0, <3>1, <4>1, <1>15 DEF JobFails
      <4>2. CASE job[m].made + 1 >= MaxAttempts
        BY <1>15, <3>1, <4>2 DEF JobFails
      <4>3. CASE worker[w].phase # "fatal" /\ ~(job[m].made + 1 >= MaxAttempts)
        <5>1. job' = [job EXCEPT ![m].made = job[m].made + 1, ![m].st = "waiting"]
          BY <1>15, <3>1, <4>3 DEF JobFails
        <5>2. job'[m].st = "waiting"
          BY <1>0, <5>1
        <5>3. QED
          BY <2>2, <3>1, <5>2
      <4>4. QED
        BY <4>1, <4>2, <4>3
    <3>2. CASE n # m \/ lock[m] # w
      BY <1>0, <1>15, <2>2, <3>2 DEF JobFails
    <3>3. QED
      BY <3>1, <3>2
  <2>3. QED
    BY <1>0, <2>1, <2>2
<1>16. ASSUME NEW w \in Workers, DatabaseError(w) PROVE
   FailedJobIsReconciled'
  BY <1>0, <1>16 DEF DatabaseError, Ends, Idle
<1>17. ASSUME NEW w \in Workers, Crash(w) PROVE FailedJobIsReconciled'
  BY <1>0, <1>17 DEF Crash, Idle
<1>18. ASSUME NEW m \in Messages, Reconcile(m) PROVE FailedJobIsReconciled'
  <2>1. job' = job /\ listener' = listener \ {m}
    BY <1>18 DEF Reconcile
  <2>2. \A n \in Messages \ {m} : status'[n] = status[n]
    BY <1>0, <1>18 DEF Reconcile
  <2>3. job[m].st = "failed" => status'[m] \in Terminal
    <3>1. status[m] \in Statuses /\ (job[m].st # "none" => status[m] # "draft")
      BY <1>0 DEF QueuedIsFrozen
    <3>2. CASE status[m] \in Live
      BY <1>0, <1>18, <3>2 DEF Reconcile
    <3>3. CASE status[m] \notin Live
      BY <1>18, <3>1, <3>3 DEF Reconcile
    <3>4. QED
      BY <3>2, <3>3
  <2>4. QED
    BY <1>0, <2>1, <2>2, <2>3
<1>19. ASSUME NEW m \in Messages, ReconcileLost(m) PROVE
   FailedJobIsReconciled'
  BY <1>0, <1>19 DEF ReconcileLost, Spend
<1>20. ASSUME NEW m \in Messages, Stall(m) PROVE FailedJobIsReconciled'
  BY <1>0, <1>20 DEF Stall
<1>21. ASSUME NEW m \in Messages, Evict(m) PROVE FailedJobIsReconciled'
  BY <1>0, <1>21 DEF Evict, NoJob
<1>22. CASE RedisLoss
  BY <1>0, <1>22 DEF RedisLoss, Spend, NoJob
<1>23. ASSUME NEW m \in Messages, GrowOlder(m) PROVE FailedJobIsReconciled'
  BY <1>0, <1>23 DEF GrowOlder
<1>24. CASE UNCHANGED vars
  BY <1>0, <1>24 DEF vars
<1>25. QED
  BY <1>1, <1>2, <1>3, <1>4, <1>5, <1>6, <1>7, <1>8, <1>9, <1>10, <1>11,
     <1>12, <1>13, <1>14, <1>15, <1>16, <1>17, <1>18, <1>19, <1>20,
     <1>21, <1>22, <1>23, <1>24
     DEF Next, RouteStep, Attempt, QueueStep

\* The invariant is inductive, so it holds in every reachable state.
THEOREM Invariance == Spec => []InductiveInvariant
<1>1. InductiveInvariant /\ [Next]_vars => InductiveInvariant'
  <2> SUFFICES ASSUME InductiveInvariant, [Next]_vars
               PROVE  InductiveInvariant'
    OBVIOUS
  <2>1. TypeOK' /\ CallsAreMarked' /\ QueuedIsFrozen' /\ WorkersAreRight'
    BY TypeStep, MarkedStep, QueuedStep, WorkersStep
  <2>2. CodesAreRight' /\ DeliveredAtMostOnce' /\ FrozenContent'
    BY CodesStep, DeliveredStep, FrozenStep
  <2>3. SentMeansAccepted' /\ CompletedJobIsSettled'
    BY AcceptedStep, CompletedStep
  <2>4. QED
    BY <2>1, <2>2, <2>3 DEF InductiveInvariant
<1>2. QED
  BY InitEstablishes, <1>1, PTL DEF Spec

\* Every variable keeps its type.
THEOREM TypeCorrect == Spec => []TypeOK
<1>1. InductiveInvariant => TypeOK
  BY DEF InductiveInvariant
<1>2. QED
  BY Invariance, <1>1, PTL

\* processMessage, redelivery, retries and repeated dispatches together never
\* send the recipients the same message twice.
THEOREM SentOnce == Spec => []DeliveredAtMostOnce
<1>1. InductiveInvariant => DeliveredAtMostOnce
  BY DEF InductiveInvariant
<1>2. QED
  BY Invariance, <1>1, PTL

\* Every attempt carries the content the message was queued with.
THEOREM PayloadIsFrozen == Spec => []FrozenContent
<1>1. InductiveInvariant => FrozenContent
  BY DEF InductiveInvariant
<1>2. QED
  BY Invariance, <1>1, PTL

\* A message marked sent was accepted by the provider.
THEOREM SentIsAccepted == Spec => []SentMeansAccepted
<1>1. InductiveInvariant => SentMeansAccepted
  BY DEF InductiveInvariant
<1>2. QED
  BY Invariance, <1>1, PTL

\* A completed job leaves no unsettled message behind its job id.
THEOREM CompletedIsSettled == Spec => []CompletedJobIsSettled
<1>1. InductiveInvariant => CompletedJobIsSettled
  BY DEF InductiveInvariant
<1>2. QED
  BY Invariance, <1>1, PTL

\* The codes that claim no attempt was made are true: such a message is not
\* marked, and unmarked messages have had no call and have none pending.
THEOREM UnattemptedIsTrue == Spec => []UnattemptedCodesAreTrue
<1>1. InductiveInvariant => UnattemptedCodesAreTrue
  <2> SUFFICES ASSUME InductiveInvariant, NEW m \in Messages,
                      \/ code[m] = "exhausted"
                      \/ code[m] = "revoked" /\ m \notin CaseLinked
               PROVE  NeverAttempted(m)
    BY DEF UnattemptedCodesAreTrue
  <2>1. ~started[m]
    BY DEF InductiveInvariant, CodesAreRight
  <2>2. bodies[m] = {}
    BY <2>1 DEF InductiveInvariant, CallsAreMarked
  <2>3. \A w \in Workers : worker[w].msg = m => worker[w].phase # "calling"
    BY <2>1 DEF InductiveInvariant, CallsAreMarked
  <2>4. QED
    BY <2>2, <2>3 DEF NeverAttempted
<1>2. QED
  BY Invariance, <1>1, PTL

\* A confirmed outcome is never overwritten by a late worker, the failed
\* listener or a user.
THEOREM OutcomeIsFinal == Spec => TerminalIsFinal
<1>1. InductiveInvariant /\ [Next]_vars =>
         [\A m \in Messages : status[m] \in Terminal =>
             status'[m] = status[m] /\ code'[m] = code[m]]_vars
  BY TerminalStep DEF Settled
<1>2. QED
  BY Invariance, <1>1, PTL DEF Spec, TerminalIsFinal

\* As long as no reconciliation is lost, a failed job leaves its message
\* settled or its reconciliation pending.
THEOREM FailureIsReconciled ==
    ASSUME ~ListenerMayDie
    PROVE  Spec => []FailedJobIsReconciled
<1>1. Init => FailedJobIsReconciled
  BY DEF Init, FailedJobIsReconciled, NoJob
<1>2. InductiveInvariant /\ FailedJobIsReconciled /\ [Next]_vars =>
         FailedJobIsReconciled'
  BY ReconciledStep
<1>3. QED
  BY Invariance, <1>1, <1>2, PTL DEF Spec

-----------------------------------------------------------------------------
(* The promise.                                                            *)

\* Only some steps concern the contract.
Silent(w, m) ==
    \/ RetryDispatch(m) \/ Dispatch(m) \/ DispatchFails(m)
    \/ ReconcileLost(m) \/ Stall(m) \/ Evict(m) \/ GrowOlder(m)
    \/ Take(w, m) \/ ClaimSkips(w, m) \/ Complete(w, m) \/ JobFails(w, m)
Settling(w, m) ==
    \/ Send(m) \/ Cancel(m) \/ Reconcile(m)
    \/ ClaimRevoked(w, m) \/ ClaimTooOld(w, m) \/ Finalize(w, m)
Spoken == <<status, content, started, delivered, bodies>>

\* Silent steps leave alone what the contract speaks of.
LEMMA SilentSteps == ASSUME NEW w, NEW m, Silent(w, m) PROVE UNCHANGED Spoken
<1>1. CASE RetryDispatch(m) \/ Dispatch(m) \/ DispatchFails(m)
  BY <1>1 DEF RetryDispatch, Dispatch, DispatchFails, message, provider, Spoken
<1>2. CASE ReconcileLost(m) \/ Stall(m) \/ Evict(m) \/ GrowOlder(m)
  BY <1>2 DEF ReconcileLost, Stall, Evict, GrowOlder, message, provider, Spoken
<1>3. CASE Take(w, m) \/ ClaimSkips(w, m) \/ Complete(w, m) \/ JobFails(w, m)
  BY <1>3 DEF Take, ClaimSkips, Complete, JobFails, message, provider, Spoken
<1>4. QED
  BY <1>1, <1>2, <1>3 DEF Silent

\* What a step may be, as far as the contract is concerned.
LEMMA StepKinds ==
    ASSUME [Next]_vars
    PROVE  \/ UNCHANGED Spoken
           \/ \E m \in Messages : SaveDraft(m) \/ Send(m) \/ Cancel(m) \/ Reconcile(m)
           \/ \E w \in Workers, m \in Messages :
                 \/ Settling(w, m) \/ ClaimSends(w, m)
                 \/ \E res \in Results : CallProvider(w, m, res)
<1>1. CASE UNCHANGED vars
  BY <1>1 DEF vars, Spoken
<1>2. ASSUME NEW m \in Messages, RouteStep(m) \/ QueueStep(m) \/ GrowOlder(m)
      PROVE  \/ UNCHANGED Spoken
             \/ SaveDraft(m) \/ Send(m) \/ Cancel(m) \/ Reconcile(m)
  BY <1>2, SilentSteps DEF RouteStep, QueueStep, Silent
<1>3. ASSUME NEW w \in Workers, NEW m \in Messages, Attempt(w, m)
      PROVE  \/ UNCHANGED Spoken
             \/ Settling(w, m) \/ ClaimSends(w, m)
             \/ \E res \in Results : CallProvider(w, m, res)
  BY <1>3, SilentSteps DEF Attempt, Silent, Settling
<1>4. ASSUME \/ \E w \in Workers : DatabaseError(w) \/ Crash(w)
             \/ FlipSender \/ FlipCase \/ RedisLoss
      PROVE  UNCHANGED Spoken
  BY <1>4 DEF DatabaseError, Crash, FlipSender, FlipCase, RedisLoss, message, provider, Spoken
<1>5. QED
  BY <1>1, <1>2, <1>3, <1>4 DEF Next

\* Only a call of the provider changes what the provider has seen.
LEMMA CallsOnly ==
    ASSUME NEW w, NEW m,
           SaveDraft(m) \/ Settling(w, m) \/ ClaimSends(w, m)
    PROVE  UNCHANGED <<delivered, bodies>>
<1>1. CASE SaveDraft(m) \/ Send(m) \/ Cancel(m) \/ Reconcile(m)
  BY <1>1 DEF SaveDraft, Send, Cancel, Reconcile, provider
<1>2. CASE ClaimRevoked(w, m) \/ ClaimTooOld(w, m) \/ ClaimSends(w, m) \/ Finalize(w, m)
  BY <1>2 DEF ClaimRevoked, ClaimTooOld, FailClaim, ClaimSends, Finalize, provider
<1>3. QED
  BY <1>1, <1>2 DEF Settling

\* What went out was handed to the provider in a call.
MailWasCalled == \A m \in Messages : delivered[m] > 0 => bodies[m] # {}

\* Every delivery leaves its content among those the provider was called with.
LEMMA MailStep ==
    ASSUME InductiveInvariant, MailWasCalled, [Next]_vars PROVE MailWasCalled'
<1>1. TypeOK
  BY DEF InductiveInvariant
<1>2. ASSUME NEW w \in Workers, NEW m \in Messages, NEW res \in Results, CallProvider(w, m, res)
      PROVE  MailWasCalled'
  <2>1. bodies' = [bodies EXCEPT ![m] = @ \cup {worker[w].body}]
    BY <1>2 DEF CallProvider
  <2>2. \A n \in Messages : n # m => delivered'[n] = delivered[n]
    BY <1>1, <1>2 DEF CallProvider, TypeOK
  <2>3. QED
    BY <1>1, <2>1, <2>2 DEF MailWasCalled, TypeOK
<1>3. CASE UNCHANGED <<delivered, bodies>>
  BY <1>3 DEF MailWasCalled
<1>4. ASSUME NEW m \in Messages, SaveDraft(m) \/ Send(m) \/ Cancel(m) \/ Reconcile(m)
      PROVE  UNCHANGED <<delivered, bodies>>
  BY <1>4, CallsOnly DEF Settling
<1>5. ASSUME NEW w \in Workers, NEW m \in Messages, Settling(w, m) \/ ClaimSends(w, m)
      PROVE  UNCHANGED <<delivered, bodies>>
  BY <1>5, CallsOnly
<1>6. CASE UNCHANGED Spoken
  BY <1>3, <1>6 DEF Spoken
<1>7. QED
  BY <1>2, <1>3, <1>4, <1>5, <1>6, StepKinds

\* What the sender is told of a message in each of its states.
Told(st) == IF st \in Live THEN "underway" ELSE st

\* A change of the status alone is a move of the contract, or none.
LEMMA StatusMove ==
    ASSUME TypeOK, NEW m \in Messages, NEW s,
           status' = [status EXCEPT ![m] = s],
           UNCHANGED <<content, started, delivered, bodies>>,
           \/ Told(s) = Told(status[m])
           \/ status[m] = "draft" /\ s = "queued"
           \/ status[m] \in {"draft", "queued"} /\ s = "cancelled"
           \/ status[m] \in Live /\ s = "failed"
           \/ status[m] \in Live /\ s = "sent" /\ delivered[m] = 1
    PROVE  [Promised!Next]_(Promised!contractVars)
<1> DEFINE stage == [n \in Messages |-> IF status[n] \in Live THEN "underway" ELSE status[n]]
           letters == [n \in Messages |-> IF delivered[n] = 0 THEN {} ELSE bodies[n]]
<1>1. letters' = letters
  OBVIOUS
<1>2. stage' = [stage EXCEPT ![m] = Told(s)]
  BY DEF TypeOK, Told
<1>3. stage[m] = Told(status[m])
  BY DEF Told
<1>4. CASE Told(s) = Told(status[m])
  <2>1. stage' = stage
    BY <1>2, <1>3, <1>4
  <2>2. QED
    BY <1>1, <2>1 DEF Promised!contractVars
<1>5. CASE status[m] = "draft" /\ s = "queued"
  <2>1. stage[m] = "draft" /\ stage' = [stage EXCEPT ![m] = "underway"]
    BY <1>2, <1>3, <1>5 DEF Told, Live
  <2>2. Promised!Submit(m)
    BY <1>1, <2>1 DEF Promised!Submit, Promised!Becomes
  <2>3. QED
    BY <2>2 DEF Promised!Next
<1>6. CASE status[m] \in {"draft", "queued"} /\ s = "cancelled"
  <2>1. stage[m] \in {"draft", "underway"} /\ stage' = [stage EXCEPT ![m] = "cancelled"]
    BY <1>2, <1>3, <1>6 DEF Told, Live
  <2>2. Promised!Withdraw(m)
    BY <1>1, <2>1 DEF Promised!Withdraw, Promised!Becomes
  <2>3. QED
    BY <2>2 DEF Promised!Next
<1>7. CASE status[m] \in Live /\ s = "failed"
  <2>1. stage[m] = "underway" /\ stage' = [stage EXCEPT ![m] = "failed"]
    BY <1>2, <1>3, <1>7 DEF Told, Live
  <2>2. Promised!GiveUp(m)
    BY <1>1, <2>1 DEF Promised!GiveUp, Promised!Becomes
  <2>3. QED
    BY <2>2 DEF Promised!Next
<1>8. CASE status[m] \in Live /\ s = "sent" /\ delivered[m] = 1
  <2>1. stage[m] = "underway" /\ stage' = [stage EXCEPT ![m] = "sent"]
    BY <1>2, <1>3, <1>8 DEF Told, Live
  <2>2. Promised!Confirm(m)
    BY <1>1, <1>8, <2>1 DEF Promised!Confirm, Promised!Becomes
  <2>3. QED
    BY <2>2 DEF Promised!Next
<1>9. QED
  BY <1>4, <1>5, <1>6, <1>7, <1>8

\* A change of nothing the contract speaks of.
LEMMA QuietMove ==
    ASSUME UNCHANGED <<status, content, started, delivered, bodies>>
    PROVE  [Promised!Next]_(Promised!contractVars)
BY DEF Promised!contractVars

\* An edit of a draft is an edit of what was promised.
LEMMA EditMoves ==
    ASSUME TypeOK, NEW m \in Messages, SaveDraft(m)
    PROVE  [Promised!Next]_(Promised!contractVars)
<1> DEFINE stage == [n \in Messages |-> IF status[n] \in Live THEN "underway" ELSE status[n]]
           letters == [n \in Messages |-> IF delivered[n] = 0 THEN {} ELSE bodies[n]]
<1>1. /\ stage[m] = "draft" /\ content' = [content EXCEPT ![m] = @ + 1]
      /\ stage' = stage /\ letters' = letters /\ started' = started /\ delivered' = delivered
  BY DEF SaveDraft, provider, Live
<1>2. Promised!Edit(m)
  BY <1>1 DEF Promised!Edit
<1>3. QED
  BY <1>2 DEF Promised!Next

\* The first claim of a message begins it; a later one is invisible.
LEMMA ClaimMoves ==
    ASSUME InductiveInvariant, NEW w \in Workers, NEW m \in Messages, ClaimSends(w, m)
    PROVE  [Promised!Next]_(Promised!contractVars)
<1> DEFINE stage == [n \in Messages |-> IF status[n] \in Live THEN "underway" ELSE status[n]]
           letters == [n \in Messages |-> IF delivered[n] = 0 THEN {} ELSE bodies[n]]
<1>1. TypeOK /\ status[m] \in Live /\ status' = [status EXCEPT ![m] = "sending"]
  BY DEF InductiveInvariant, ClaimSends
<1>2. stage[m] = "underway" /\ stage' = stage
  BY <1>1 DEF TypeOK, Live
<1>3. /\ started' = [started EXCEPT ![m] = TRUE]
      /\ content' = content /\ delivered' = delivered /\ letters' = letters
  BY DEF ClaimSends, provider
<1>4. CASE started[m]
  <2>1. started' = started
    BY <1>1, <1>3, <1>4 DEF TypeOK
  <2>2. QED
    BY <1>2, <1>3, <2>1 DEF Promised!contractVars
<1>5. CASE ~started[m]
  <2>1. Promised!Begin(m)
    BY <1>2, <1>3, <1>5 DEF Promised!Begin
  <2>2. QED
    BY <2>1 DEF Promised!Next
<1>6. QED
  BY <1>4, <1>5

\* The first acceptance is the message going out, as it was submitted; the
\* provider answers every other call without sending anything.
LEMMA CallMoves ==
    ASSUME InductiveInvariant, MailWasCalled, DeliveredAtMostOnce',
           NEW w \in Workers, NEW m \in Messages, NEW res \in Results, CallProvider(w, m, res)
    PROVE  [Promised!Next]_(Promised!contractVars)
<1> DEFINE stage == [n \in Messages |-> IF status[n] \in Live THEN "underway" ELSE status[n]]
           letters == [n \in Messages |-> IF delivered[n] = 0 THEN {} ELSE bodies[n]]
<1>1. /\ TypeOK /\ delivered[m] \in Nat /\ started[m]
      /\ worker[w].body = content[m] /\ bodies[m] \subseteq {content[m]}
  BY DEF InductiveInvariant, CallsAreMarked, FrozenContent, CallProvider, TypeOK
<1>2. /\ stage' = stage /\ started' = started /\ content' = content
      /\ bodies' = [bodies EXCEPT ![m] = @ \cup {content[m]}]
  BY <1>1 DEF CallProvider, message
<1>3. bodies'[m] = {content[m]} /\ \A n \in Messages : n # m => bodies'[n] = bodies[n]
  BY <1>1, <1>2 DEF TypeOK
<1>4. delivered' = delivered \/ delivered' = [delivered EXCEPT ![m] = @ + 1]
  BY DEF CallProvider
<1>5. CASE delivered' = delivered
  <2>1. delivered[m] > 0 => bodies'[m] = bodies[m]
    BY <1>1, <1>3 DEF MailWasCalled
  <2>2. letters' = letters
    BY <1>1, <1>3, <1>5, <2>1, SMTT(30)
  <2>3. QED
    BY <1>2, <1>5, <2>2 DEF Promised!contractVars
<1>6. CASE delivered' = [delivered EXCEPT ![m] = @ + 1]
  <2>1. delivered'[m] = delivered[m] + 1 /\ delivered'[m] <= 1
    BY <1>1, <1>6 DEF TypeOK, DeliveredAtMostOnce
  <2>2. delivered[m] = 0
    BY <1>1, <2>1
  <2>3. delivered' = [delivered EXCEPT ![m] = 1]
    BY <1>6, <2>2
  <2>4. \A n \in Messages : letters'[n] = IF n = m THEN {content[m]} ELSE letters[n]
    <3>1. delivered'[m] = 1 /\ \A n \in Messages : n # m => delivered'[n] = delivered[n]
      BY <1>1, <2>3 DEF TypeOK
    <3>2. QED
      BY <1>3, <3>1
  <2>5. letters' = [letters EXCEPT ![m] = {content[m]}]
    BY <2>4
  <2>6. Promised!GoOut(m)
    BY <1>1, <1>2, <2>2, <2>3, <2>5 DEF Promised!GoOut
  <2>7. QED
    BY <2>6 DEF Promised!Next
<1>7. QED
  BY <1>4, <1>5, <1>6

\* What a worker, the listener or a user settles is settled once, and as sent
\* only when the message went out.
LEMMA SettlingMoves ==
    ASSUME InductiveInvariant, NEW m \in Messages,
           \/ Send(m) \/ Cancel(m) \/ Reconcile(m)
           \/ \E w \in Workers : ClaimRevoked(w, m) \/ ClaimTooOld(w, m) \/ Finalize(w, m)
    PROVE  [Promised!Next]_(Promised!contractVars)
<1>1. TypeOK /\ status[m] \in Statuses
  BY DEF InductiveInvariant, TypeOK
<1>2. CASE Send(m)
  BY <1>1, <1>2, StatusMove DEF Send, provider
<1>3. CASE Cancel(m)
  BY <1>1, <1>3, StatusMove DEF Cancel, provider
<1>4. CASE Reconcile(m)
  <2>1. CASE status[m] \in Live
    BY <1>1, <1>4, <2>1, StatusMove DEF Reconcile, provider
  <2>2. CASE status[m] \notin Live
    BY <1>4, <2>2, QuietMove DEF Reconcile, provider
  <2>3. QED
    BY <2>1, <2>2
<1>5. ASSUME NEW w \in Workers, ClaimRevoked(w, m) \/ ClaimTooOld(w, m)
      PROVE  [Promised!Next]_(Promised!contractVars)
  BY <1>1, <1>5, StatusMove DEF ClaimRevoked, ClaimTooOld, FailClaim, provider
<1>6. ASSUME NEW w \in Workers, Finalize(w, m)
      PROVE  [Promised!Next]_(Promised!contractVars)
  <2>1. CASE status[m] \notin Live
    BY <1>6, <2>1, QuietMove DEF Finalize, provider
  <2>2. CASE status[m] \in Live
    <3> DEFINE s == Outcome(worker[w].res, worker[w].att)
    <3>1. /\ status' = [status EXCEPT ![m] = s]
          /\ UNCHANGED <<content, started, delivered, bodies>>
      BY <1>6, <2>2 DEF Finalize, provider
    <3>2. CASE s = "sent"
      <4>1. worker[w].res = "ok" /\ worker[w].phase = "called" /\ worker[w].msg = m
        BY <1>6, <3>2 DEF Outcome, Finalize
      <4>2. delivered[m] \in Nat /\ delivered[m] > 0 /\ delivered[m] <= 1
        BY <1>1, <4>1 DEF InductiveInvariant, WorkersAreRight, DeliveredAtMostOnce, TypeOK
      <4>3. delivered[m] = 1
        BY <4>2
      <4>4. QED
        BY <1>1, <2>2, <3>1, <3>2, <4>3, StatusMove
    <3>3. CASE s = "failed"
      BY <1>1, <2>2, <3>1, <3>3, StatusMove
    <3>4. CASE s = "queued"
      <4>1. Told(s) = Told(status[m])
        BY <2>2, <3>4 DEF Told, Live
      <4>2. QED
        BY <1>1, <3>1, <4>1, StatusMove
    <3>5. s \in {"sent", "failed", "queued"}
      BY DEF Outcome
    <3>6. QED
      BY <3>2, <3>3, <3>4, <3>5
  <2>3. QED
    BY <2>1, <2>2
<1>7. QED
  BY <1>2, <1>3, <1>4, <1>5, <1>6

\* Every step is a move of the contract, or invisible to it.
LEMMA StepKeepsPromise ==
    ASSUME InductiveInvariant, MailWasCalled, [Next]_vars
    PROVE  [Promised!Next]_(Promised!contractVars)
<1>1. TypeOK /\ DeliveredAtMostOnce'
  BY DeliveredStep DEF InductiveInvariant
<1>2. CASE UNCHANGED Spoken
  BY <1>2, QuietMove DEF Spoken
<1>3. ASSUME NEW m \in Messages, SaveDraft(m) \/ Send(m) \/ Cancel(m) \/ Reconcile(m)
      PROVE  [Promised!Next]_(Promised!contractVars)
  BY <1>1, <1>3, EditMoves, SettlingMoves
<1>4. ASSUME NEW w \in Workers, NEW m \in Messages,
             \/ Settling(w, m) \/ ClaimSends(w, m)
             \/ \E res \in Results : CallProvider(w, m, res)
      PROVE  [Promised!Next]_(Promised!contractVars)
  BY <1>1, <1>4, SettlingMoves, ClaimMoves, CallMoves DEF Settling
<1>5. QED
  BY <1>2, <1>3, <1>4, StepKinds

\* The routes, the queue, its workers and the provider's memory of a key keep
\* what the sender was promised (communications-routes.ts, -queue.ts).
THEOREM RefinesMessageContract == Spec => KeepsPromise
<1>1. Init => Promised!Init
  BY DEF Init, Promised!Init, Live
<1>2. Init => MailWasCalled
  BY DEF Init, MailWasCalled
<1>3. InductiveInvariant /\ MailWasCalled /\ [Next]_vars => MailWasCalled'
  BY MailStep
<1>4. InductiveInvariant /\ MailWasCalled /\ [Next]_vars =>
        [Promised!Next]_(Promised!contractVars)
  BY StepKeepsPromise
<1>5. QED
  BY Invariance, <1>1, <1>2, <1>3, <1>4, PTL DEF Spec, KeepsPromise, Promised!Spec
=============================================================================
