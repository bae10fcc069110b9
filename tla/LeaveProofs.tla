----------------------------- MODULE LeaveProofs -----------------------------
(***************************************************************************)
(* Proofs about Leave: for every set of employees, requests, shifts and    *)
(* transactions, an open conflict is a clash that exists, a clash is       *)
(* recorded unless two transactions or an unaware route hid it, and        *)
(* decisions are final.                                                    *)
(***************************************************************************)
EXTENDS Leave, FiniteSetTheorems, WellFoundedInduction, TLAPS

\* What ending a transaction leaves of the others: their entries and locks.
LEMMA EndsFrees ==
    ASSUME TypeOK, NEW t \in Txs, Ends(t)
    PROVE  /\ tx' \in [Txs -> Tx]
           /\ requestLock' \in [Requests -> Txs \cup {None}]
           /\ shiftLock' \in [Shifts -> Txs \cup {None}]
           /\ schedule' \in [Employees -> Txs \cup {None}]
           /\ tx'[t] = Idle
           /\ \A u \in Txs \ {t} :
                 /\ tx'[u] = tx[u]
                 /\ \A r \in Requests : requestLock'[r] = u <=> requestLock[r] = u
                 /\ \A s \in Shifts : shiftLock'[s] = u <=> shiftLock[s] = u
                 /\ \A e \in Employees : schedule'[e] = u <=> schedule[e] = u
           /\ \A u \in Txs : tx'[u].op = "idle" => Holds(u)' = {}
<1>1. Idle \in Tx /\ Idle.op = "idle" /\ None \notin Txs
  BY LeaveAssumption DEF Idle, Tx
<1>2. /\ tx' \in [Txs -> Tx] /\ tx'[t] = Idle
      /\ \A u \in Txs \ {t} : tx'[u] = tx[u]
  BY <1>1 DEF TypeOK, Ends
<1>3. /\ requestLock' \in [Requests -> Txs \cup {None}]
      /\ \A r \in Requests : requestLock'[r] # t
      /\ \A u \in Txs \ {t}, r \in Requests : requestLock'[r] = u <=> requestLock[r] = u
  BY <1>1 DEF TypeOK, Ends, Unlocked
<1>4. /\ shiftLock' \in [Shifts -> Txs \cup {None}]
      /\ \A s \in Shifts : shiftLock'[s] # t
      /\ \A u \in Txs \ {t}, s \in Shifts : shiftLock'[s] = u <=> shiftLock[s] = u
  BY <1>1 DEF TypeOK, Ends, Unlocked
<1>5. /\ schedule' \in [Employees -> Txs \cup {None}]
      /\ \A e \in Employees : schedule'[e] # t
      /\ \A u \in Txs \ {t}, e \in Employees : schedule'[e] = u <=> schedule[e] = u
  BY <1>1 DEF TypeOK, Ends, Unlocked
<1>6. ASSUME NEW u \in Txs, tx'[u].op = "idle"
      PROVE  Holds(u)' = {}
  <2>1. CASE u = t
    BY <2>1, <1>3, <1>4, <1>5 DEF Holds
  <2>2. CASE u # t
    <3>1. Holds(u) = {}
      BY <2>2, <1>2, <1>6 DEF TypeOK
    <3>2. QED
      BY <2>2, <3>1, <1>3, <1>4, <1>5 DEF Holds
  <2>3. QED
    BY <2>1, <2>2
<1>7. QED
  BY <1>2, <1>3, <1>4, <1>5, <1>6

\* A step of somebody else leaves what u relies on: it does not touch the rows u
\* has locked, and only decides pending requests or fills in fresh ones.
LEMMA HoldingFrame ==
    ASSUME TypeOK, NEW u \in Txs, Holding(u), tx'[u] = tx[u],
           \A r \in Requests : requestLock[r] = u => requestLock'[r] = u,
           \A s \in Shifts : shiftLock[s] = u => shiftLock'[s] = u /\ shift'[s] = shift[s],
           \A r \in Requests :
              \/ request'[r] = request[r]
              \/ request[r].st = "pending" /\ requestLock[r] # u
              \/ request[r].st = "none" /\ ~(tx[u].op = "create" /\ tx[u].req = r),
           \A w \in Txs \ {u} : tx'[w].op = "create" =>
              tx'[w] = tx[w] \/ tx'[w].req # tx[u].req
    PROVE  Holding(u)'
<1>1. CASE tx[u].op = "idle"
  BY <1>1 DEF Holding
<1>2. CASE tx[u].op = "create"
  BY <1>2 DEF Holding
<1>3. CASE tx[u].op = "approve"
  BY <1>3 DEF Holding
<1>4. CASE tx[u].op = "detect"
  BY <1>4 DEF Holding, Meets
<1>5. CASE tx[u].op = "save"
  BY <1>5 DEF Holding
<1>6. CASE tx[u].op = "written"
  BY <1>6 DEF Holding
<1>7. CASE tx[u].op = "record"
  BY <1>7 DEF Holding, Meets
<1>8. tx[u].op \in {"idle", "create", "approve", "detect", "save", "written", "record"}
  BY DEF TypeOK, Tx
<1>9. QED
  BY <1>1, <1>2, <1>3, <1>4, <1>5, <1>6, <1>7, <1>8

\* The initial state satisfies the inductive invariant.
LEMMA InitEstablishes == Init => InductiveInvariant
<1> SUFFICES ASSUME Init PROVE InductiveInvariant
  OBVIOUS
<1> USE LeaveAssumption DEF Init
<1>1. Idle \in Tx /\ Idle.op = "idle" /\ None \notin Txs
  BY DEF Idle, Tx
<1>2. NoRequest \in Request /\ NoShift \in Shift
  BY DEF NoRequest, NoShift, Request, Shift
<1>3. \A t \in Txs : Holds(t) = {}
  BY <1>1 DEF Holds
<1>4. TypeOK
  BY <1>1, <1>2, <1>3 DEF TypeOK, NoRequest, NoShift, Pairs
<1>5. \A t \in Txs : Holding(t)
  BY <1>1 DEF Holding
<1>6. OpenConflictIsReal /\ ClashIsRecorded
  BY DEF OpenConflictIsReal, ClashIsRecorded, Clash, NoRequest, Pairs
<1>7. NothingMissed
  BY <1>1 DEF NothingMissed, RacesAreNoted, FindsAll, Approvals
<1>8. QED
  BY <1>4, <1>5, <1>6, <1>7 DEF InductiveInvariant

\* A detection nobody disturbs misses nothing: what is new in the tables is noted.
LEMMA FindsAllFrame ==
    ASSUME TypeOK, NEW u \in Txs, Holding(u), FindsAll(u), tx'[u] = tx[u],
           tx[u].op = "detect" =>
              /\ request'[tx[u].req] = request[tx[u].req]
              /\ \A s \in Shifts : \/ shift'[s] = shift[s]
                                    \/ shift'[s].st # "scheduled"
                                    \/ ~Meets(request[tx[u].req], shift'[s])
                                    \/ <<tx[u].req, s>> \in unseen'
              /\ \A s \in Shifts : <<tx[u].req, s>> \in unseen => <<tx[u].req, s>> \in unseen',
           tx[u].op = "record" =>
              /\ \A r \in Requests : \/ request'[r] = request[r]
                                     \/ request'[r].st # "approved"
                                     \/ ~Meets(request'[r], tx[u].row)
                                     \/ <<r, tx[u].sh>> \in unseen'
              /\ \A r \in Requests : <<r, tx[u].sh>> \in unseen => <<r, tx[u].sh>> \in unseen'
    PROVE  FindsAll(u)'
<1>1. CASE tx[u].op = "detect"
  BY <1>1 DEF FindsAll, Meets
<1>2. CASE tx[u].op = "record"
  BY <1>2 DEF FindsAll, Meets
<1>3. CASE tx[u].op \notin {"detect", "record"}
  BY <1>3 DEF FindsAll
<1>4. QED
  BY <1>1, <1>2, <1>3

\* Nobody starts approving or saving: the races stay noted.
LEMMA RacesFrame ==
    ASSUME RacesAreNoted,
           \A w \in Approvals' :
              /\ w \in Approvals /\ tx'[w].req = tx[w].req
              /\ request'[tx[w].req].emp = request[tx[w].req].emp
              /\ request'[tx[w].req].days = request[tx[w].req].days,
           \A w \in Saves' :
              /\ w \in Saves /\ tx'[w].sh = tx[w].sh
              /\ tx'[w].row.emp = tx[w].row.emp /\ tx'[w].row.slot = tx[w].row.slot,
           \A v \in Approvals', w \in Saves' :
              <<tx[v].req, tx[w].sh>> \in unseen => <<tx[v].req, tx[w].sh>> \in unseen'
    PROVE  RacesAreNoted'
BY DEF RacesAreNoted, Meets

\* A step that changes neither a request nor what is noted keeps the races noted.
LEMMA QuietRaces ==
    ASSUME RacesAreNoted, UNCHANGED <<request, unseen>>, NEW t \in Txs,
           \A u \in Txs \ {t} : tx'[u] = tx[u],
           tx'[t].op \in {"approve", "detect"} =>
              tx[t].op \in {"approve", "detect"} /\ tx'[t].req = tx[t].req,
           tx'[t].op \in {"save", "written", "record"} =>
              /\ tx[t].op \in {"save", "written", "record"} /\ tx'[t].sh = tx[t].sh
              /\ tx'[t].row.emp = tx[t].row.emp /\ tx'[t].row.slot = tx[t].row.slot
    PROVE  RacesAreNoted'
<1>1. \A w \in Approvals' : w \in Approvals /\ tx'[w].req = tx[w].req
  BY DEF Approvals
<1>2. \A w \in Saves' : /\ w \in Saves /\ tx'[w].sh = tx[w].sh
                        /\ tx'[w].row.emp = tx[w].row.emp /\ tx'[w].row.slot = tx[w].row.slot
  BY DEF Saves
<1>3. QED
  BY <1>1, <1>2, RacesFrame

\* The conflict table agrees with tables that did not change.
LEMMA TablesFrame ==
    ASSUME OpenConflictIsReal, ClashIsRecorded, UNCHANGED tables, unseen \subseteq unseen'
    PROVE  OpenConflictIsReal' /\ ClashIsRecorded'
BY DEF OpenConflictIsReal, ClashIsRecorded, Clash, tables

\* A step of t that changes no table, given what t itself relies on afterwards.
LEMMA QuietStep ==
    ASSUME InductiveInvariant, TypeOK', UNCHANGED tables, unseen \subseteq unseen',
           NEW t \in Txs, Holding(t)', FindsAll(t)', RacesAreNoted',
           \A u \in Txs \ {t} :
              /\ tx'[u] = tx[u]
              /\ \A r \in Requests : requestLock[r] = u => requestLock'[r] = u
              /\ \A s \in Shifts : shiftLock[s] = u => shiftLock'[s] = u
              /\ tx'[t].op = "create" => tx'[t] = tx[t] \/ tx'[t].req # tx[u].req
                    \/ tx[u].op # "create"
    PROVE  InductiveInvariant'
<1> USE DEF InductiveInvariant
<1>1. ASSUME NEW u \in Txs \ {t}
      PROVE  Holding(u)'
  <2>1. CASE tx[u].op # "create"
    BY <2>1, HoldingFrame DEF tables, Holding, Meets
  <2>2. CASE tx[u].op = "create"
    BY <2>2, HoldingFrame DEF tables
  <2>3. QED
    BY <2>1, <2>2
<1>2. ASSUME NEW u \in Txs \ {t}
      PROVE  FindsAll(u)'
  BY FindsAllFrame DEF tables, NothingMissed
<1>3. OpenConflictIsReal' /\ ClashIsRecorded'
  BY TablesFrame
<1>4. NothingMissed'
  BY <1>2 DEF NothingMissed
<1>5. QED
  BY <1>1, <1>3, <1>4

\* The steps of an approval up to its commit.
LEMMA ApprovalStep ==
    ASSUME InductiveInvariant, NEW t \in Txs,
           \/ \E r \in Requests, seen \in 1..2 : ApproveReads(t, r, seen)
           \/ DetectSelects(t)
           \/ LockShift(t)
    PROVE  InductiveInvariant'
<1> USE DEF InductiveInvariant
<1>0. Idle \in Tx /\ t # None /\ None \notin Txs
  BY LeaveAssumption DEF Idle, Tx
<1>1. ASSUME NEW r \in Requests, NEW seen \in 1..2, ApproveReads(t, r, seen)
      PROVE  InductiveInvariant'
  <2> USE <1>1 DEF ApproveReads
  <2>1. /\ tx'[t] = [Idle EXCEPT !.op = "approve", !.req = r]
        /\ tx' \in [Txs -> Tx]
        /\ \A u \in Txs \ {t} : tx'[u] = tx[u]
    BY <1>0, ZenonT(60) DEF TypeOK, Idle, Tx
  <2>2. /\ requestLock' \in [Requests -> Txs \cup {None}]
        /\ requestLock'[r] = t
        /\ \A q \in Requests \ {r} : requestLock'[q] = requestLock[q]
    BY DEF TypeOK
  <2>3. unseen' \subseteq Pairs /\ unseen \subseteq unseen'
    <3>0. \A u \in Saves : tx[u].sh \in Shifts
      BY DEF Saves, Holding
    <3>1. Saving(request[r]) \subseteq Shifts
      BY <3>0 DEF Saving
    <3>2. QED
      BY <3>1 DEF TypeOK, Pairs
  <2>4. TypeOK'
    <3>1. ASSUME NEW u \in Txs, tx'[u].op = "idle"
          PROVE  Holds(u)' = {}
      <4>1. u # t /\ tx[u].op = "idle"
        BY <2>1, <3>1 DEF Idle
      <4>2. Holds(u) = {}
        BY <4>1 DEF TypeOK
      <4>3. QED
        BY <4>1, <4>2, <2>2 DEF Holds
    <3>2. QED
      BY <2>1, <2>2, <2>3, <3>1 DEF TypeOK, tables
  <2>5. Holding(t)' /\ FindsAll(t)'
    BY <2>1, <2>2 DEF Holding, FindsAll, Idle, tables
  <2>6. RacesAreNoted'
    <3>1. tx'[t].op = "approve" /\ tx'[t].req = r /\ request' = request
      BY <2>1 DEF Idle, tables
    <3>2. \A u \in Saves' : u \in Saves /\ tx'[u] = tx[u]
      BY <2>1, <3>1 DEF Saves
    <3>3. \A u \in Approvals' : u = t \/ (u \in Approvals /\ tx'[u] = tx[u])
      BY <2>1 DEF Approvals
    <3>4. \A u \in Saves : Meets(request[r], tx[u].row) => tx[u].sh \in Saving(request[r])
      BY DEF Saving
    <3>5. \A u \in Saves : Meets(request[r], tx[u].row) => <<r, tx[u].sh>> \in unseen'
      BY <3>4
    <3>6. ASSUME NEW v \in Approvals', NEW u \in Saves',
                 Meets(request'[tx'[v].req], tx'[u].row)
          PROVE  <<tx'[v].req, tx'[u].sh>> \in unseen'
      <4>1. CASE v = t
        BY <4>1, <3>1, <3>2, <3>5, <3>6
      <4>2. CASE v # t
        BY <4>2, <2>3, <3>1, <3>2, <3>3, <3>6 DEF NothingMissed, RacesAreNoted
      <4>3. QED
        BY <4>1, <4>2
    <3>7. QED
      BY <3>6 DEF RacesAreNoted
  <2>7. /\ UNCHANGED tables
        /\ tx'[t].op = "approve"
        /\ \A u \in Txs \ {t} :
              /\ \A q \in Requests : requestLock[q] = u => requestLock'[q] = u
              /\ \A s \in Shifts : shiftLock[s] = u => shiftLock'[s] = u
    <3>1. requestLock[r] = None /\ UNCHANGED <<tables, shiftLock>>
      OBVIOUS
    <3>2. tx'[t].op = "approve"
      BY <2>1 DEF Idle
    <3>3. \A u \in Txs \ {t} : \A q \in Requests : requestLock[q] = u => requestLock'[q] = u
      BY <1>0, <2>2, <3>1
    <3>4. QED
      BY <3>1, <3>2, <3>3
  <2>8. QED
    BY <2>1, <2>3, <2>4, <2>5, <2>6, <2>7, QuietStep
<1>2. CASE DetectSelects(t)
  <2> USE <1>2 DEF DetectSelects
  <2>1. /\ tx'[t].op = "detect" /\ tx'[t].req = tx[t].req /\ tx'[t].found = tx[t].found
        /\ tx'[t].todo = {s \in Shifts : /\ shift[s].st = "scheduled"
                                         /\ Meets(request[tx[t].req], shift[s])}
        /\ tx' \in [Txs -> Tx]
        /\ \A u \in Txs \ {t} : tx'[u] = tx[u]
    <3> DEFINE todo == {s \in Shifts : /\ shift[s].st = "scheduled"
                                       /\ Meets(request[tx[t].req], shift[s])}
    <3>1. /\ tx' = [tx EXCEPT ![t].op = "detect", ![t].todo = todo]
          /\ todo \subseteq Shifts
      OBVIOUS
    <3> HIDE DEF todo
    <3>2. tx \in [Txs -> Tx] /\ tx[t] \in Tx
      BY DEF TypeOK
    <3>3. /\ tx'[t] = [tx[t] EXCEPT !.op = "detect", !.todo = todo]
          /\ \A u \in Txs \ {t} : tx'[u] = tx[u]
      BY <3>1, <3>2
    <3>4. /\ tx'[t].op = "detect" /\ tx'[t].req = tx[t].req
          /\ tx'[t].found = tx[t].found /\ tx'[t].todo = todo
      BY <3>2, <3>3 DEF Tx
    <3>5. tx'[t] \in Tx
      BY <3>1, <3>2, <3>3, ZenonT(60) DEF Tx
    <3>6. tx' \in [Txs -> Tx]
      BY <3>1, <3>2, <3>3, <3>5
    <3>7. QED
      BY <3>3, <3>4, <3>6 DEF todo
  <2>2. TypeOK'
    BY <2>1 DEF TypeOK, tables, locks, Holds
  <2>3. Holding(t)' /\ FindsAll(t)'
    <3>1. /\ requestLock' = requestLock /\ shiftLock' = shiftLock
          /\ shift' = shift /\ request' = request
      BY DEF tables, locks
    <3>2. Holding(t)'
      BY <2>1, <3>1 DEF Holding
    <3>3. FindsAll(t)'
      BY <2>1, <3>1 DEF FindsAll, Meets
    <3>4. QED
      BY <3>2, <3>3
  <2>4. RacesAreNoted'
    BY <2>1, QuietRaces DEF NothingMissed, tables
  <2>5. QED
    BY <2>1, <2>2, <2>3, <2>4, QuietStep DEF locks
<1>3. CASE LockShift(t)
  <2>0. PICK s \in Least(tx[t].todo) :
           /\ shiftLock[s] = None
           /\ shiftLock' = [shiftLock EXCEPT ![s] = t]
           /\ tx' = [tx EXCEPT ![t].todo = @ \ {s},
                        ![t].found = IF /\ shift[s].st = "scheduled"
                                        /\ Meets(request[tx[t].req], shift[s])
                                     THEN @ \cup {s} ELSE @]
    BY <1>3 DEF LockShift
  <2>1. /\ tx[t].op = "detect" /\ s \in tx[t].todo /\ s \in Shifts
        /\ UNCHANGED <<tables, requestLock, schedule, edits, unseen>>
    BY <1>3, <2>0 DEF LockShift, Least, Holding
  <2>2. /\ tx'[t] = [tx[t] EXCEPT !.todo = @ \ {s},
                        !.found = IF /\ shift[s].st = "scheduled"
                                     /\ Meets(request[tx[t].req], shift[s])
                                  THEN @ \cup {s} ELSE @]
        /\ \A u \in Txs \ {t} : tx'[u] = tx[u]
        /\ tx[t] \in Tx
    BY <2>0 DEF TypeOK
  <2>3. /\ tx'[t].op = "detect" /\ tx'[t].req = tx[t].req
        /\ tx'[t].todo = tx[t].todo \ {s}
        /\ \/ tx'[t].found = tx[t].found
           \/ /\ tx'[t].found = tx[t].found \cup {s}
              /\ shift[s].st = "scheduled" /\ Meets(request[tx[t].req], shift[s])
        /\ shift[s].st = "scheduled" /\ Meets(request[tx[t].req], shift[s])
              => s \in tx'[t].found
    BY <2>1, <2>2 DEF Tx
  <2>12. tx'[t] \in Tx
    <3>1. tx'[t].todo \subseteq Requests \cup Shifts /\ tx'[t].found \subseteq Requests \cup Shifts
      BY <2>1, <2>2, <2>3 DEF Tx
    <3>2. tx'[t] = [tx[t] EXCEPT !.todo = tx'[t].todo, !.found = tx'[t].found]
      BY <2>2, <2>3 DEF Tx
    <3>3. QED
      BY <2>2, <3>1, <3>2 DEF Tx
  <2>4. tx' \in [Txs -> Tx]
    BY <2>0, <2>2, <2>3, <2>12 DEF TypeOK
  <2>5. /\ shiftLock' \in [Shifts -> Txs \cup {None}]
        /\ shiftLock'[s] = t
        /\ \A z \in Shifts \ {s} : shiftLock'[z] = shiftLock[z]
    BY <2>0, <2>1 DEF TypeOK
  <2>6. TypeOK'
    <3>1. ASSUME NEW u \in Txs, tx'[u].op = "idle"
          PROVE  Holds(u)' = {}
      <4>1. u # t /\ tx[u].op = "idle"
        BY <2>2, <2>3, <3>1
      <4>2. Holds(u) = {}
        BY <4>1 DEF TypeOK
      <4>3. QED
        BY <4>1, <4>2, <2>1, <2>5 DEF Holds
    <3>2. QED
      BY <2>1, <2>4, <2>5, <3>1 DEF TypeOK, tables
  <2>7. Holding(t)'
    <3>1. \A z \in tx'[t].found : /\ shiftLock'[z] = t /\ shift[z].st = "scheduled"
                                  /\ Meets(request[tx[t].req], shift[z])
      BY <2>1, <2>3, <2>5 DEF Holding
    <3>2. /\ tx'[t].todo \subseteq Shifts /\ tx'[t].found \subseteq Shifts
          /\ tx[t].req \in Requests /\ requestLock[tx[t].req] = t
          /\ request[tx[t].req].st = "pending"
      BY <2>1, <2>3 DEF Holding
    <3>3. QED
      BY <2>1, <2>3, <3>1, <3>2 DEF Holding, Meets, tables
  <2>8. FindsAll(t)'
    <3>1. FindsAll(t)
      BY DEF NothingMissed
    <3>2. QED
      BY <2>1, <2>3, <3>1 DEF FindsAll, tables, Meets
  <2>9. RacesAreNoted'
    BY <2>1, <2>2, <2>3, QuietRaces DEF NothingMissed, tables
  <2>10. \A u \in Txs \ {t} :
            /\ \A q \in Requests : requestLock[q] = u => requestLock'[q] = u
            /\ \A z \in Shifts : shiftLock[z] = u => shiftLock'[z] = u
    BY <1>0, <2>0, <2>1, <2>5
  <2>11. QED
    BY <2>1, <2>2, <2>3, <2>6, <2>7, <2>8, <2>9, <2>10, QuietStep
<1>4. QED
  BY <1>1, <1>2, <1>3

\* A transaction that keeps nothing.
LEMMA RollbackStep ==
    ASSUME InductiveInvariant, NEW t \in Txs, Rollback(t)
    PROVE  InductiveInvariant'
<1> USE DEF InductiveInvariant
<1>1. Ends(t) /\ UNCHANGED <<tables, edits, unseen>>
  BY DEF Rollback
<1>2. /\ tx' \in [Txs -> Tx]
      /\ requestLock' \in [Requests -> Txs \cup {None}]
      /\ shiftLock' \in [Shifts -> Txs \cup {None}]
      /\ schedule' \in [Employees -> Txs \cup {None}]
      /\ tx'[t] = Idle
      /\ \A u \in Txs : tx'[u].op = "idle" => Holds(u)' = {}
  BY <1>1, EndsFrees
<1>3. \A u \in Txs \ {t} :
         /\ tx'[u] = tx[u]
         /\ \A r \in Requests : requestLock[r] = u => requestLock'[r] = u
         /\ \A s \in Shifts : shiftLock[s] = u => shiftLock'[s] = u
  BY <1>1, EndsFrees
<1>4. TypeOK'
  BY <1>1, <1>2 DEF TypeOK, tables
<1>5. Holding(t)' /\ FindsAll(t)'
  BY <1>2 DEF Holding, FindsAll, Idle
<1>6. RacesAreNoted'
  BY <1>1, <1>2, <1>3, QuietRaces DEF NothingMissed, Idle, tables
<1>7. tx'[t].op # "create"
  BY <1>2 DEF Idle
<1>8. QED
  BY <1>1, <1>3, <1>4, <1>5, <1>6, <1>7, QuietStep

\* The overlap check of a new request, which reserves nothing but the id.
LEMMA CreateReadsStep ==
    ASSUME InductiveInvariant, NEW t \in Txs, NEW r \in Requests, NEW e \in Employees,
           NEW x \in Leaves, CreateReads(t, r, e, x)
    PROVE  InductiveInvariant'
<1> USE DEF InductiveInvariant
<1> DEFINE row == [st |-> "pending", emp |-> e, days |-> x, ver |-> 1]
<1>1. /\ tx[t].op = "idle" /\ request[r].st = "none" /\ ~Reserved(r)
      /\ tx' = [tx EXCEPT ![t] = [Idle EXCEPT !.op = "create", !.req = r, !.row = row]]
      /\ UNCHANGED <<tables, locks, edits, unseen>>
  BY DEF CreateReads
<1>2. row \in Request /\ Idle \in Tx
  BY LeaveAssumption DEF Request, Idle, Tx
<1>3. /\ tx'[t] = [Idle EXCEPT !.op = "create", !.req = r, !.row = row]
      /\ \A u \in Txs \ {t} : tx'[u] = tx[u]
  BY <1>1 DEF TypeOK
<1>4. tx'[t].op = "create" /\ tx'[t].req = r /\ tx'[t].row = row
  BY <1>3 DEF Idle
<1>5. tx' \in [Txs -> Tx]
  BY <1>1, <1>2 DEF TypeOK, Tx
<1>6. TypeOK'
  BY <1>1, <1>3, <1>4, <1>5 DEF TypeOK, tables, locks, Holds
<1>7. \A u \in Txs \ {t} : tx[u].op = "create" => tx[u].req # r
  BY <1>1 DEF Reserved
<1>8. Holding(t)' /\ FindsAll(t)'
  BY <1>1, <1>2, <1>3, <1>4, <1>7 DEF Holding, FindsAll, tables
<1>9. RacesAreNoted'
  BY <1>1, <1>3, <1>4, QuietRaces DEF NothingMissed, tables
<1>10. QED
  BY <1>1, <1>3, <1>4, <1>6, <1>7, <1>8, <1>9, QuietStep DEF locks

\* A step leaves the transaction u, its locks and what is noted about it alone.
Kept(u) ==
    /\ tx'[u] = tx[u]
    /\ \A q \in Requests : requestLock[q] = u => requestLock'[q] = u
    /\ \A z \in Shifts : shiftLock[z] = u => shiftLock'[z] = u
    /\ tx[u].op \in {"approve", "detect"} =>
          \A z \in Shifts : <<tx[u].req, z>> \in unseen => <<tx[u].req, z>> \in unseen'
    /\ tx[u].op = "record" =>
          \A q \in Requests : <<q, tx[u].sh>> \in unseen => <<q, tx[u].sh>> \in unseen'

\* It writes no request that u has locked or is about to fill in, and none that a
\* save misses without a note.
KeptFromRequest(u, r) ==
    /\ Kept(u)
    /\ requestLock[r] # u \/ request[r].st = "none"
    /\ request[r].st = "none" => ~(tx[u].op = "create" /\ tx[u].req = r)
    /\ \/ request'[r].st # "approved"
       \/ tx[u].op = "record" /\ Meets(request'[r], tx[u].row)
             => <<r, tx[u].sh>> \in unseen'

\* It writes none of the shifts S that u has locked, none that an approval misses.
KeptFromShifts(u, S) ==
    /\ Kept(u)
    /\ \A z \in S : shiftLock[z] # u
    /\ tx[u].op = "detect" =>
          \A z \in S : \/ shift'[z].st # "scheduled"
                       \/ ~Meets(request[tx[u].req], shift'[z])
                       \/ <<tx[u].req, z>> \in unseen'

\* A step that decides the request r or fills it in, with its own conflicts right.
LEMMA RequestChange ==
    ASSUME InductiveInvariant, TypeOK', shift' = shift,
           NEW r \in Requests,
           \A q \in Requests \ {r} : request'[q] = request[q],
           request[r].st \in {"none", "pending"},
           \A u \in Txs : tx'[u] = Idle \/ KeptFromRequest(u, r),
           OpenConflictIsReal', ClashIsRecorded'
    PROVE  InductiveInvariant'
<1> USE DEF InductiveInvariant, Kept, KeptFromRequest
<1>0. Idle.op = "idle"
  BY DEF Idle
<1>1. ASSUME NEW u \in Txs, tx'[u] # Idle
      PROVE  Holding(u)' /\ FindsAll(u)'
  <2>1. tx'[u] = tx[u]
    BY <1>1
  <2>2. \A w \in Txs \ {u} : tx'[w].op = "create" => tx'[w] = tx[w]
    BY <1>0
  <2>3. Holding(u)'
    BY <1>1, <2>1, <2>2, HoldingFrame, ZenonT(60)
  <2>4. ASSUME tx[u].op = "detect"
        PROVE  request'[tx[u].req] = request[tx[u].req]
    <3>1. requestLock[tx[u].req] = u /\ tx[u].req \in Requests
             /\ request[tx[u].req].st = "pending"
      BY <2>4 DEF Holding
    <3>2. QED
      BY <1>1, <3>1
  <2>5. FindsAll(u)'
    BY <1>1, <2>1, <2>4, FindsAllFrame DEF NothingMissed
  <2>6. QED
    BY <2>3, <2>5
<1>2. ASSUME NEW u \in Txs, tx'[u] = Idle
      PROVE  Holding(u)' /\ FindsAll(u)'
  BY <1>0, <1>2 DEF Holding, FindsAll
<1>3. RacesAreNoted'
  <2>1. \A w \in Txs : tx'[w].op # "idle" => tx'[w] = tx[w]
    BY <1>0
  <2>2. \A w \in Approvals' :
           /\ w \in Approvals /\ tx'[w] = tx[w]
           /\ request'[tx[w].req].emp = request[tx[w].req].emp
           /\ request'[tx[w].req].days = request[tx[w].req].days
    <3>1. ASSUME NEW w \in Approvals'
          PROVE  w \in Approvals /\ tx'[w] = tx[w] /\ request'[tx[w].req] = request[tx[w].req]
      <4>1. w \in Approvals /\ tx'[w] = tx[w] /\ tx'[w] # Idle
        BY <1>0, <2>1, <3>1 DEF Approvals
      <4>2. tx[w].req \in Requests /\ requestLock[tx[w].req] = w
               /\ request[tx[w].req].st = "pending"
        BY <4>1 DEF Approvals, Holding
      <4>3. QED
        BY <4>1, <4>2 DEF Approvals
    <3>2. QED
      BY <3>1
  <2>3. \A w \in Saves' : w \in Saves /\ tx'[w] = tx[w] /\ tx[w].sh \in Shifts
    BY <2>1 DEF Saves, Holding
  <2>4. \A v \in Approvals', w \in Saves' :
           <<tx[v].req, tx[w].sh>> \in unseen => <<tx[v].req, tx[w].sh>> \in unseen'
    BY <1>0, <2>2, <2>3 DEF Approvals
  <2>5. QED
    BY <2>2, <2>3, <2>4, RacesFrame DEF NothingMissed
<1>4. QED
  BY <1>1, <1>2, <1>3 DEF NothingMissed

\* The new request appears.
LEMMA CreateCommitsStep ==
    ASSUME InductiveInvariant, NEW t \in Txs, CreateCommits(t)
    PROVE  InductiveInvariant'
<1> USE DEF InductiveInvariant
<1> DEFINE r == tx[t].req
<1>1. /\ tx[t].op = "create"
      /\ request' = [request EXCEPT ![r] = tx[t].row]
      /\ Ends(t)
      /\ UNCHANGED <<shift, conflict, edits, unseen>>
  BY DEF CreateCommits
<1>2. /\ r \in Requests /\ request[r].st = "none"
      /\ tx[t].row \in Request /\ tx[t].row.st = "pending" /\ tx[t].row.ver = 1
      /\ tx[t].row.emp \in Employees /\ tx[t].row.days \in Leaves
      /\ \A u \in Txs \ {t} : tx[u].op = "create" => tx[u].req # r
  BY <1>1 DEF Holding
<1>3. /\ request' \in [Requests -> Request]
      /\ request'[r] = tx[t].row
      /\ \A q \in Requests \ {r} : request'[q] = request[q]
  BY <1>1, <1>2 DEF TypeOK
<1>4. /\ tx' \in [Txs -> Tx]
      /\ requestLock' \in [Requests -> Txs \cup {None}]
      /\ shiftLock' \in [Shifts -> Txs \cup {None}]
      /\ schedule' \in [Employees -> Txs \cup {None}]
      /\ tx'[t] = Idle
      /\ \A u \in Txs : tx'[u].op = "idle" => Holds(u)' = {}
  BY <1>1, EndsFrees
<1>5. \A u \in Txs \ {t} :
         /\ tx'[u] = tx[u]
         /\ \A q \in Requests : requestLock[q] = u => requestLock'[q] = u
         /\ \A s \in Shifts : shiftLock[s] = u => shiftLock'[s] = u
  BY <1>1, EndsFrees
<1>6. TypeOK'
  BY <1>1, <1>2, <1>3, <1>4 DEF TypeOK
<1>7. OpenConflictIsReal' /\ ClashIsRecorded'
  BY <1>1, <1>2, <1>3 DEF OpenConflictIsReal, ClashIsRecorded, Clash, Pairs
<1>8. QED
  BY <1>1, <1>2, <1>3, <1>4, <1>5, <1>6, <1>7, RequestChange DEF KeptFromRequest, Kept

\* The single statements on a request: a legacy request, a cancellation or
\* rejection, a legacy decision.
LEMMA LegacyCreateStep ==
    ASSUME InductiveInvariant, NEW r \in Requests, NEW e \in Employees, NEW x \in Leaves,
           LegacyCreate(r, e, x)
    PROVE  InductiveInvariant'
<1> USE DEF InductiveInvariant
<1> DEFINE row == [st |-> "pending", emp |-> e, days |-> x, ver |-> 1]
<1>1. /\ request[r].st = "none" /\ ~Reserved(r)
      /\ request' = [request EXCEPT ![r] = row]
      /\ UNCHANGED <<shift, conflict, tx, locks, edits, unseen>>
  BY DEF LegacyCreate
<1>2. row \in Request
  BY DEF Request
<1>3. /\ request' \in [Requests -> Request]
      /\ request'[r] = row
      /\ \A q \in Requests \ {r} : request'[q] = request[q]
  BY <1>1, <1>2 DEF TypeOK
<1>4. TypeOK'
  BY <1>1, <1>3 DEF TypeOK, locks, Holds
<1>5. OpenConflictIsReal' /\ ClashIsRecorded'
  BY <1>1, <1>3 DEF OpenConflictIsReal, ClashIsRecorded, Clash, Pairs
<1>6. QED
  BY <1>1, <1>3, <1>4, <1>5, RequestChange DEF Reserved, locks, KeptFromRequest, Kept

\* A rejection or a cancellation through the current routes.
LEMMA DecidesStep ==
    ASSUME InductiveInvariant, NEW r \in Requests, NEW seen \in 1..2,
           NEW st \in {"cancelled", "rejected"}, Decides(r, seen, st)
    PROVE  InductiveInvariant'
<1> USE DEF InductiveInvariant
<1>1. /\ requestLock[r] = None /\ request[r].st = "pending" /\ request[r].ver = seen
      /\ request' = [request EXCEPT ![r].st = st, ![r].ver = @ + 1]
      /\ UNCHANGED <<shift, conflict, tx, locks, edits, unseen>>
  BY DEF Decides
<1>2. /\ request[r] \in Request /\ request[r].ver = 1
      /\ request[r].emp \in Employees /\ request[r].days \in Leaves
  BY <1>1 DEF TypeOK
<1>3. /\ request'[r] = [st |-> st, emp |-> request[r].emp,
                           days |-> request[r].days, ver |-> 2]
      /\ \A q \in Requests \ {r} : request'[q] = request[q]
  BY <1>1, <1>2 DEF TypeOK, Request
<1>4. /\ request'[r] \in Request /\ request'[r].st = st
      /\ request'[r].emp = request[r].emp /\ request'[r].days = request[r].days
  BY <1>2, <1>3 DEF Request
<1>5. request' \in [Requests -> Request]
  BY <1>1, <1>3, <1>4 DEF TypeOK
<1>6. TypeOK'
  BY <1>1, <1>2, <1>3, <1>4, <1>5 DEF TypeOK, locks, Holds
<1>7. OpenConflictIsReal' /\ ClashIsRecorded'
  <2>1. \A q \in Requests : request'[q].st = "approved" => request'[q] = request[q]
    BY <1>3, <1>4
  <2>2. request[r].st # "approved" /\ UNCHANGED <<shift, conflict, unseen>>
    BY <1>1
  <2>3. \A q \in Requests : request[q].st = "approved" => request'[q] = request[q]
    BY <1>3, <2>2
  <2>4. QED
    BY <2>1, <2>2, <2>3 DEF OpenConflictIsReal, ClashIsRecorded, Clash, Pairs
<1>8. None \notin Txs
  BY LeaveAssumption
<1>9. QED
  BY <1>1, <1>3, <1>4, <1>6, <1>7, <1>8, RequestChange DEF locks, KeptFromRequest, Kept

\* A decision through the legacy route.
LEMMA LegacyStatusStep ==
    ASSUME InductiveInvariant, NEW r \in Requests,
           NEW st \in {"approved", "rejected", "cancelled"}, LegacyStatus(r, st)
    PROVE  InductiveInvariant'
<1> USE DEF InductiveInvariant
<1> DEFINE met == {s \in Shifts : shift[s].st = "scheduled" /\ Meets(request[r], shift[s])}
<1>1. /\ requestLock[r] = None /\ request[r].st = "pending"
      /\ request' = [request EXCEPT ![r].st = st]
      /\ unseen' = IF st = "approved" THEN unseen \cup ({r} \X (Saving(request[r]) \cup met))
                                      ELSE unseen
      /\ UNCHANGED <<shift, conflict, tx, locks, edits>>
  BY DEF LegacyStatus
<1>2. /\ request[r] \in Request
      /\ request[r].emp \in Employees /\ request[r].days \in Leaves
  BY <1>1 DEF TypeOK
<1>3. /\ request'[r] = [request[r] EXCEPT !.st = st]
      /\ \A q \in Requests \ {r} : request'[q] = request[q]
  BY <1>1 DEF TypeOK
<1>4. /\ request'[r] \in Request /\ request'[r].st = st
      /\ request'[r].emp = request[r].emp /\ request'[r].days = request[r].days
  BY <1>2, <1>3 DEF Request
<1>5. request' \in [Requests -> Request]
  BY <1>1, <1>3, <1>4 DEF TypeOK
<1>6. /\ \A u \in Txs : tx[u].op = "record" /\ Meets(request[r], tx[u].row)
                           => tx[u].sh \in Saving(request[r])
      /\ Saving(request[r]) \subseteq Shifts
  <2>1. \A u \in Txs : tx[u].op \in {"save", "written", "record"} => tx[u].sh \in Shifts
    BY DEF Holding
  <2>2. QED
    BY <2>1 DEF Saving, Saves
<1>7. unseen \subseteq unseen' /\ unseen' \subseteq Pairs
  BY <1>1, <1>6 DEF TypeOK, Pairs
<1>8. TypeOK'
  BY <1>1, <1>2, <1>3, <1>4, <1>5, <1>7 DEF TypeOK, locks, Holds
<1>9. OpenConflictIsReal'
  BY <1>1, <1>3, <1>4 DEF OpenConflictIsReal, Clash, Pairs
<1>10. ASSUME NEW p \in Pairs, Clash(p[1], p[2])'
       PROVE  conflict'[p] = "open" \/ p \in unseen'
  <2>1. p = <<p[1], p[2]>> /\ p[1] \in Requests /\ p[2] \in Shifts
    BY DEF Pairs
  <2>2. CASE p[1] = r
    <3>1. st = "approved" /\ p[2] \in met
      BY <1>1, <1>4, <1>10, <2>1, <2>2 DEF Clash, Meets
    <3>2. QED
      BY <1>1, <2>1, <2>2, <3>1
  <2>3. CASE p[1] # r
    BY <1>1, <1>3, <1>7, <1>10, <2>1, <2>3 DEF ClashIsRecorded, Clash
  <2>4. QED
    BY <2>2, <2>3
<1>11. ClashIsRecorded'
  BY <1>10 DEF ClashIsRecorded
<1>12. \A u \in Txs : request'[r].st # "approved"
                        \/ (tx[u].op = "record" /\ Meets(request'[r], tx[u].row)
                               => <<r, tx[u].sh>> \in unseen')
  BY <1>1, <1>4, <1>6 DEF Meets
<1>13. None \notin Txs
  BY LeaveAssumption
<1>14. QED
  BY <1>1, <1>3, <1>7, <1>8, <1>9, <1>11, <1>12, <1>13, RequestChange
     DEF locks, KeptFromRequest, Kept

\* The approval commits with the conflicts it found.
LEMMA ApproveCommitsStep ==
    ASSUME InductiveInvariant, NEW t \in Txs, ApproveCommits(t)
    PROVE  InductiveInvariant'
<1> USE DEF InductiveInvariant
<1> DEFINE r == tx[t].req
<1>1. /\ tx[t].op = "detect" /\ tx[t].todo = {}
      /\ request' = [request EXCEPT ![r].st = "approved", ![r].ver = @ + 1]
      /\ conflict' = Opened(conflict, {r} \X tx[t].found)
      /\ unseen' = unseen \ ({r} \X tx[t].found)
      /\ Ends(t)
      /\ UNCHANGED <<shift, edits>>
  BY DEF ApproveCommits
<1>2. /\ r \in Requests /\ requestLock[r] = t /\ request[r].st = "pending"
      /\ request[r] \in Request /\ request[r].ver = 1
      /\ request[r].emp \in Employees /\ request[r].days \in Leaves
      /\ tx[t].found \subseteq Shifts
      /\ \A s \in tx[t].found : shift[s].st = "scheduled" /\ Meets(request[r], shift[s])
  BY <1>1 DEF TypeOK, Holding
<1>3. /\ request'[r] = [st |-> "approved", emp |-> request[r].emp,
                           days |-> request[r].days, ver |-> 2]
      /\ \A q \in Requests \ {r} : request'[q] = request[q]
  BY <1>1, <1>2 DEF TypeOK, Request
<1>4. /\ request'[r] \in Request /\ request'[r].st = "approved"
      /\ request'[r].emp = request[r].emp /\ request'[r].days = request[r].days
  BY <1>2, <1>3 DEF Request
<1>5. /\ request' \in [Requests -> Request]
      /\ conflict' \in [Pairs -> {"none", "open", "obsolete"}]
  BY <1>1, <1>3, <1>4 DEF TypeOK, Opened
<1>6. /\ tx' \in [Txs -> Tx]
      /\ requestLock' \in [Requests -> Txs \cup {None}]
      /\ shiftLock' \in [Shifts -> Txs \cup {None}]
      /\ schedule' \in [Employees -> Txs \cup {None}]
      /\ tx'[t] = Idle
      /\ \A u \in Txs : tx'[u].op = "idle" => Holds(u)' = {}
  BY <1>1, EndsFrees
<1>7. \A u \in Txs \ {t} :
         /\ tx'[u] = tx[u]
         /\ \A q \in Requests : requestLock[q] = u => requestLock'[q] = u
         /\ \A s \in Shifts : shiftLock[s] = u => shiftLock'[s] = u
  BY <1>1, EndsFrees
<1>8. TypeOK'
  BY <1>1, <1>2, <1>3, <1>4, <1>5, <1>6, ZenonT(60) DEF TypeOK
<1>9. ASSUME NEW p \in Pairs
      PROVE  /\ conflict'[p] = "open" => Clash(p[1], p[2])'
             /\ Clash(p[1], p[2])' => conflict'[p] = "open" \/ p \in unseen'
  <2>1. /\ p = <<p[1], p[2]>> /\ p[1] \in Requests /\ p[2] \in Shifts
        /\ conflict'[p] = IF p \in {r} \X tx[t].found THEN "open" ELSE conflict[p]
    BY <1>1 DEF Pairs, Opened
  <2>2. CASE p[1] = r
    <3>1. conflict[p] # "open"
      BY <1>2, <2>2 DEF OpenConflictIsReal, Clash
    <3>2. Clash(p[1], p[2])' <=> shift[p[2]].st = "scheduled" /\ Meets(request[r], shift[p[2]])
      BY <1>1, <1>4, <2>2 DEF Clash, Meets
    <3>3. \A s \in Shifts : shift[s].st = "scheduled" /\ Meets(request[r], shift[s])
              => s \in tx[t].found \/ <<r, s>> \in unseen
      BY <1>1 DEF NothingMissed, FindsAll
    <3>4. QED
      BY <1>1, <1>2, <2>1, <2>2, <3>1, <3>2, <3>3
  <2>3. CASE p[1] # r
    <3>1. conflict'[p] = conflict[p] /\ request'[p[1]] = request[p[1]]
      BY <1>3, <2>1, <2>3
    <3>2. QED
      BY <1>1, <2>1, <3>1 DEF OpenConflictIsReal, ClashIsRecorded, Clash
  <2>4. QED
    BY <2>2, <2>3
<1>10. OpenConflictIsReal' /\ ClashIsRecorded'
  BY <1>9 DEF OpenConflictIsReal, ClashIsRecorded
<1>11. ASSUME NEW u \in Txs \ {t}
       PROVE  /\ tx[u].op \in {"approve", "detect"} =>
                    \A s \in Shifts : <<tx[u].req, s>> \in unseen => <<tx[u].req, s>> \in unseen'
              /\ tx[u].op = "record" =>
                    \A q \in Requests : <<q, tx[u].sh>> \in unseen => <<q, tx[u].sh>> \in unseen'
              /\ tx[u].op = "record" /\ Meets(request'[r], tx[u].row)
                    => <<r, tx[u].sh>> \in unseen'
  <2>1. tx[u].op \in {"approve", "detect"} => tx[u].req # r
    BY <1>2 DEF Holding
  <2>2. tx[u].op = "record" => tx[u].sh \notin tx[t].found
    BY <1>1 DEF Holding
  <2>3. tx[u].op = "record" /\ Meets(request[r], tx[u].row) => <<r, tx[u].sh>> \in unseen
    BY <1>1 DEF NothingMissed, RacesAreNoted, Approvals, Saves
  <2>4. QED
    BY <1>1, <1>4, <2>1, <2>2, <2>3 DEF Meets
<1>12. \A u \in Txs \ {t} : requestLock[r] # u
  BY <1>2
<1>13. shift' = shift /\ request[r].st # "none"
  BY <1>1, <1>2
<1>14. \A u \in Txs : tx'[u] = Idle \/ KeptFromRequest(u, r)
  BY <1>4, <1>6, <1>7, <1>11, <1>12, <1>13 DEF KeptFromRequest, Kept
<1> HIDE DEF InductiveInvariant, r
<1>15. QED
  BY <1>2, <1>3, <1>8, <1>10, <1>13, <1>14, RequestChange

\* The overlap check of a shift being saved, under the employee's advisory lock.
LEMMA SaveReadsStep ==
    ASSUME InductiveInvariant, NEW t \in Txs, NEW s \in Shifts, NEW e \in Employees,
           NEW y \in Slots, SaveReads(t, s, e, y)
    PROVE  InductiveInvariant'
<1> USE DEF InductiveInvariant
<1> DEFINE row == [st |-> "scheduled", emp |-> e, slot |-> y]
<1>1. /\ tx[t].op = "idle" /\ edits < MaxEdits
      /\ schedule' = [schedule EXCEPT ![e] = t]
      /\ tx' = [tx EXCEPT ![t] = [Idle EXCEPT !.op = "save", !.sh = s, !.row = row]]
      /\ edits' = edits + 1
      /\ unseen' = unseen \cup (Approving(row) \X {s})
      /\ UNCHANGED <<tables, requestLock, shiftLock>>
  BY DEF SaveReads
<1>2. row \in Shift /\ Idle \in Tx
  BY LeaveAssumption DEF Shift, Idle, Tx
<1>3. /\ tx'[t] = [Idle EXCEPT !.op = "save", !.sh = s, !.row = row]
      /\ \A u \in Txs \ {t} : tx'[u] = tx[u]
  BY <1>1 DEF TypeOK
<1>4. /\ tx'[t].op = "save" /\ tx'[t].sh = s /\ tx'[t].row = row
      /\ tx'[t].found = {}
  BY <1>3 DEF Idle
<1>5. tx' \in [Txs -> Tx]
  BY <1>1, <1>2 DEF TypeOK, Tx
<1>6. /\ schedule' \in [Employees -> Txs \cup {None}]
      /\ \A g \in Employees : schedule'[g] = schedule[g] \/ schedule'[g] = t
      /\ edits' \in 0..MaxEdits
  BY <1>1, LeaveAssumption DEF TypeOK
<1>7. /\ unseen \subseteq unseen' /\ unseen' \subseteq Pairs
      /\ \A u \in Approvals : Meets(request[tx[u].req], row) => <<tx[u].req, s>> \in unseen'
  <2>1. Approving(row) \subseteq Requests
    BY DEF Approving, Approvals, Holding
  <2>2. \A u \in Approvals : Meets(request[tx[u].req], row) => tx[u].req \in Approving(row)
    BY DEF Approving
  <2>3. QED
    BY <1>1, <2>1, <2>2 DEF TypeOK, Pairs
<1>8. TypeOK'
  <2>1. ASSUME NEW u \in Txs, tx'[u].op = "idle"
        PROVE  Holds(u)' = {}
    <3>1. u # t /\ tx[u].op = "idle"
      BY <1>3, <1>4, <2>1
    <3>2. Holds(u) = {}
      BY <3>1 DEF TypeOK
    <3>3. QED
      BY <1>1, <1>6, <3>1, <3>2 DEF Holds
  <2>2. QED
    BY <1>1, <1>5, <1>6, <1>7, <2>1 DEF TypeOK, tables
<1>9. Holding(t)' /\ FindsAll(t)'
  BY <1>2, <1>4 DEF Holding, FindsAll
<1>10. RacesAreNoted'
  <2>1. \A v \in Approvals' : v \in Approvals /\ tx'[v] = tx[v]
    BY <1>3, <1>4 DEF Approvals
  <2>2. \A u \in Saves' : u = t \/ (u \in Saves /\ tx'[u] = tx[u])
    BY <1>3 DEF Saves
  <2>3. ASSUME NEW v \in Approvals', NEW u \in Saves',
               Meets(request'[tx'[v].req], tx'[u].row)
        PROVE  <<tx'[v].req, tx'[u].sh>> \in unseen'
    <3>1. CASE u = t
      <4>1. tx'[v].req = tx[v].req /\ v \in Approvals /\ request' = request
        BY <1>1, <2>1 DEF tables
      <4>2. Meets(request[tx[v].req], row)
        BY <1>4, <2>3, <3>1, <4>1
      <4>3. QED
        BY <1>4, <1>7, <3>1, <4>1, <4>2
    <3>2. CASE u # t
      BY <1>1, <1>7, <2>1, <2>2, <2>3, <3>2 DEF NothingMissed, RacesAreNoted, tables
    <3>3. QED
      BY <3>1, <3>2
  <2>4. QED
    BY <2>3 DEF RacesAreNoted
<1>11. QED
  BY <1>1, <1>3, <1>4, <1>7, <1>8, <1>9, <1>10, QuietStep

\* The write of the shift, which waits for its row lock.
LEMMA SaveWritesStep ==
    ASSUME InductiveInvariant, NEW t \in Txs, SaveWrites(t)
    PROVE  InductiveInvariant'
<1> USE DEF InductiveInvariant
<1> DEFINE s == tx[t].sh
           row == IF shift[s].st = "none" THEN tx[t].row
                                          ELSE [tx[t].row EXCEPT !.st = shift[s].st]
<1>1. /\ tx[t].op = "save" /\ shiftLock[s] = None
      /\ shiftLock' = [shiftLock EXCEPT ![s] = t]
      /\ tx' = [tx EXCEPT ![t].op = "written", ![t].row = row]
      /\ UNCHANGED <<tables, requestLock, schedule, edits, unseen>>
  BY DEF SaveWrites
<1>2. /\ s \in Shifts /\ tx[t].row \in Shift /\ tx[t].found = {}
      /\ tx[t].row.st # "none" /\ tx[t].row.emp \in Employees /\ tx[t].row.slot \in Slots
  BY <1>1 DEF Holding
<1>3. /\ row \in Shift /\ row.st # "none"
      /\ row.emp \in Employees /\ row.slot \in Slots
  <2>1. shift[s] \in Shift
    BY <1>2 DEF TypeOK
  <2>2. CASE shift[s].st = "none"
    BY <1>2, <2>2
  <2>3. CASE shift[s].st # "none"
    <3>1. row = [st |-> shift[s].st, emp |-> tx[t].row.emp, slot |-> tx[t].row.slot]
      BY <1>2, <2>3 DEF Shift
    <3>2. QED
      BY <1>2, <2>1, <2>3, <3>1 DEF Shift
  <2>4. QED
    BY <2>2, <2>3
<1>14. row.emp = tx[t].row.emp /\ row.slot = tx[t].row.slot
  BY <1>2 DEF Shift
<1> HIDE DEF row
<1>4. /\ tx'[t] = [tx[t] EXCEPT !.op = "written", !.row = row]
      /\ \A u \in Txs \ {t} : tx'[u] = tx[u]
      /\ tx[t] \in Tx
  BY <1>1 DEF TypeOK
<1>5. /\ tx'[t].op = "written" /\ tx'[t].sh = s /\ tx'[t].row = row
      /\ tx'[t].found = {} /\ tx'[t] \in Tx
  BY <1>2, <1>3, <1>4 DEF Tx
<1>6. tx' \in [Txs -> Tx]
  BY <1>1, <1>4, <1>5 DEF TypeOK
<1>7. /\ shiftLock' \in [Shifts -> Txs \cup {None}]
      /\ shiftLock'[s] = t
      /\ \A z \in Shifts \ {s} : shiftLock'[z] = shiftLock[z]
  BY <1>1, <1>2 DEF TypeOK
<1>8. TypeOK'
  <2>1. ASSUME NEW u \in Txs, tx'[u].op = "idle"
        PROVE  Holds(u)' = {}
    <3>1. u # t /\ tx[u].op = "idle"
      BY <1>4, <1>5, <2>1
    <3>2. Holds(u) = {}
      BY <3>1 DEF TypeOK
    <3>3. QED
      BY <1>1, <1>7, <3>1, <3>2 DEF Holds
  <2>2. QED
    BY <1>1, <1>6, <1>7, <2>1 DEF TypeOK, tables
<1>9. Holding(t)' /\ FindsAll(t)'
  BY <1>2, <1>3, <1>5, <1>7 DEF Holding, FindsAll
<1>10. RacesAreNoted'
  BY <1>1, <1>4, <1>5, <1>14, QuietRaces, ZenonT(60) DEF NothingMissed, tables
<1>11. /\ t # None /\ None \notin Txs
  BY LeaveAssumption
<1>12. \A u \in Txs \ {t} :
          /\ \A r \in Requests : requestLock[r] = u => requestLock'[r] = u
          /\ \A z \in Shifts : shiftLock[z] = u => shiftLock'[z] = u
  BY <1>1, <1>7, <1>11
<1>13. QED
  BY <1>1, <1>4, <1>5, <1>8, <1>9, <1>10, <1>12, QuietStep

\* The selection of the leave the written shift meets.
LEMMA SaveSelectsStep ==
    ASSUME InductiveInvariant, NEW t \in Txs, SaveSelects(t)
    PROVE  InductiveInvariant'
<1> USE DEF InductiveInvariant
<1> DEFINE todo == IF tx[t].row.st = "scheduled"
                   THEN {r \in Requests : /\ request[r].st = "approved"
                                          /\ Meets(request[r], tx[t].row)}
                   ELSE {}
<1>1. /\ tx[t].op = "written"
      /\ tx' = [tx EXCEPT ![t].op = "record", ![t].todo = todo]
      /\ UNCHANGED <<tables, locks, edits, unseen>>
  BY DEF SaveSelects
<1>2. /\ todo \subseteq Requests
      /\ \A r \in todo : /\ request[r].st = "approved" /\ Meets(request[r], tx[t].row)
                         /\ tx[t].row.st = "scheduled"
      /\ tx[t].row.st = "scheduled" =>
            \A r \in Requests : request[r].st = "approved" /\ Meets(request[r], tx[t].row)
                                   => r \in todo
  OBVIOUS
<1> HIDE DEF todo
<1>3. /\ tx'[t] = [tx[t] EXCEPT !.op = "record", !.todo = todo]
      /\ \A u \in Txs \ {t} : tx'[u] = tx[u]
      /\ tx[t] \in Tx
  BY <1>1 DEF TypeOK
<1>4. /\ tx'[t].op = "record" /\ tx'[t].sh = tx[t].sh /\ tx'[t].row = tx[t].row
      /\ tx'[t].todo = todo /\ tx'[t].found = tx[t].found /\ tx'[t] \in Tx
  BY <1>2, <1>3 DEF Tx
<1>5. tx' \in [Txs -> Tx]
  BY <1>1, <1>3, <1>4 DEF TypeOK
<1>6. TypeOK'
  BY <1>1, <1>3, <1>4, <1>5 DEF TypeOK, tables, locks, Holds
<1>7. Holding(t)'
  <2>1. /\ tx[t].sh \in Shifts /\ tx[t].row \in Shift /\ tx[t].found = {}
        /\ tx[t].row.st # "none" /\ tx[t].row.emp \in Employees
        /\ tx[t].row.slot \in Slots /\ shiftLock[tx[t].sh] = t
    BY <1>1 DEF Holding
  <2>2. tx'[t].todo \cup tx'[t].found = todo
    BY <1>4, <2>1
  <2>3. \A r \in todo : /\ request'[r].st = "approved" /\ Meets(request'[r], tx'[t].row)
                         /\ tx'[t].row.st = "scheduled"
    BY <1>1, <1>2, <1>4 DEF tables
  <2>4. QED
    BY <1>1, <1>2, <1>4, <2>1, <2>2, <2>3 DEF Holding, locks, Meets
<1>8. FindsAll(t)'
  BY <1>1, <1>2, <1>4 DEF FindsAll, tables, Meets
<1>9. RacesAreNoted'
  BY <1>1, <1>3, <1>4, QuietRaces DEF NothingMissed, tables
<1>10. QED
  BY <1>1, <1>3, <1>4, <1>6, <1>7, <1>8, <1>9, QuietStep DEF locks

\* The lock on one of them.
LEMMA LockRequestStep ==
    ASSUME InductiveInvariant, NEW t \in Txs, LockRequest(t)
    PROVE  InductiveInvariant'
<1> USE DEF InductiveInvariant
<1>1. PICK r \in Least(tx[t].todo) :
         /\ requestLock[r] = None
         /\ requestLock' = [requestLock EXCEPT ![r] = t]
         /\ tx' = [tx EXCEPT ![t].todo = @ \ {r},
                      ![t].found = IF request[r].st = "approved" THEN @ \cup {r} ELSE @]
  BY DEF LockRequest
<1>2. /\ tx[t].op = "record" /\ r \in tx[t].todo /\ r \in Requests
      /\ request[r].st = "approved"
      /\ UNCHANGED <<tables, shiftLock, schedule, edits, unseen>>
  BY <1>1 DEF LockRequest, Least, Holding
<1>3. /\ tx'[t] = [tx[t] EXCEPT !.todo = @ \ {r}, !.found = @ \cup {r}]
      /\ \A u \in Txs \ {t} : tx'[u] = tx[u]
      /\ tx[t] \in Tx
  BY <1>1, <1>2 DEF TypeOK
<1>4. /\ tx'[t].op = "record" /\ tx'[t].sh = tx[t].sh /\ tx'[t].row = tx[t].row
      /\ tx'[t].todo = tx[t].todo \ {r} /\ tx'[t].found = tx[t].found \cup {r}
  BY <1>2, <1>3 DEF Tx
<1>5. tx'[t] \in Tx
  <2>1. tx'[t].todo \subseteq Requests \cup Shifts /\ tx'[t].found \subseteq Requests \cup Shifts
    BY <1>2, <1>3, <1>4 DEF Tx
  <2>2. tx'[t] = [tx[t] EXCEPT !.todo = tx'[t].todo, !.found = tx'[t].found]
    BY <1>3, <1>4 DEF Tx
  <2>3. QED
    BY <1>3, <2>1, <2>2 DEF Tx
<1>6. tx' \in [Txs -> Tx]
  BY <1>1, <1>3, <1>5 DEF TypeOK
<1>7. /\ requestLock' \in [Requests -> Txs \cup {None}]
      /\ requestLock'[r] = t
      /\ \A q \in Requests \ {r} : requestLock'[q] = requestLock[q]
  BY <1>1, <1>2 DEF TypeOK
<1>8. TypeOK'
  <2>1. ASSUME NEW u \in Txs, tx'[u].op = "idle"
        PROVE  Holds(u)' = {}
    <3>1. u # t /\ tx[u].op = "idle"
      BY <1>3, <1>4, <2>1
    <3>2. Holds(u) = {}
      BY <3>1 DEF TypeOK
    <3>3. QED
      BY <1>2, <1>7, <3>1, <3>2 DEF Holds
  <2>2. QED
    BY <1>2, <1>6, <1>7, <2>1 DEF TypeOK, tables
<1>9. Holding(t)'
  BY <1>2, <1>4 DEF Holding, tables, Meets
<1>10. FindsAll(t)'
  <2>1. FindsAll(t)
    BY DEF NothingMissed
  <2>2. QED
    BY <1>2, <1>4, <2>1 DEF FindsAll, tables, Meets
<1>11. RacesAreNoted'
  BY <1>2, <1>3, <1>4, QuietRaces DEF NothingMissed, tables
<1>12. t # None /\ None \notin Txs
  BY LeaveAssumption
<1>13. \A u \in Txs \ {t} :
          /\ \A q \in Requests : requestLock[q] = u => requestLock'[q] = u
          /\ \A s \in Shifts : shiftLock[s] = u => shiftLock'[s] = u
  BY <1>1, <1>2, <1>7, <1>12
<1>14. QED
  BY <1>2, <1>3, <1>4, <1>8, <1>9, <1>10, <1>11, <1>13, QuietStep

\* A step that writes the shifts S, with their conflicts right.
LEMMA ShiftChange ==
    ASSUME InductiveInvariant, TypeOK', request' = request,
           NEW S \in SUBSET Shifts,
           \A z \in Shifts \ S : shift'[z] = shift[z],
           \A u \in Txs : tx'[u] = Idle \/ KeptFromShifts(u, S),
           OpenConflictIsReal', ClashIsRecorded'
    PROVE  InductiveInvariant'
<1> USE DEF InductiveInvariant, Kept, KeptFromShifts
<1>0. Idle.op = "idle"
  BY DEF Idle
<1>1. ASSUME NEW u \in Txs, tx'[u] # Idle
      PROVE  Holding(u)' /\ FindsAll(u)'
  <2>1. tx'[u] = tx[u]
    BY <1>1
  <2>2. \A w \in Txs \ {u} : tx'[w].op = "create" => tx'[w] = tx[w]
    BY <1>0
  <2>3. \A z \in Shifts : shiftLock[z] = u => shiftLock'[z] = u /\ shift'[z] = shift[z]
    BY <1>1
  <2>4. Holding(u)'
    BY <1>1, <2>1, <2>2, <2>3, HoldingFrame
  <2>5. FindsAll(u)'
    <3>1. tx[u].op = "detect" => tx[u].req \in Requests
      BY DEF Holding
    <3>2. QED
      BY <1>1, <2>1, <3>1, FindsAllFrame DEF NothingMissed
  <2>6. QED
    BY <2>4, <2>5
<1>2. ASSUME NEW u \in Txs, tx'[u] = Idle
      PROVE  Holding(u)' /\ FindsAll(u)'
  BY <1>0, <1>2 DEF Holding, FindsAll
<1>3. RacesAreNoted'
  <2>1. \A w \in Txs : tx'[w].op # "idle" => tx'[w] = tx[w]
    BY <1>0
  <2>2. \A w \in Approvals' :
           /\ w \in Approvals /\ tx'[w] = tx[w]
           /\ request'[tx[w].req].emp = request[tx[w].req].emp
           /\ request'[tx[w].req].days = request[tx[w].req].days
    BY <2>1 DEF Approvals
  <2>3. \A w \in Saves' : w \in Saves /\ tx'[w] = tx[w] /\ tx[w].sh \in Shifts
    BY <2>1 DEF Saves, Holding
  <2>4. \A v \in Approvals', w \in Saves' :
           <<tx[v].req, tx[w].sh>> \in unseen => <<tx[v].req, tx[w].sh>> \in unseen'
    BY <1>0, <2>2, <2>3 DEF Approvals
  <2>5. QED
    BY <2>2, <2>3, <2>4, RacesFrame DEF NothingMissed
<1>4. QED
  BY <1>1, <1>2, <1>3 DEF NothingMissed

\* The save commits: the trigger first, then the conflicts it found.
LEMMA SaveCommitsStep ==
    ASSUME InductiveInvariant, NEW t \in Txs, SaveCommits(t)
    PROVE  InductiveInvariant'
<1> USE DEF InductiveInvariant
<1> DEFINE s == tx[t].sh
           row == tx[t].row
<1>1. /\ tx[t].op = "record" /\ tx[t].todo = {}
      /\ shift' = [shift EXCEPT ![s] = row]
      /\ conflict' = Opened(Obsolete(s, row), tx[t].found \X {s})
      /\ unseen' = unseen \ (tx[t].found \X {s})
      /\ Ends(t)
      /\ UNCHANGED <<request, edits>>
  BY DEF SaveCommits
<1>2. /\ s \in Shifts /\ row \in Shift /\ shiftLock[s] = t
      /\ row.emp \in Employees /\ row.slot \in Slots
      /\ tx[t].found \subseteq Requests
      /\ \A r \in tx[t].found : /\ request[r].st = "approved" /\ Meets(request[r], row)
                                /\ row.st = "scheduled"
  BY <1>1 DEF Holding
<1>3. /\ shift' \in [Shifts -> Shift]
      /\ shift'[s] = row
      /\ \A z \in Shifts \ {s} : shift'[z] = shift[z]
  BY <1>1, <1>2 DEF TypeOK
<1>4. /\ tx' \in [Txs -> Tx]
      /\ requestLock' \in [Requests -> Txs \cup {None}]
      /\ shiftLock' \in [Shifts -> Txs \cup {None}]
      /\ schedule' \in [Employees -> Txs \cup {None}]
      /\ tx'[t] = Idle
      /\ \A u \in Txs : tx'[u].op = "idle" => Holds(u)' = {}
  BY <1>1, EndsFrees
<1>5. \A u \in Txs \ {t} :
         /\ tx'[u] = tx[u]
         /\ \A q \in Requests : requestLock[q] = u => requestLock'[q] = u
         /\ \A z \in Shifts : shiftLock[z] = u => shiftLock'[z] = u
  BY <1>1, EndsFrees
<1>6. \A p \in Pairs :
         conflict'[p] = IF p \in tx[t].found \X {s} THEN "open"
                        ELSE IF /\ p[2] = s /\ conflict[p] = "open"
                                /\ \/ row.st # "scheduled"
                                   \/ request[p[1]].st # "approved"
                                   \/ ~Meets(request[p[1]], row)
                        THEN "obsolete" ELSE conflict[p]
  BY <1>1 DEF Opened, Obsolete
<1>7. conflict' \in [Pairs -> {"none", "open", "obsolete"}]
  BY <1>1 DEF Opened, Obsolete, TypeOK
<1>8. TypeOK'
  BY <1>1, <1>2, <1>3, <1>4, <1>7 DEF TypeOK
<1>9. ASSUME NEW p \in Pairs
      PROVE  /\ conflict'[p] = "open" => Clash(p[1], p[2])'
             /\ Clash(p[1], p[2])' => conflict'[p] = "open" \/ p \in unseen'
  <2>1. p = <<p[1], p[2]>> /\ p[1] \in Requests /\ p[2] \in Shifts
    BY DEF Pairs
  <2>2. CASE p[2] = s
    <3>1. Clash(p[1], p[2])' <=> /\ request[p[1]].st = "approved" /\ row.st = "scheduled"
                                 /\ Meets(request[p[1]], row)
      BY <1>1, <1>3, <2>2 DEF Clash, Meets
    <3>2. Clash(p[1], p[2])' => p[1] \in tx[t].found \/ p \in unseen
      BY <1>1, <2>1, <2>2, <3>1 DEF NothingMissed, FindsAll
    <3>3. Clash(p[1], p[2])' => conflict'[p] = "open" \/ p \in unseen'
      BY <1>1, <1>6, <2>1, <2>2, <3>2
    <3>4. conflict'[p] = "open" => Clash(p[1], p[2])'
      BY <1>2, <1>6, <2>1, <2>2, <3>1
    <3>5. QED
      BY <3>3, <3>4
  <2>3. CASE p[2] # s
    <3>1. conflict'[p] = conflict[p] /\ shift'[p[2]] = shift[p[2]]
      BY <1>3, <1>6, <2>1, <2>3
    <3>2. p \in unseen => p \in unseen'
      BY <1>1, <2>1, <2>3
    <3>3. QED
      BY <1>1, <2>1, <3>1, <3>2 DEF OpenConflictIsReal, ClashIsRecorded, Clash
  <2>4. QED
    BY <2>2, <2>3
<1>10. OpenConflictIsReal' /\ ClashIsRecorded'
  BY <1>9 DEF OpenConflictIsReal, ClashIsRecorded
<1>11. ASSUME NEW u \in Txs \ {t}
       PROVE  /\ tx[u].op = "detect" => \/ ~Meets(request[tx[u].req], row)
                                         \/ <<tx[u].req, s>> \in unseen'
              /\ tx[u].op \in {"approve", "detect"} =>
                    \A z \in Shifts : <<tx[u].req, z>> \in unseen => <<tx[u].req, z>> \in unseen'
              /\ tx[u].op = "record" =>
                    \A q \in Requests : <<q, tx[u].sh>> \in unseen => <<q, tx[u].sh>> \in unseen'
  <2>1. tx[u].op \in {"approve", "detect"} => tx[u].req \notin tx[t].found
    BY <1>2 DEF Holding
  <2>2. tx[u].op = "record" => tx[u].sh # s
    BY <1>2 DEF Holding
  <2>3. tx[u].op = "detect" /\ Meets(request[tx[u].req], row) => <<tx[u].req, s>> \in unseen
    BY <1>1 DEF NothingMissed, RacesAreNoted, Approvals, Saves
  <2>4. QED
    BY <1>1, <2>1, <2>2, <2>3
<1>12. \A u \in Txs \ {t} : shiftLock[s] # u
  BY <1>2
<1>13. request' = request /\ {s} \in SUBSET Shifts
  BY <1>1, <1>2
<1> HIDE DEF s, row
<1>14. \A u \in Txs : tx'[u] = Idle \/ KeptFromShifts(u, {s})
  BY <1>3, <1>4, <1>5, <1>11, <1>12 DEF KeptFromShifts, Kept
<1>15. \A v \in Shifts \ {s} : shift'[v] = shift[v]
  BY <1>3
<1> HIDE DEF InductiveInvariant
<1>16. QED
  BY <1>8, <1>10, <1>13, <1>14, <1>15, ShiftChange

\* The cancellation of a shift.
LEMMA CancelShiftStep ==
    ASSUME InductiveInvariant, NEW s \in Shifts, CancelShift(s)
    PROVE  InductiveInvariant'
<1> USE DEF InductiveInvariant
<1>1. /\ edits < MaxEdits /\ shift[s].st # "none" /\ shiftLock[s] = None
      /\ shift' = [shift EXCEPT ![s].st = "cancelled"]
      /\ conflict' = Obsolete(s, shift'[s])
      /\ edits' = edits + 1
      /\ UNCHANGED <<request, tx, locks, unseen>>
  BY DEF CancelShift
<1>2. shift[s] \in Shift /\ shift[s].emp \in Employees /\ shift[s].slot \in Slots
  BY <1>1 DEF TypeOK
<1>3. /\ shift'[s] = [st |-> "cancelled", emp |-> shift[s].emp, slot |-> shift[s].slot]
      /\ \A z \in Shifts \ {s} : shift'[z] = shift[z]
  BY <1>1, <1>2 DEF TypeOK, Shift
<1>4. shift' \in [Shifts -> Shift]
  BY <1>1, <1>2, <1>3 DEF TypeOK, Shift
<1>5. conflict' \in [Pairs -> {"none", "open", "obsolete"}] /\ edits' \in 0..MaxEdits
  BY <1>1, LeaveAssumption DEF TypeOK, Obsolete
<1>6. TypeOK'
  BY <1>1, <1>2, <1>3, <1>4, <1>5 DEF TypeOK, locks, Holds
<1>7. ASSUME NEW p \in Pairs
      PROVE  /\ conflict'[p] = "open" => Clash(p[1], p[2])'
             /\ Clash(p[1], p[2])' => conflict'[p] = "open" \/ p \in unseen'
  <2>1. p[1] \in Requests /\ p[2] \in Shifts
    BY DEF Pairs
  <2>2. CASE p[2] = s
    BY <1>1, <1>3, <2>2 DEF Obsolete, Clash
  <2>3. CASE p[2] # s
    <3>1. conflict'[p] = conflict[p] /\ shift'[p[2]] = shift[p[2]]
      BY <1>1, <1>3, <2>1, <2>3 DEF Obsolete
    <3>2. QED
      BY <1>1, <2>1, <3>1 DEF OpenConflictIsReal, ClashIsRecorded, Clash
  <2>4. QED
    BY <2>2, <2>3
<1>8. OpenConflictIsReal' /\ ClashIsRecorded'
  BY <1>7 DEF OpenConflictIsReal, ClashIsRecorded
<1>9. None \notin Txs /\ {s} \in SUBSET Shifts
  BY LeaveAssumption
<1>10. \A u \in Txs : tx'[u] = Idle \/ KeptFromShifts(u, {s})
  BY <1>1, <1>3, <1>9 DEF locks, KeptFromShifts, Kept
<1>11. /\ \A v \in Shifts \ {s} : shift'[v] = shift[v]
       /\ request' = request
  BY <1>1, <1>3
<1> HIDE DEF InductiveInvariant
<1>12. QED
  BY <1>6, <1>8, <1>9, <1>10, <1>11, ShiftChange

\* The exchange of the owners of two shifts.
LEMMA SwapOwnersStep ==
    ASSUME InductiveInvariant, NEW s \in Shifts, NEW z \in Shifts \ {s}, SwapOwners(s, z)
    PROVE  InductiveInvariant'
<1> USE DEF InductiveInvariant
<1>1. /\ edits < MaxEdits
      /\ shift[s].st = "scheduled" /\ shift[z].st = "scheduled"
      /\ shiftLock[s] = None /\ shiftLock[z] = None
      /\ shift' = [shift EXCEPT ![s].emp = shift[z].emp, ![z].emp = shift[s].emp]
      /\ conflict' = [p \in Pairs |-> IF p[2] = s THEN Obsolete(s, shift'[s])[p]
                                                  ELSE Obsolete(z, shift'[z])[p]]
      /\ edits' = edits + 1
      /\ unseen' = unseen \cup
            {p \in Requests \X {s, z} :
                \/ p[1] \in Approving(shift'[p[2]])
                \/ request[p[1]].st = "approved" /\ Meets(request[p[1]], shift'[p[2]])}
      /\ UNCHANGED <<request, tx, locks>>
  BY DEF SwapOwners
<1>2. /\ shift[s] \in Shift /\ shift[s].emp \in Employees /\ shift[s].slot \in Slots
      /\ shift[z] \in Shift /\ shift[z].emp \in Employees /\ shift[z].slot \in Slots
  BY <1>1 DEF TypeOK
<1>3. /\ shift'[s] = [st |-> "scheduled", emp |-> shift[z].emp, slot |-> shift[s].slot]
      /\ shift'[z] = [st |-> "scheduled", emp |-> shift[s].emp, slot |-> shift[z].slot]
      /\ \A v \in Shifts \ {s, z} : shift'[v] = shift[v]
  BY <1>1, <1>2 DEF TypeOK, Shift
<1>4. shift'[s] \in Shift /\ shift'[z] \in Shift
  BY <1>2, <1>3 DEF Shift
<1>17. shift'[s].st = "scheduled" /\ shift'[z].st = "scheduled"
  BY <1>3
<1>5. shift' \in [Shifts -> Shift]
  <2>1. shift' \in [Shifts -> {shift'[v] : v \in Shifts}]
    BY <1>1 DEF TypeOK
  <2>2. \A v \in Shifts : shift'[v] \in Shift
    BY <1>3, <1>4 DEF TypeOK
  <2>3. QED
    BY <2>1, <2>2
<1>6. \A p \in Pairs :
         conflict'[p] = IF /\ p[2] \in {s, z} /\ conflict[p] = "open"
                           /\ \/ request[p[1]].st # "approved"
                              \/ ~Meets(request[p[1]], shift'[p[2]])
                        THEN "obsolete" ELSE conflict[p]
  <2>1. ASSUME NEW p \in Pairs, p[2] = s
        PROVE  conflict'[p] = Obsolete(s, shift'[s])[p]
    BY <1>1, <2>1
  <2>2. ASSUME NEW p \in Pairs, p[2] # s
        PROVE  conflict'[p] = Obsolete(z, shift'[z])[p]
    BY <1>1, <2>2
  <2>3. shift'[s].st = "scheduled" /\ shift'[z].st = "scheduled"
    BY <1>3
  <2>4. QED
    BY <2>1, <2>2, <2>3 DEF Obsolete
<1>7. conflict' \in [Pairs -> {"none", "open", "obsolete"}] /\ edits' \in 0..MaxEdits
  <2>1. \A p \in Pairs : conflict'[p] \in {"none", "open", "obsolete"}
    BY <1>6 DEF TypeOK
  <2>2. conflict' \in [Pairs -> {"none", "open", "obsolete"}]
    BY <1>1, <2>1
  <2>3. MaxEdits \in Nat /\ edits \in 0..MaxEdits
    BY LeaveAssumption DEF TypeOK
  <2>4. edits < MaxEdits /\ edits' = edits + 1
    BY DEF SwapOwners
  <2>5. QED
    BY <2>2, <2>3, <2>4
<1>8. unseen \subseteq unseen' /\ unseen' \subseteq Pairs
  BY <1>1 DEF TypeOK, Pairs
<1>9. TypeOK'
  BY <1>1, <1>2, <1>3, <1>5, <1>7, <1>8, SMTT(30) DEF TypeOK, locks, Holds
<1>10. ASSUME NEW p \in Pairs
       PROVE  /\ conflict'[p] = "open" => Clash(p[1], p[2])'
              /\ Clash(p[1], p[2])' => conflict'[p] = "open" \/ p \in unseen'
  <2>1. p = <<p[1], p[2]>> /\ p[1] \in Requests /\ p[2] \in Shifts
    BY DEF Pairs
  <2>2. CASE p[2] \in {s, z}
    <3>1. Clash(p[1], p[2])' <=> /\ request[p[1]].st = "approved"
                                 /\ Meets(request[p[1]], shift'[p[2]])
      <4>1. shift'[p[2]].st = "scheduled" /\ request'[p[1]] = request[p[1]]
        BY <1>1, <1>17, <2>2
      <4>2. QED
        BY <4>1 DEF Clash, Meets
    <3>2. Clash(p[1], p[2])' => p \in unseen'
      BY <1>1, <2>1, <2>2, <3>1
    <3>3. conflict'[p] = "open" => Clash(p[1], p[2])'
      BY <1>6, <2>2, <3>1
    <3>4. QED
      BY <3>2, <3>3
  <2>3. CASE p[2] \notin {s, z}
    <3>1. conflict'[p] = conflict[p] /\ shift'[p[2]] = shift[p[2]]
      BY <1>3, <1>6, <2>1, <2>3
    <3>2. QED
      BY <1>1, <1>8, <2>1, <3>1, ZenonT(60) DEF OpenConflictIsReal, ClashIsRecorded, Clash
  <2>4. QED
    BY <2>2, <2>3
<1>11. OpenConflictIsReal' /\ ClashIsRecorded'
  BY <1>10 DEF OpenConflictIsReal, ClashIsRecorded
<1>12. \A u \in Txs : tx[u].op = "detect" =>
          \A v \in {s, z} : \/ ~Meets(request[tx[u].req], shift'[v])
                            \/ <<tx[u].req, v>> \in unseen'
  <2>1. \A u \in Txs, v \in {s, z} : tx[u].op = "detect" /\ Meets(request[tx[u].req], shift'[v])
           => tx[u].req \in Approving(shift'[v]) /\ tx[u].req \in Requests
    BY DEF Approving, Approvals, Holding
  <2>2. QED
    BY <1>1, <2>1
<1>13. None \notin Txs /\ {s, z} \in SUBSET Shifts
  BY LeaveAssumption
<1>14. \A u \in Txs : tx'[u] = Idle \/ KeptFromShifts(u, {s, z})
  BY <1>1, <1>8, <1>12, <1>13, ZenonT(60) DEF locks, KeptFromShifts, Kept
<1>15. /\ \A v \in Shifts \ {s, z} : shift'[v] = shift[v]
       /\ request' = request
  BY <1>1, <1>3
<1> HIDE DEF InductiveInvariant
<1>16. QED
  BY <1>8, <1>9, <1>11, <1>13, <1>14, <1>15, ShiftChange

\* Every step preserves the inductive invariant.
LEMMA StepPreserves == InductiveInvariant /\ [Next]_vars => InductiveInvariant'
<1> SUFFICES ASSUME InductiveInvariant, [Next]_vars PROVE InductiveInvariant'
  OBVIOUS
<1>1. CASE UNCHANGED vars
  BY <1>1 DEF vars, tables, locks, InductiveInvariant, TypeOK, Holding, Holds, Meets, Clash,
              OpenConflictIsReal, ClashIsRecorded, NothingMissed, RacesAreNoted, FindsAll,
              Approvals, Saves
<1>2. ASSUME NEW t \in Txs,
             \/ \E r \in Requests, e \in Employees, x \in Leaves : CreateReads(t, r, e, x)
             \/ CreateCommits(t)
             \/ Rollback(t)
      PROVE  InductiveInvariant'
  BY <1>2, CreateReadsStep, CreateCommitsStep, RollbackStep
<1>3. ASSUME NEW t \in Txs,
             \/ \E r \in Requests, seen \in 1..2 : ApproveReads(t, r, seen)
             \/ DetectSelects(t)
             \/ LockShift(t)
             \/ ApproveCommits(t)
      PROVE  InductiveInvariant'
  BY <1>3, ApprovalStep, ApproveCommitsStep
<1>4. ASSUME NEW t \in Txs,
             \/ \E s \in Shifts, e \in Employees, y \in Slots : SaveReads(t, s, e, y)
             \/ SaveWrites(t)
             \/ SaveSelects(t)
             \/ LockRequest(t)
             \/ SaveCommits(t)
      PROVE  InductiveInvariant'
  BY <1>4, SaveReadsStep, SaveWritesStep, SaveSelectsStep, LockRequestStep, SaveCommitsStep
<1>5. ASSUME NEW r \in Requests,
             \/ \E e \in Employees, x \in Leaves : LegacyCreate(r, e, x)
             \/ \E seen \in 1..2 : Cancel(r, seen) \/ Reject(r, seen)
             \/ \E st \in {"approved", "rejected", "cancelled"} : LegacyStatus(r, st)
      PROVE  InductiveInvariant'
  BY <1>5, LegacyCreateStep, DecidesStep, LegacyStatusStep DEF Cancel, Reject
<1>6. ASSUME NEW s \in Shifts,
             CancelShift(s) \/ \E z \in Shifts \ {s} : SwapOwners(s, z)
      PROVE  InductiveInvariant'
  BY <1>6, CancelShiftStep, SwapOwnersStep
<1>7. CASE Next
  <2>1. \/ \E t \in Txs : TxStep(t)
        \/ \E r \in Requests : RequestStep(r)
        \/ \E s \in Shifts : ShiftStep(s)
    BY <1>7 DEF Next, TxStep, RequestStep, ShiftStep
  <2>2. ASSUME NEW t \in Txs, TxStep(t)
        PROVE  InductiveInvariant'
    BY <1>2, <1>3, <1>4, <2>2 DEF TxStep
  <2>3. ASSUME NEW r \in Requests, RequestStep(r)
        PROVE  InductiveInvariant'
    BY <1>5, <2>3 DEF RequestStep
  <2>4. ASSUME NEW s \in Shifts, ShiftStep(s)
        PROVE  InductiveInvariant'
    BY <1>6, <2>4 DEF ShiftStep
  <2>5. QED
    BY <2>1, <2>2, <2>3, <2>4
<1>8. QED
  BY <1>1, <1>7

\* The inductive invariant holds for every tenant: types, what running
\* transactions rely on, and both halves of the conflict table.
THEOREM Invariance == Spec => []InductiveInvariant
BY InitEstablishes, StepPreserves, PTL DEF Spec

\* Every row and lock stays well formed; an idle transaction holds no lock.
THEOREM TypeCorrect == Spec => []TypeOK
<1>1. InductiveInvariant => TypeOK
  BY DEF InductiveInvariant
<1>2. QED
  BY <1>1, Invariance, PTL

\* However approvals, roster edits, cancellations and swaps interleave, an open
\* row of leave_roster_conflicts is a clash that exists.
THEOREM ConflictsAreReal == Spec => []OpenConflictIsReal
<1>1. InductiveInvariant => OpenConflictIsReal
  BY DEF InductiveInvariant
<1>2. QED
  BY <1>1, Invariance, PTL

\* A clash that the approval or the roster edit could see is an open conflict.
THEOREM ClashesAreRecorded == Spec => []ClashIsRecorded
<1>1. InductiveInvariant => ClashIsRecorded
  BY DEF InductiveInvariant
<1>2. QED
  BY <1>1, Invariance, PTL

\* No step moves a request that was decided, through whichever route and however
\* long ago its transaction began.
LEMMA StepKeepsDecisions ==
    ASSUME InductiveInvariant, [Next]_vars, NEW q \in Requests,
           request[q].st \notin {"none", "pending"}
    PROVE  request'[q] = request[q]
<1> USE DEF InductiveInvariant
<1>1. CASE request' = request
  BY <1>1
<1>2. ASSUME NEW t \in Txs, CreateCommits(t)
      PROVE  request'[q] = request[q]
  <2>1. request[tx[t].req].st = "none" /\ request' = [request EXCEPT ![tx[t].req] = tx[t].row]
    BY <1>2 DEF CreateCommits, Holding
  <2>2. QED
    BY <2>1 DEF TypeOK
<1>3. ASSUME NEW t \in Txs, ApproveCommits(t)
      PROVE  request'[q] = request[q]
  <2>1. /\ request[tx[t].req].st = "pending"
        /\ request' = [request EXCEPT ![tx[t].req].st = "approved", ![tx[t].req].ver = @ + 1]
    BY <1>3 DEF ApproveCommits, Holding
  <2>2. QED
    BY <2>1 DEF TypeOK
<1>4. ASSUME NEW r \in Requests, NEW e \in Employees, NEW x \in Leaves, LegacyCreate(r, e, x)
      PROVE  request'[q] = request[q]
  BY <1>4 DEF LegacyCreate, TypeOK
<1>5. ASSUME NEW r \in Requests, NEW seen \in 1..2, Cancel(r, seen) \/ Reject(r, seen)
      PROVE  request'[q] = request[q]
  BY <1>5 DEF Cancel, Reject, Decides, TypeOK
<1>6. ASSUME NEW r \in Requests, NEW st \in {"approved", "rejected", "cancelled"},
             LegacyStatus(r, st)
      PROVE  request'[q] = request[q]
  BY <1>6 DEF LegacyStatus, TypeOK
<1>7. CASE \E t \in Txs : TxStep(t)
  <2>1. PICK t \in Txs : TxStep(t)
    BY <1>7
  <2>2. ASSUME NEW r \in Requests, NEW e \in Employees, NEW x \in Leaves, CreateReads(t, r, e, x)
        PROVE  request' = request
    BY <2>2 DEF CreateReads, tables
  <2>3. ASSUME NEW r \in Requests, NEW seen \in 1..2, ApproveReads(t, r, seen)
        PROVE  request' = request
    BY <2>3 DEF ApproveReads, tables
  <2>4. DetectSelects(t) \/ LockShift(t) \/ LockRequest(t) => request' = request
    BY DEF DetectSelects, LockShift, LockRequest, tables
  <2>5. ASSUME NEW s \in Shifts, NEW e \in Employees, NEW y \in Slots, SaveReads(t, s, e, y)
        PROVE  request' = request
    BY <2>5 DEF SaveReads, tables
  <2>6. SaveWrites(t) \/ SaveSelects(t) => request' = request
    BY DEF SaveWrites, SaveSelects, tables
  <2>7. SaveCommits(t) \/ Rollback(t) => request' = request
    BY DEF SaveCommits, Rollback, tables
  <2>8. CreateCommits(t) \/ ApproveCommits(t) \/ request' = request
    BY <2>1, <2>2, <2>3, <2>4, <2>5, <2>6, <2>7 DEF TxStep
  <2>9. QED
    BY <1>1, <1>2, <1>3, <2>8
<1>8. CASE \E r \in Requests : RequestStep(r)
  BY <1>4, <1>5, <1>6, <1>8 DEF RequestStep
<1>9. CASE \E s \in Shifts : ShiftStep(s)
  BY <1>1, <1>9 DEF ShiftStep, CancelShift, SwapOwners
<1>10. CASE UNCHANGED vars
  BY <1>10 DEF vars, tables
<1>11. QED
  BY <1>7, <1>8, <1>9, <1>10 DEF Next

\* An approved, rejected or cancelled request is never moved and its dates never
\* change, through the routes with a version and through those without.
THEOREM DecisionIsFinal == Spec => DecisionsAreFinal
<1>1. InductiveInvariant /\ [Next]_vars =>
         [\A r \in Requests : request[r].st \notin {"none", "pending"}
                                 => request'[r] = request[r]]_vars
  BY StepKeepsDecisions
<1>2. QED
  BY <1>1, Invariance, PTL DEF Spec, DecisionsAreFinal

-----------------------------------------------------------------------------
(* Nobody waits in a circle.                                               *)

\* A transaction locks rows in the order of their ids, behind the one row its
\* work is about.
LocksInOrder(t) ==
    /\ \A s \in Shifts : shiftLock[s] = t =>
          \/ tx[t].op = "detect" /\ (\A m \in tx[t].todo : s < m)
          \/ tx[t].op \in {"written", "record"} /\ s = tx[t].sh
    /\ \A r \in Requests : requestLock[r] = t =>
          \/ tx[t].op \in {"approve", "detect"} /\ r = tx[t].req
          \/ tx[t].op = "record" /\ (\A m \in tx[t].todo : r < m)

OrderInvariant == InductiveInvariant /\ \A t \in Txs : LocksInOrder(t)

\* What the others do leaves the locks of u, and its work, as they are.
LEMMA OrderFrame ==
    ASSUME NEW u, LocksInOrder(u), tx'[u] = tx[u],
           \A s \in Shifts : shiftLock'[s] = u => shiftLock[s] = u,
           \A r \in Requests : requestLock'[r] = u => requestLock[r] = u
    PROVE  LocksInOrder(u)'
BY DEF LocksInOrder

\* A transaction that ends keeps no lock.
LEMMA EndsInOrder ==
    ASSUME OrderInvariant, NEW t \in Txs, Ends(t) PROVE \A u \in Txs : LocksInOrder(u)'
<1>1. TypeOK /\ \A u \in Txs : LocksInOrder(u)
  BY DEF OrderInvariant, InductiveInvariant
<1> SUFFICES ASSUME NEW u \in Txs PROVE LocksInOrder(u)'
  OBVIOUS
<1>2. CASE u = t
  <2>1. tx'[u].op = "idle"
    BY <1>1, <1>2, EndsFrees DEF Idle
  <2>2. Holds(u)' = {}
    BY <1>1, <2>1, EndsFrees
  <2>3. QED
    BY <2>2 DEF LocksInOrder, Holds
<1>3. CASE u # t
  BY <1>1, <1>3, EndsFrees, OrderFrame
<1>4. QED
  BY <1>2, <1>3

\* A step that fills in some fields of t leaves its other fields, and the others.
LEMMA WorkSelects ==
    ASSUME TypeOK, NEW t \in Txs, NEW op, NEW todo,
           tx' = [tx EXCEPT ![t].op = op, ![t].todo = todo]
    PROVE  /\ \A u \in Txs : u # t => tx'[u] = tx[u]
           /\ tx'[t].req = tx[t].req /\ tx'[t].sh = tx[t].sh
           /\ tx'[t].op = op /\ tx'[t].todo = todo
<1>1. tx \in [Txs -> Tx] /\ tx[t] \in Tx
  BY DEF TypeOK
<1>2. QED
  BY <1>1 DEF Tx

\* Updating a transaction's worklist leaves what it locked alone.
LEMMA WorkLocks ==
    ASSUME TypeOK, NEW t \in Txs, NEW todo, NEW found,
           tx' = [tx EXCEPT ![t].todo = todo, ![t].found = found]
    PROVE  /\ \A u \in Txs : u # t => tx'[u] = tx[u]
           /\ tx'[t].req = tx[t].req /\ tx'[t].sh = tx[t].sh
           /\ tx'[t].op = tx[t].op /\ tx'[t].todo = todo
<1>1. tx \in [Txs -> Tx] /\ tx[t] \in Tx
  BY DEF TypeOK
<1>2. QED
  BY <1>1 DEF Tx

\* Moving a transaction to its next write leaves what it locked alone.
LEMMA WorkWrites ==
    ASSUME TypeOK, NEW t \in Txs, NEW op, NEW row,
           tx' = [tx EXCEPT ![t].op = op, ![t].row = row]
    PROVE  /\ \A u \in Txs : u # t => tx'[u] = tx[u]
           /\ tx'[t].req = tx[t].req /\ tx'[t].sh = tx[t].sh /\ tx'[t].op = op
<1>1. tx \in [Txs -> Tx] /\ tx[t] \in Tx
  BY DEF TypeOK
<1>2. QED
  BY <1>1 DEF Tx

\* What locking a shift changes: the lock and one entry of the worklist.
LEMMA ShiftIsLocked ==
    ASSUME TypeOK, NEW t \in Txs, LockShift(t)
    PROVE  /\ tx[t].op = "detect" /\ tx'[t].op = "detect" /\ tx'[t].req = tx[t].req
           /\ \A u \in Txs : u # t => tx'[u] = tx[u]
           /\ requestLock' = requestLock
           /\ \E s \in Least(tx[t].todo) :
                 /\ shiftLock' = [shiftLock EXCEPT ![s] = t]
                 /\ tx'[t].todo = tx[t].todo \ {s}
<1>1. PICK s \in Least(tx[t].todo) :
          /\ shiftLock' = [shiftLock EXCEPT ![s] = t]
          /\ tx' = [tx EXCEPT ![t].todo = @ \ {s},
                        ![t].found = IF /\ shift[s].st = "scheduled"
                                        /\ Meets(request[tx[t].req], shift[s])
                                     THEN @ \cup {s} ELSE @]
  BY DEF LockShift
<1>2. PICK todo, found : /\ todo = tx[t].todo \ {s}
                         /\ tx' = [tx EXCEPT ![t].todo = todo, ![t].found = found]
  BY <1>1
<1>3. /\ \A u \in Txs : u # t => tx'[u] = tx[u]
      /\ tx'[t].req = tx[t].req /\ tx'[t].op = tx[t].op /\ tx'[t].todo = todo
  BY <1>2, WorkLocks
<1>4. QED
  BY <1>1, <1>2, <1>3 DEF LockShift

\* What locking a request changes: the lock and one entry of the worklist.
LEMMA RequestIsLocked ==
    ASSUME TypeOK, NEW t \in Txs, LockRequest(t)
    PROVE  /\ tx[t].op = "record" /\ tx'[t].op = "record" /\ tx'[t].sh = tx[t].sh
           /\ \A u \in Txs : u # t => tx'[u] = tx[u]
           /\ shiftLock' = shiftLock
           /\ \E r \in Least(tx[t].todo) :
                 /\ requestLock' = [requestLock EXCEPT ![r] = t]
                 /\ tx'[t].todo = tx[t].todo \ {r}
<1>1. PICK r \in Least(tx[t].todo) :
          /\ requestLock' = [requestLock EXCEPT ![r] = t]
          /\ tx' = [tx EXCEPT ![t].todo = @ \ {r},
                        ![t].found = IF request[r].st = "approved" THEN @ \cup {r} ELSE @]
  BY DEF LockRequest
<1>2. PICK todo, found : /\ todo = tx[t].todo \ {r}
                         /\ tx' = [tx EXCEPT ![t].todo = todo, ![t].found = found]
  BY <1>1
<1>3. /\ \A u \in Txs : u # t => tx'[u] = tx[u]
      /\ tx'[t].sh = tx[t].sh /\ tx'[t].op = tx[t].op /\ tx'[t].todo = todo
  BY <1>2, WorkLocks
<1>4. QED
  BY <1>1, <1>2, <1>3 DEF LockRequest

\* A transaction that begins holds no row, but the request it approves.
LEMMA BeginsInOrder ==
    ASSUME OrderInvariant, NEW t \in Txs,
           \/ \E r \in Requests, e \in Employees, x \in Leaves : CreateReads(t, r, e, x)
           \/ \E r \in Requests, seen \in 1..2 : ApproveReads(t, r, seen)
           \/ \E s \in Shifts, e \in Employees, y \in Slots : SaveReads(t, s, e, y)
    PROVE  \A u \in Txs : LocksInOrder(u)'
<1>1. TypeOK /\ \A u \in Txs : LocksInOrder(u)
  BY DEF OrderInvariant, InductiveInvariant
<1>2. /\ tx[t].op = "idle" /\ shiftLock' = shiftLock
      /\ \A u \in Txs : u # t => tx'[u] = tx[u]
      /\ \/ requestLock' = requestLock
         \/ \E r \in Requests : /\ requestLock' = [requestLock EXCEPT ![r] = t]
                                /\ tx'[t].op = "approve" /\ tx'[t].req = r
  <2>1. tx \in [Txs -> Tx]
    BY <1>1 DEF TypeOK
  <2>2. CASE \E r \in Requests, e \in Employees, x \in Leaves : CreateReads(t, r, e, x)
    BY <2>1, <2>2 DEF CreateReads, locks
  <2>3. CASE \E r \in Requests, seen \in 1..2 : ApproveReads(t, r, seen)
    <3>1. PICK r \in Requests, seen \in 1..2 : ApproveReads(t, r, seen)
      BY <2>3
    <3>2. tx'[t].op = "approve" /\ tx'[t].req = r
      BY <2>1, <3>1 DEF ApproveReads, Idle
    <3>3. QED
      BY <2>1, <3>1, <3>2 DEF ApproveReads
  <2>4. CASE \E s \in Shifts, e \in Employees, y \in Slots : SaveReads(t, s, e, y)
    BY <2>1, <2>4 DEF SaveReads
  <2>5. QED
    BY <2>2, <2>3, <2>4
<1>3. /\ \A s \in Shifts : shiftLock[s] # t
      /\ \A r \in Requests : requestLock[r] # t
  BY <1>1, <1>2 DEF TypeOK, Holds
<1>4. LocksInOrder(t)'
  BY <1>1, <1>2, <1>3 DEF LocksInOrder, TypeOK
<1>5. ASSUME NEW u \in Txs, u # t PROVE LocksInOrder(u)'
  <2>1. \A r \in Requests : requestLock'[r] = u => requestLock[r] = u
    BY <1>1, <1>2, <1>5 DEF TypeOK
  <2>2. QED
    BY <1>1, <1>2, <1>5, <2>1, OrderFrame
<1>6. QED
  BY <1>4, <1>5

\* A detection takes the shifts it selected by their ids.
LEMMA DetectsInOrder ==
    ASSUME OrderInvariant, NEW t \in Txs, DetectSelects(t) \/ LockShift(t)
    PROVE  \A u \in Txs : LocksInOrder(u)'
<1>1. TypeOK /\ Holding(t) /\ \A u \in Txs : LocksInOrder(u)
  BY DEF OrderInvariant, InductiveInvariant
<1>2. /\ requestLock' = requestLock
      /\ \A u \in Txs : u # t => tx'[u] = tx[u]
      /\ tx[t].op \in {"approve", "detect"} /\ tx'[t].op = "detect"
      /\ tx'[t].req = tx[t].req
  <2>1. CASE DetectSelects(t)
    BY <1>1, <2>1, WorkSelects DEF DetectSelects, locks
  <2>2. CASE LockShift(t)
    BY <1>1, <2>2, ShiftIsLocked
  <2>3. QED
    BY <2>1, <2>2
<1>3. \A s \in Shifts : shiftLock'[s] = t => \A m \in tx'[t].todo : s < m
  <2>1. CASE DetectSelects(t)
    BY <1>1, <2>1 DEF DetectSelects, LocksInOrder, locks
  <2>2. CASE LockShift(t)
    <3>1. PICK s \in Least(tx[t].todo) :
              /\ shiftLock' = [shiftLock EXCEPT ![s] = t]
              /\ tx'[t].todo = tx[t].todo \ {s}
      BY <1>1, <2>2, ShiftIsLocked
    <3>2. tx[t].op = "detect" /\ tx[t].todo \subseteq Shifts /\ Shifts \subseteq Nat
      BY <1>1, <2>2, LeaveAssumption DEF LockShift, Holding
    <3>3. \A m \in tx[t].todo \ {s} : s < m
      <4>1. s \in Nat /\ \A m \in tx[t].todo : s <= m /\ m \in Nat
        BY <3>2 DEF Least
      <4>2. QED
        BY <4>1
    <3>4. s \in Shifts
      BY <3>1, <3>2 DEF Least
    <3>5. \A z \in Shifts : shiftLock[z] = t => \A m \in tx[t].todo : z < m
      BY <1>1, <3>2 DEF LocksInOrder
    <3>6. QED
      BY <1>1, <3>1, <3>3, <3>4, <3>5 DEF TypeOK
  <2>3. QED
    BY <2>1, <2>2
<1>4. LocksInOrder(t)'
  BY <1>1, <1>2, <1>3 DEF LocksInOrder
<1>5. ASSUME NEW u \in Txs, u # t PROVE LocksInOrder(u)'
  <2>1. \A s \in Shifts : shiftLock'[s] = u => shiftLock[s] = u
    BY <1>1, <1>5 DEF DetectSelects, LockShift, TypeOK, locks
  <2>2. QED
    BY <1>1, <1>2, <1>5, <2>1, OrderFrame
<1>6. QED
  BY <1>4, <1>5

\* A save holds its shift, then takes the approved leave by its ids.
LEMMA SavesInOrder ==
    ASSUME OrderInvariant, NEW t \in Txs, SaveWrites(t) \/ SaveSelects(t) \/ LockRequest(t)
    PROVE  \A u \in Txs : LocksInOrder(u)'
<1>1. TypeOK /\ Holding(t) /\ \A u \in Txs : LocksInOrder(u)
  BY DEF OrderInvariant, InductiveInvariant
<1>2. /\ \A u \in Txs : u # t => tx'[u] = tx[u]
      /\ tx'[t].sh = tx[t].sh /\ tx[t].op \in {"save", "written", "record"}
      /\ tx'[t].op \in {"written", "record"}
  <2>1. CASE SaveWrites(t)
    BY <1>1, <2>1, WorkWrites DEF SaveWrites
  <2>2. CASE SaveSelects(t)
    BY <1>1, <2>2, WorkSelects DEF SaveSelects
  <2>3. CASE LockRequest(t)
    BY <1>1, <2>3, RequestIsLocked
  <2>4. QED
    BY <2>1, <2>2, <2>3
<1>3. \A s \in Shifts : shiftLock'[s] = t => s = tx[t].sh
  <2>1. CASE SaveWrites(t)
    BY <1>1, <2>1 DEF SaveWrites, LocksInOrder, TypeOK
  <2>2. CASE SaveSelects(t) \/ LockRequest(t)
    BY <1>1, <2>2 DEF SaveSelects, LockRequest, LocksInOrder, locks
  <2>3. QED
    BY <2>1, <2>2
<1>4. \A r \in Requests : requestLock'[r] = t =>
          tx'[t].op = "record" /\ \A m \in tx'[t].todo : r < m
  <2>1. CASE SaveWrites(t) \/ SaveSelects(t)
    <3>1. tx[t].op \in {"save", "written"} /\ requestLock' = requestLock
      BY <2>1 DEF SaveWrites, SaveSelects, locks
    <3>2. QED
      BY <1>1, <3>1 DEF LocksInOrder
  <2>2. CASE LockRequest(t)
    <3>1. PICK r \in Least(tx[t].todo) :
              /\ requestLock' = [requestLock EXCEPT ![r] = t]
              /\ tx'[t].todo = tx[t].todo \ {r}
      BY <1>1, <2>2, RequestIsLocked
    <3>2. /\ tx[t].op = "record" /\ tx'[t].op = "record"
          /\ tx[t].todo \subseteq Requests /\ Requests \subseteq Nat
      <4>1. tx[t].op = "record" /\ tx'[t].op = "record"
        BY <1>1, <2>2, RequestIsLocked
      <4>2. QED
        BY <1>1, <4>1, LeaveAssumption DEF Holding
    <3>3. \A m \in tx[t].todo \ {r} : r < m
      <4>1. r \in Nat /\ \A m \in tx[t].todo : r <= m /\ m \in Nat
        BY <3>2 DEF Least
      <4>2. QED
        BY <4>1
    <3>4. \A z \in Requests : requestLock[z] = t => \A m \in tx[t].todo : z < m
      BY <1>1, <3>2 DEF LocksInOrder
    <3>5. QED
      BY <1>1, <3>1, <3>2, <3>3, <3>4 DEF TypeOK, Least
  <2>3. QED
    BY <2>1, <2>2
<1>5. LocksInOrder(t)'
  BY <1>2, <1>3, <1>4 DEF LocksInOrder
<1>6. ASSUME NEW u \in Txs, u # t PROVE LocksInOrder(u)'
  <2>1. \A s \in Shifts : shiftLock'[s] = u => shiftLock[s] = u
    BY <1>1, <1>6 DEF SaveWrites, SaveSelects, LockRequest, TypeOK, locks
  <2>2. \A r \in Requests : requestLock'[r] = u => requestLock[r] = u
    BY <1>1, <1>6 DEF SaveWrites, SaveSelects, LockRequest, TypeOK, locks
  <2>3. QED
    BY <1>1, <1>2, <1>6, <2>1, <2>2, OrderFrame
<1>7. QED
  BY <1>5, <1>6

\* Every step keeps the order in which transactions lock rows.
LEMMA OrderStepKeeps == OrderInvariant /\ [Next]_vars => OrderInvariant'
<1> SUFFICES ASSUME OrderInvariant, [Next]_vars PROVE OrderInvariant'
  OBVIOUS
<1>1. InductiveInvariant'
  BY StepPreserves DEF OrderInvariant
<1>2. ASSUME UNCHANGED <<tx, locks>> PROVE \A u \in Txs : LocksInOrder(u)'
  BY <1>2, OrderFrame DEF OrderInvariant, locks
<1>3. ASSUME NEW t \in Txs, TxStep(t) PROVE \A u \in Txs : LocksInOrder(u)'
  <2>1. CASE CreateCommits(t) \/ ApproveCommits(t) \/ SaveCommits(t) \/ Rollback(t)
    BY <2>1, EndsInOrder DEF CreateCommits, ApproveCommits, SaveCommits, Rollback
  <2>2. QED
    BY <1>3, <2>1, BeginsInOrder, DetectsInOrder, SavesInOrder DEF TxStep
<1>4. ASSUME NEW r \in Requests, RequestStep(r) PROVE UNCHANGED <<tx, locks>>
  BY <1>4 DEF RequestStep, LegacyCreate, Cancel, Reject, Decides, LegacyStatus
<1>5. ASSUME NEW s \in Shifts, ShiftStep(s) PROVE UNCHANGED <<tx, locks>>
  BY <1>5 DEF ShiftStep, CancelShift, SwapOwners
<1>6. \A u \in Txs : LocksInOrder(u)'
  <2>1. CASE UNCHANGED vars
    BY <1>2, <2>1 DEF vars
  <2>2. QED
    BY <1>2, <1>3, <1>4, <1>5, <2>1 DEF Next
<1>7. QED
  BY <1>1, <1>6 DEF OrderInvariant

\* At the start no transaction holds a lock.
LEMMA OrderInitEstablishes == Init => OrderInvariant
<1> SUFFICES ASSUME Init PROVE OrderInvariant
  OBVIOUS
<1>1. InductiveInvariant
  BY InitEstablishes
<1>2. \A u \in Txs : LocksInOrder(u)
  BY LeaveAssumption DEF Init, LocksInOrder
<1>3. QED
  BY <1>1, <1>2 DEF OrderInvariant

\* The transactions' locks are taken in order in every behaviour.
THEOREM OrderInvariance == Spec => []OrderInvariant
BY OrderInitEstablishes, OrderStepKeeps, PTL DEF Spec

\* Of finitely many things with a number, one has a largest: where each has a
\* larger one, the sets of the larger ones would shrink for ever.
LEMMA NoEndlessClimb ==
    ASSUME NEW R, IsFiniteSet(R), R # {}, NEW f, \A t \in R : f[t] \in Nat
    PROVE  \E t \in R : \A u \in R : f[u] <= f[t]
<1> DEFINE Above(t) == {u \in R : f[t] < f[u]}
           D == {Above(t) : t \in R}
<1>1. D \in SUBSET (SUBSET R) /\ D # {}
  OBVIOUS
<1>2. IsWellFoundedOn(StrictSubsetOrdering(R), SUBSET R)
  <2>1. SUBSET R = FiniteSubsetsOf(R)
    BY FS_FiniteSubsetsOfFinite
  <2>2. QED
    BY <2>1, FS_StrictSubsetOrderingWellFounded
<1> HIDE DEF D
<1>3. PICK T \in D : \A U \in D : ~(<<U, T>> \in StrictSubsetOrdering(R))
  BY <1>1, <1>2, WFMin
<1>4. PICK t \in R : T = Above(t)
  BY DEF D
<1>5. ASSUME NEW u \in R, f[t] < f[u] PROVE FALSE
  <2>1. Above(u) \subseteq Above(t)
    BY <1>5
  <2>2. u \in Above(t) /\ u \notin Above(u)
    BY <1>5
  <2>3. Above(u) \in D
    BY DEF D
  <2>4. <<Above(u), Above(t)>> \in StrictSubsetOrdering(R)
    BY <2>1, <2>2 DEF StrictSubsetOrdering
  <2>5. QED
    BY <1>3, <1>4, <2>3, <2>4
<1>6. QED
  BY <1>5

\* Where every one of some transactions waits for a row of a growing number,
\* one waits for none of them.
LEMMA ClimbsEnd ==
    ASSUME NEW R \in SUBSET Txs, R # {}, NEW n, \A t \in R : n[t] \in Nat
    PROVE  \E t \in R : \A u \in R : n[u] <= n[t]
<1>1. IsFiniteSet(R)
  BY LeaveAssumption, FS_Subset
<1>2. QED
  BY <1>1, NoEndlessClimb

\* The row a transaction would lock next.
NextRow(t) == CHOOSE m \in tx[t].todo : \A k \in tx[t].todo : m <= k

\* The row a transaction waits for is the least of its worklist.
LEMMA NextRowIsLeast ==
    ASSUME NEW t, tx[t].todo \in SUBSET Nat, NEW m \in Least(tx[t].todo)
    PROVE  m = NextRow(t) /\ m \in tx[t].todo /\ m \in Nat
<1>1. m \in tx[t].todo /\ m \in Nat /\ \A k \in tx[t].todo : m <= k
  BY DEF Least
<1>2. NextRow(t) \in tx[t].todo /\ \A k \in tx[t].todo : NextRow(t) <= k
  BY <1>1 DEF NextRow
<1>3. QED
  BY <1>1, <1>2

\* An edit waits for approved leave, which another edit holds that is further;
\* an approval waits for a shift, which an edit holds, that is never waiting for
\* an approval, or another approval that is further; a save waits for either.
LEMMA NoCircle == OrderInvariant => NobodyWaitsInACircle
<1> SUFFICES ASSUME OrderInvariant,
                    NEW W \in SUBSET Txs, W # {}, \A t \in W : Blockers(t) \cap W # {}
             PROVE  FALSE
  BY DEF NobodyWaitsInACircle
<1>1. /\ TypeOK /\ \A t \in Txs : Holding(t) /\ LocksInOrder(t)
      /\ Requests \subseteq Nat /\ Shifts \subseteq Nat
  BY LeaveAssumption DEF OrderInvariant, InductiveInvariant
<1> DEFINE n == [t \in W |-> NextRow(t)]
           Recording == {t \in W : tx[t].op = "record"}
           Detecting == {t \in W : tx[t].op = "detect"}
<1>2. ASSUME NEW t \in Recording
      PROVE  n[t] \in Nat /\ \E u \in Recording : n[t] < n[u]
  <2>1. /\ t \in W /\ tx[t].op = "record" /\ tx[t].todo \in SUBSET Requests
        /\ \A r \in tx[t].todo : request[r].st = "approved"
    BY <1>1 DEF Holding
  <2>2. PICK r \in Least(tx[t].todo) : requestLock[r] \in W
    BY <2>1 DEF Blockers
  <2>3. r = n[t] /\ r \in Nat /\ r \in Requests /\ request[r].st = "approved"
    BY <1>1, <2>1, <2>2, NextRowIsLeast
  <2> DEFINE u == requestLock[r]
  <2>4. tx[u].op = "record" /\ \A m \in tx[u].todo : r < m
    BY <1>1, <2>2, <2>3 DEF LocksInOrder, Holding
  <2>5. n[u] \in tx[u].todo
    <3>1. tx[u].todo \in SUBSET Requests
      BY <1>1, <2>2, <2>4 DEF Holding
    <3>2. PICK m \in Least(tx[u].todo) : requestLock[m] \in W
      BY <2>2, <2>4 DEF Blockers
    <3>3. QED
      BY <1>1, <2>2, <3>1, <3>2, NextRowIsLeast
  <2>6. QED
    BY <2>2, <2>3, <2>4, <2>5
<1>3. Recording = {}
  <2>1. SUFFICES ASSUME Recording # {} PROVE FALSE
    OBVIOUS
  <2>2. \A t \in Recording : n[t] \in Nat
    BY <1>2
  <2>3. Recording \in SUBSET Txs
    OBVIOUS
  <2> HIDE DEF n, Recording
  <2>4. PICK t \in Recording : \A u \in Recording : n[u] <= n[t]
    BY <2>1, <2>2, <2>3, ClimbsEnd
  <2>5. QED
    BY <1>2, <2>2, <2>4
<1>4. ASSUME NEW s \in Shifts, shiftLock[s] \in W
      PROVE  /\ tx[shiftLock[s]].op = "detect"
             /\ \A m \in tx[shiftLock[s]].todo : s < m
  <2> DEFINE u == shiftLock[s]
  <2>1. tx[u].op # "record"
    BY <1>3, <1>4
  <2>2. tx[u].op # "written"
    BY <1>4 DEF Blockers
  <2>3. QED
    BY <1>1, <1>4, <2>1, <2>2 DEF LocksInOrder
<1>5. ASSUME NEW t \in Detecting
      PROVE  n[t] \in Nat /\ \E u \in Detecting : n[t] < n[u]
  <2>1. t \in W /\ tx[t].op = "detect" /\ tx[t].todo \in SUBSET Shifts
    BY <1>1 DEF Holding
  <2>2. PICK s \in Least(tx[t].todo) : shiftLock[s] \in W
    BY <2>1 DEF Blockers
  <2>3. s = n[t] /\ s \in Nat /\ s \in Shifts
    BY <1>1, <2>1, <2>2, NextRowIsLeast
  <2> DEFINE u == shiftLock[s]
  <2>4. tx[u].op = "detect" /\ \A m \in tx[u].todo : s < m
    BY <1>4, <2>2, <2>3
  <2>5. n[u] \in tx[u].todo
    <3>1. tx[u].todo \in SUBSET Shifts
      BY <1>1, <2>2, <2>4 DEF Holding
    <3>2. PICK m \in Least(tx[u].todo) : shiftLock[m] \in W
      BY <2>2, <2>4 DEF Blockers
    <3>3. QED
      BY <1>1, <2>2, <3>1, <3>2, NextRowIsLeast
  <2>6. QED
    BY <2>2, <2>3, <2>4, <2>5
<1>6. Detecting = {}
  <2>1. SUFFICES ASSUME Detecting # {} PROVE FALSE
    OBVIOUS
  <2>2. \A t \in Detecting : n[t] \in Nat
    BY <1>5
  <2>3. Detecting \in SUBSET Txs
    OBVIOUS
  <2> HIDE DEF n, Detecting
  <2>4. PICK t \in Detecting : \A u \in Detecting : n[u] <= n[t]
    BY <2>1, <2>2, <2>3, ClimbsEnd
  <2>5. QED
    BY <1>5, <2>2, <2>4
<1>7. \A t \in W : tx[t].op = "save"
  BY <1>3, <1>6 DEF Blockers
<1>8. PICK t \in W : shiftLock[tx[t].sh] \in W /\ tx[t].sh \in Shifts
  <2>1. PICK t \in W : TRUE
    OBVIOUS
  <2>2. tx[t].op = "save" /\ tx[t].sh \in Shifts
    BY <1>1, <1>7 DEF Holding
  <2>3. shiftLock[tx[t].sh] \in W
    BY <2>2 DEF Blockers
  <2>4. QED
    BY <2>2, <2>3
<1>9. QED
  BY <1>4, <1>7, <1>8

\* Approvals, saves and swaps of the roster never wait for each other in a
\* circle (leave-routes.ts, roster-shift-routes.ts: FOR UPDATE ORDER BY id).
THEOREM NobodyWaitsForever == Spec => []NobodyWaitsInACircle
BY OrderInvariance, NoCircle, PTL
=============================================================================
