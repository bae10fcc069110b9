--------------------------- MODULE AccountsProofs ---------------------------
(***************************************************************************)
(* Proofs about Accounts and Authority, for every set of requests, links,  *)
(* challenges, sessions, roles and assignments.  The failures of a window  *)
(* stay below the limit and the requests in flight, a challenge admits     *)
(* once, a password changes only by spending the links of its account; a   *)
(* revocation leaves an administrator, and an archived role is nobody's.   *)
(***************************************************************************)
EXTENDS Accounts, Authority, FiniteSetTheorems, TLAPS

\* Links and challenges that were inserted belong to somebody.
RowsName ==
    /\ \A k \in Links : link[k].st # "none" => link[k].emp \in Subjects
    /\ \A c \in Challenges : challenge[c].st # "none" => challenge[c].emp \in Subjects

\* What a request holds: the open challenge it verifies, the fresh link it
\* spends.
AttemptHolds(r) ==
    LET t == attempt[r] IN
    /\ t.op # "idle" => t.emp \in Subjects
    /\ t.op \in {"found", "verifying"} => t.arg \in Challenges
    /\ t.op = "verifying" => challengeLock[t.arg] = r /\ challenge[t.arg].st = "fresh"
    /\ t.op \in {"reset", "resetting"} =>
          t.arg \in Links /\ linkLock[t.arg] = r /\ link[t.arg] = [st |-> "fresh", emp |-> t.emp]

AttemptsHold == \A r \in Attempts : AttemptHolds(r)

\* The requests that may still count a failure: a passkey that was admitted is
\* one of them until its session is opened.
Guessing(e) == {r \in Attempts :
                   /\ attempt[r].op \in {"password", "passkey", "found", "verifying", "keyed"}
                   /\ attempt[r].emp = e}

\* Until an account is locked its failures are below the limit; from then on
\* only requests let in before can fail.
Counted(e) ==
    IF limiter[e].lock = "off" THEN limiter[e].failed < MaxFailures
    ELSE limiter[e].failed + Cardinality(Guessing(e)) < MaxFailures + Cardinality(Attempts)

FailuresCounted == \A e \in Subjects : Counted(e)

AccountsInvariant == AccountsTypeOK /\ RowsName /\ AttemptsHold /\ FailuresCounted

\* The number of requests is a number, and so is that of the guesses.
LEMMA Numbers ==
    /\ Cardinality(Attempts) \in Nat
    /\ \A S \in SUBSET Attempts : /\ IsFiniteSet(S) /\ Cardinality(S) \in Nat
                                  /\ Cardinality(S) <= Cardinality(Attempts)
BY AccountsAssumption, FS_Subset, FS_CardinalityType

\* The initial state satisfies the inductive invariant.
LEMMA AccountsInitEstablishes == AccountsInit => AccountsInvariant
<1> SUFFICES ASSUME AccountsInit PROVE AccountsInvariant
  OBVIOUS
<1> USE AccountsAssumption, Numbers DEF AccountsInit
<1>1. NoAttempt \in Attempt /\ NoFailure \in Limiter /\ NoRow \in AccountRow /\ NoRow \in SessionRow
  BY DEF NoAttempt, Attempt, NoFailure, Limiter, NoRow, AccountRow, SessionRow
<1>2. AccountsTypeOK
  BY <1>1 DEF AccountsTypeOK, NoRow
<1>3. RowsName /\ AttemptsHold
  BY DEF RowsName, AttemptsHold, AttemptHolds, NoRow, NoAttempt
<1>4. FailuresCounted
  BY DEF FailuresCounted, Counted, NoFailure
<1>5. QED
  BY <1>2, <1>3, <1>4 DEF AccountsInvariant

\* When no request begins to guess and the limiter stays, the count stays.
LEMMA CountStays ==
    ASSUME AccountsInvariant, NEW e \in Subjects, limiter'[e] = limiter[e],
           Guessing(e)' \subseteq Guessing(e)
    PROVE  Counted(e)'
<1>1. /\ Guessing(e) \in SUBSET Attempts /\ Guessing(e)' \in SUBSET Attempts
      /\ limiter[e].failed \in Nat /\ MaxFailures \in Nat
  BY AccountsAssumption, Numbers DEF Guessing, AccountsInvariant, AccountsTypeOK, Limiter
<1>2. /\ Cardinality(Guessing(e)') \in Nat /\ Cardinality(Guessing(e)) \in Nat
      /\ Cardinality(Guessing(e)') <= Cardinality(Guessing(e))
  BY <1>1, Numbers, FS_Subset
<1>3. Counted(e)
  BY DEF AccountsInvariant, FailuresCounted
<1>4. QED
  BY <1>1, <1>2, <1>3, Numbers DEF Counted

\* A step that changes rows no request holds, and nothing else.
LEMMA RowStep ==
    ASSUME AccountsInvariant,
           UNCHANGED <<password, attempt, limiter, linkLock, challengeLock, employeeLock>>,
           session' \in [Sessions -> SessionRow], link' \in [Links -> AccountRow],
           challenge' \in [Challenges -> AccountRow], RowsName',
           \A k \in Links : linkLock[k] # Null => link'[k] = link[k],
           \A c \in Challenges : challengeLock[c] # Null => challenge'[c] = challenge[c]
    PROVE  AccountsInvariant'
<1> USE AccountsAssumption DEF AccountsInvariant
<1>1. AccountsTypeOK'
  BY DEF AccountsTypeOK
<1>2. ASSUME NEW r \in Attempts PROVE AttemptHolds(r)'
  <2>1. AttemptHolds(r) /\ r # Null
    BY DEF AttemptsHold
  <2>2. attempt[r].op = "verifying" => challenge'[attempt[r].arg] = challenge[attempt[r].arg]
    BY <2>1 DEF AttemptHolds
  <2>3. attempt[r].op \in {"reset", "resetting"} => link'[attempt[r].arg] = link[attempt[r].arg]
    BY <2>1 DEF AttemptHolds
  <2> HIDE DEF AccountsInvariant
  <2>4. QED
    BY <2>1, <2>2, <2>3 DEF AttemptHolds
<1>3. FailuresCounted'
  BY CountStays DEF FailuresCounted, Guessing
<1>4. QED
  BY <1>1, <1>2, <1>3 DEF AttemptsHold

\* What a request holds is not free.
LEMMA HeldRows ==
    ASSUME AccountsInvariant
    PROVE  /\ \A k \in Links : linkLock[k] # Null => link[k].st = "fresh"
           /\ \A c \in Challenges : challengeLock[c] # Null => challenge[c].st = "fresh"
<1>1. ASSUME NEW k \in Links, linkLock[k] # Null PROVE link[k].st = "fresh"
  <2>1. linkLock[k] \in Attempts /\ attempt[linkLock[k]].op \in {"reset", "resetting"}
        /\ attempt[linkLock[k]].arg = k
    BY <1>1 DEF AccountsInvariant, AccountsTypeOK
  <2>2. AttemptHolds(linkLock[k])
    BY <2>1 DEF AccountsInvariant, AttemptsHold
  <2>3. QED
    BY <2>1, <2>2 DEF AttemptHolds
<1>2. ASSUME NEW c \in Challenges, challengeLock[c] # Null PROVE challenge[c].st = "fresh"
  <2>1. challengeLock[c] \in Attempts /\ attempt[challengeLock[c]].op = "verifying"
        /\ attempt[challengeLock[c]].arg = c
    BY <1>2 DEF AccountsInvariant, AccountsTypeOK
  <2>2. AttemptHolds(challengeLock[c])
    BY <2>1 DEF AccountsInvariant, AttemptsHold
  <2>3. QED
    BY <2>1, <2>2 DEF AttemptHolds
<1>3. QED
  BY <1>1, <1>2

\* Sessions are opened, revoked, expired and cleaned up under nobody's lock.
LEMMA SessionStep ==
    ASSUME AccountsInvariant,
           \/ \E s \in Sessions : RevokeSession(s) \/ SessionExpires(s) \/ CleanupSession(s)
           \/ \E e \in Subjects, kept \in SUBSET Sessions : RevokeSessions(e, kept)
    PROVE  AccountsInvariant'
<1>1. session' \in [Sessions -> SessionRow]
  <2>1. session \in [Sessions -> SessionRow] /\ NoRow \in SessionRow
    BY DEF AccountsInvariant, AccountsTypeOK, NoRow, SessionRow
  <2>2. \A s \in Sessions, x \in {"revoked", "expired"} : [session[s] EXCEPT !.st = x] \in SessionRow
    BY <2>1 DEF SessionRow
  <2>3. QED
    BY <2>1, <2>2 DEF RevokeSession, SessionExpires, CleanupSession, RevokeSessions
<1>2. UNCHANGED <<password, link, challenge, attempt, limiter, linkLock, challengeLock, employeeLock>>
  BY DEF RevokeSession, SessionExpires, CleanupSession, RevokeSessions
<1>3. QED
  BY <1>1, <1>2, RowStep DEF AccountsInvariant, AccountsTypeOK, RowsName

\* Links are inserted; links and challenges nobody holds end.
LEMMA InsertStep ==
    ASSUME AccountsInvariant,
           \/ \E e \in Subjects, k \in Links : RequestReset(e, k)
           \/ \E k \in Links : LinkExpires(k)
           \/ \E c \in Challenges : ChallengeExpires(c)
    PROVE  AccountsInvariant'
<1>1. /\ session \in [Sessions -> SessionRow] /\ link \in [Links -> AccountRow]
      /\ challenge \in [Challenges -> AccountRow] /\ RowsName
  BY DEF AccountsInvariant, AccountsTypeOK
<1>2. /\ \A row \in AccountRow, x \in {"used", "expired"} :
            /\ [row EXCEPT !.st = x] \in AccountRow
            /\ [row EXCEPT !.st = x].emp = row.emp
      /\ \A e \in Subjects : [st |-> "fresh", emp |-> e] \in AccountRow
  BY DEF AccountRow
<1>3. ASSUME NEW e \in Subjects, NEW k \in Links, RequestReset(e, k) PROVE AccountsInvariant'
  <2>1. link' \in [Links -> AccountRow] /\ RowsName'
    BY <1>1, <1>2, <1>3 DEF RequestReset, RowsName
  <2>2. \A i \in Links : linkLock[i] # Null => link'[i] = link[i]
    BY <1>1, <1>3, HeldRows DEF RequestReset
  <2>3. QED
    BY <1>1, <1>3, <2>1, <2>2, RowStep DEF RequestReset
<1>4. ASSUME NEW k \in Links, LinkExpires(k) PROVE AccountsInvariant'
  <2>1. link' \in [Links -> AccountRow] /\ RowsName'
    BY <1>1, <1>2, <1>4 DEF LinkExpires, RowsName
  <2>2. \A i \in Links : linkLock[i] # Null => link'[i] = link[i]
    BY <1>1, <1>4 DEF LinkExpires
  <2>3. QED
    BY <1>1, <1>4, <2>1, <2>2, RowStep DEF LinkExpires
<1>5. ASSUME NEW c \in Challenges, ChallengeExpires(c) PROVE AccountsInvariant'
  <2>1. challenge' \in [Challenges -> AccountRow] /\ RowsName'
    BY <1>1, <1>2, <1>5 DEF ChallengeExpires, RowsName
  <2>2. \A i \in Challenges : challengeLock[i] # Null => challenge'[i] = challenge[i]
    BY <1>1, <1>5 DEF ChallengeExpires
  <2>3. QED
    BY <1>1, <1>5, <2>1, <2>2, RowStep DEF ChallengeExpires
<1>6. QED
  BY <1>3, <1>4, <1>5

\* Time, and the loss of what the server remembers.
LEMMA LimiterStep ==
    ASSUME AccountsInvariant,
           (\E e \in Subjects : LockRunsOut(e) \/ WindowEnds(e)) \/ ServerRestarts
    PROVE  AccountsInvariant'
<1> USE AccountsAssumption DEF AccountsInvariant
<1>1. ASSUME NEW e \in Subjects, LockRunsOut(e) \/ WindowEnds(e) PROVE AccountsInvariant'
  <2>1. /\ limiter' \in [Subjects -> Limiter]
        /\ UNCHANGED <<password, session, link, challenge, attempt, linkLock, challengeLock, employeeLock>>
        /\ \A d \in Subjects \ {e} : limiter'[d] = limiter[d]
        /\ limiter'[e].failed = limiter[e].failed
        /\ limiter'[e].lock = limiter[e].lock \/ (limiter[e].lock = "on" /\ limiter'[e].lock = "over")
    <3>1. \A x \in Limiter : [x EXCEPT !.lock = "over"] \in Limiter
                            /\ [x EXCEPT !.old = TRUE] \in Limiter
                            /\ [x EXCEPT !.old = TRUE].failed = x.failed
                            /\ [x EXCEPT !.old = TRUE].lock = x.lock
      BY DEF Limiter
    <3>2. limiter \in [Subjects -> Limiter]
      BY DEF AccountsTypeOK
    <3>3. CASE LockRunsOut(e)
      <4>1. limiter' = [limiter EXCEPT ![e] = [limiter[e] EXCEPT !.lock = "over"]]
        BY <3>2, <3>3 DEF LockRunsOut
      <4>2. QED
        BY <3>1, <3>2, <3>3, <4>1 DEF LockRunsOut, Limiter
    <3>4. CASE WindowEnds(e)
      <4>1. limiter' = [limiter EXCEPT ![e] = [limiter[e] EXCEPT !.old = TRUE]]
        BY <3>2, <3>4 DEF WindowEnds
      <4>2. PICK y \in Limiter : y = [limiter[e] EXCEPT !.old = TRUE]
                                 /\ y.failed = limiter[e].failed /\ y.lock = limiter[e].lock
        BY <3>1, <3>2
      <4>3. limiter' = [limiter EXCEPT ![e] = y]
        BY <4>1, <4>2
      <4>4. QED
        BY <3>2, <3>4, <4>2, <4>3 DEF WindowEnds
    <3>5. QED
      BY <1>1, <3>3, <3>4
  <2>2. AccountsTypeOK' /\ RowsName' /\ AttemptsHold'
    BY <2>1 DEF AccountsTypeOK, RowsName, AttemptsHold, AttemptHolds
  <2>3. FailuresCounted'
    BY <2>1, CountStays DEF FailuresCounted, Guessing, Counted
  <2>4. QED
    BY <2>2, <2>3
<1>2. CASE ServerRestarts
  <2>1. NoAttempt \in Attempt /\ NoFailure \in Limiter
    BY Numbers DEF NoAttempt, Attempt, NoFailure, Limiter
  <2>2. AccountsTypeOK' /\ RowsName' /\ AttemptsHold'
    BY <1>2, <2>1 DEF ServerRestarts, AccountsTypeOK, RowsName, AttemptsHold, AttemptHolds, NoAttempt
  <2>3. FailuresCounted'
    BY <1>2 DEF ServerRestarts, FailuresCounted, Counted, NoFailure
  <2>4. QED
    BY <2>2, <2>3
<1>3. QED
  BY <1>1, <1>2

\* A request goes on: it takes and frees locks of its own, and changes no
\* row that another holds.
LEMMA AttemptMoves ==
    ASSUME AccountsInvariant, NEW r \in Attempts, attempt' \in [Attempts -> Attempt],
           \A q \in Attempts \ {r} : attempt'[q] = attempt[q],
           password' \in [Subjects -> 0..MaxResets], session' \in [Sessions -> SessionRow],
           link' \in [Links -> AccountRow], challenge' \in [Challenges -> AccountRow],
           limiter' \in [Subjects -> Limiter], RowsName', FailuresCounted',
           linkLock' \in [Links -> Attempts \cup {Null}],
           challengeLock' \in [Challenges -> Attempts \cup {Null}],
           employeeLock' \in [Subjects -> Attempts \cup {Null}],
           \A k \in Links :
              /\ linkLock'[k] \in {linkLock[k], r, Null}
              /\ linkLock[k] \notin {r, Null} => linkLock'[k] = linkLock[k] /\ link'[k] = link[k]
              /\ linkLock'[k] = r => /\ attempt'[r].op \in {"reset", "resetting"} /\ attempt'[r].arg = k
                                     /\ link'[k].st # "none",
           \A c \in Challenges :
              /\ challengeLock'[c] \in {challengeLock[c], r, Null}
              /\ challengeLock[c] \notin {r, Null} =>
                    challengeLock'[c] = challengeLock[c] /\ challenge'[c] = challenge[c]
              /\ challengeLock'[c] = r => attempt'[r].op = "verifying" /\ attempt'[r].arg = c,
           \A e \in Subjects :
              /\ employeeLock'[e] \in {employeeLock[e], r, Null}
              /\ employeeLock'[e] = r => attempt'[r].op = "resetting" /\ attempt'[r].emp = e,
           AttemptHolds(r)'
    PROVE  AccountsInvariant'
<1> USE AccountsAssumption
<1>1. ASSUME NEW k \in Links, linkLock'[k] # Null
      PROVE  /\ attempt'[linkLock'[k]].op \in {"reset", "resetting"}
             /\ attempt'[linkLock'[k]].arg = k /\ link'[k].st # "none"
  <2>1. CASE linkLock'[k] = r
    BY <2>1
  <2>2. CASE linkLock'[k] # r
    BY <1>1, <2>2 DEF AccountsInvariant, AccountsTypeOK
  <2>3. QED
    BY <2>1, <2>2
<1>2. ASSUME NEW c \in Challenges, challengeLock'[c] # Null
      PROVE  attempt'[challengeLock'[c]].op = "verifying" /\ attempt'[challengeLock'[c]].arg = c
  <2>1. CASE challengeLock'[c] = r
    BY <2>1
  <2>2. CASE challengeLock'[c] # r
    BY <1>2, <2>2 DEF AccountsInvariant, AccountsTypeOK
  <2>3. QED
    BY <2>1, <2>2
<1>3. ASSUME NEW e \in Subjects, employeeLock'[e] # Null
      PROVE  attempt'[employeeLock'[e]].op = "resetting" /\ attempt'[employeeLock'[e]].emp = e
  <2>1. CASE employeeLock'[e] = r
    BY <2>1
  <2>2. CASE employeeLock'[e] # r
    BY <1>3, <2>2 DEF AccountsInvariant, AccountsTypeOK
  <2>3. QED
    BY <2>1, <2>2
<1>4. AccountsTypeOK'
  BY <1>1, <1>2, <1>3 DEF AccountsTypeOK
<1>5. ASSUME NEW q \in Attempts \ {r} PROVE AttemptHolds(q)'
  <2>1. AttemptHolds(q) /\ attempt'[q] = attempt[q] /\ q \notin {r, Null}
    BY DEF AccountsInvariant, AttemptsHold
  <2>2. attempt[q].op = "verifying" =>
           /\ challengeLock'[attempt[q].arg] = q
           /\ challenge'[attempt[q].arg] = challenge[attempt[q].arg]
    BY <2>1 DEF AttemptHolds
  <2>3. attempt[q].op \in {"reset", "resetting"} =>
           linkLock'[attempt[q].arg] = q /\ link'[attempt[q].arg] = link[attempt[q].arg]
    BY <2>1 DEF AttemptHolds
  <2>4. QED
    BY <2>1, <2>2, <2>3 DEF AttemptHolds
<1>6. QED
  BY <1>4, <1>5 DEF AccountsInvariant, AttemptsHold

\* A count that is reset, of an account where every other count stays.
LEMMA CountReset ==
    ASSUME AccountsInvariant, NEW e \in Subjects,
           limiter' = [limiter EXCEPT ![e] = NoFailure],
           \A d \in Subjects \ {e} : Guessing(d)' \subseteq Guessing(d)
    PROVE  limiter' \in [Subjects -> Limiter] /\ FailuresCounted'
<1>1. NoFailure \in Limiter /\ limiter \in [Subjects -> Limiter]
  BY AccountsAssumption, Numbers DEF NoFailure, Limiter, AccountsInvariant, AccountsTypeOK
<1>2. Counted(e)'
  BY <1>1, AccountsAssumption DEF Counted, NoFailure
<1>3. \A d \in Subjects \ {e} : Counted(d)'
  BY <1>1, CountStays
<1>4. QED
  BY <1>1, <1>2, <1>3 DEF FailuresCounted

\* A failure that is counted is one guess less to wait for.
LEMMA FailureIsCounted ==
    ASSUME AccountsInvariant, NEW r \in Attempts, NEW e \in Subjects, r \in Guessing(e),
           attempt' = [attempt EXCEPT ![r] = NoAttempt],
           limiter' = [limiter EXCEPT ![e] = Failed(e)]
    PROVE  limiter' \in [Subjects -> Limiter] /\ FailuresCounted'
<1> DEFINE l == limiter[e]
<1>1. /\ attempt \in [Attempts -> Attempt] /\ limiter \in [Subjects -> Limiter]
      /\ l \in Limiter /\ Counted(e)
  BY DEF AccountsInvariant, AccountsTypeOK, FailuresCounted
<1>2. /\ Guessing(e)' = Guessing(e) \ {r}
      /\ \A d \in Subjects \ {e} : Guessing(d)' \subseteq Guessing(d)
  BY <1>1 DEF Guessing, NoAttempt
<1>3. /\ Cardinality(Guessing(e)') = Cardinality(Guessing(e)) - 1
      /\ Cardinality(Guessing(e)) \in Nat /\ Cardinality(Guessing(e)) >= 1
      /\ Cardinality(Guessing(e)) <= Cardinality(Attempts)
      /\ Cardinality(Attempts) \in Nat /\ MaxFailures \in Nat \ {0, 1}
  <2>1. Guessing(e) \in SUBSET Attempts /\ Guessing(e) \ {r} \in SUBSET Attempts
    BY DEF Guessing
  <2>2. Cardinality(Guessing(e) \ {r}) = Cardinality(Guessing(e)) - 1
    BY <2>1, Numbers, FS_RemoveElement, SMTT(30)
  <2>3. QED
    BY <1>2, <2>1, <2>2, Numbers, AccountsAssumption
<1>4. Failed(e) \in Limiter
  <2>1. [failed |-> 1, lock |-> "off", old |-> FALSE] \in Limiter
    BY <1>3 DEF Limiter
  <2>2. \A y \in Limiter, n \in 0..(MaxFailures + Cardinality(Attempts)), k \in {"off", "on", "over"} :
           [y EXCEPT !.failed = n, !.lock = k] \in Limiter
    BY DEF Limiter
  <2>3. ~(l.failed = 0 \/ l.old) => l.failed + 1 \in 0..(MaxFailures + Cardinality(Attempts))
    BY <1>1, <1>3 DEF Counted, Limiter
  <2>4. l.lock \in {"off", "on", "over"}
    BY <1>1 DEF Limiter
  <2>5. QED
    BY <1>1, <2>1, <2>2, <2>3, <2>4 DEF Failed
<1>5. Counted(e)'
  <2>1. limiter'[e] = Failed(e)
    BY <1>1
  <2>2. CASE l.failed = 0 \/ l.old
    BY <1>3, <2>1, <2>2 DEF Failed, Counted
  <2>3. CASE ~(l.failed = 0 \/ l.old)
    <3>1. /\ limiter'[e].failed = l.failed + 1 /\ l.failed \in Nat
          /\ limiter'[e].lock = IF l.failed + 1 >= MaxFailures THEN "on" ELSE l.lock
      BY <1>1, <2>1, <2>3 DEF Failed, Limiter
    <3>2. QED
      BY <1>1, <1>3, <3>1 DEF Counted
  <2>4. QED
    BY <2>2, <2>3
<1>6. QED
  BY <1>1, <1>2, <1>4, <1>5, CountStays DEF FailuresCounted

\* What the invariant says of types, and of a request that is idle.
LEMMA Types ==
    ASSUME AccountsInvariant
    PROVE  /\ password \in [Subjects -> 0..MaxResets] /\ session \in [Sessions -> SessionRow]
           /\ link \in [Links -> AccountRow] /\ challenge \in [Challenges -> AccountRow]
           /\ attempt \in [Attempts -> Attempt] /\ limiter \in [Subjects -> Limiter]
           /\ linkLock \in [Links -> Attempts \cup {Null}]
           /\ challengeLock \in [Challenges -> Attempts \cup {Null}]
           /\ employeeLock \in [Subjects -> Attempts \cup {Null}]
           /\ RowsName /\ AttemptsHold /\ FailuresCounted
           /\ NoAttempt \in Attempt
           /\ \A r \in Attempts, k \in Links : linkLock[k] = r =>
                 attempt[r].op \in {"reset", "resetting"} /\ attempt[r].arg = k
           /\ \A r \in Attempts, c \in Challenges : challengeLock[c] = r =>
                 attempt[r].op = "verifying" /\ attempt[r].arg = c
           /\ \A r \in Attempts, e \in Subjects : employeeLock[e] = r =>
                 attempt[r].op = "resetting" /\ attempt[r].emp = e
BY AccountsAssumption DEF AccountsInvariant, AccountsTypeOK, NoAttempt, Attempt

\* A request is admitted to guess only while the account is not locked.
LEMMA GuessBegins ==
    ASSUME AccountsInvariant, NEW r \in Attempts, NEW e \in Subjects, attempt'[r].emp = e, Admissible(e),
           \A q \in Attempts \ {r} : attempt'[q] = attempt[q],
           limiter' = [limiter EXCEPT ![e] = Passed(e)]
    PROVE  limiter' \in [Subjects -> Limiter] /\ FailuresCounted'
<1>1. \A d \in Subjects \ {e} : Guessing(d)' \subseteq Guessing(d)
  BY Types DEF Guessing
<1>2. CASE Passed(e) = NoFailure
  BY <1>1, <1>2, CountReset
<1>3. CASE Passed(e) # NoFailure
  <2>1. limiter' = limiter /\ limiter[e].lock = "off"
    BY <1>3, Types DEF Passed, Admissible, Limiter
  <2>2. Counted(e)'
    BY <2>1, Types DEF FailuresCounted, Counted
  <2>3. QED
    BY <1>1, <2>1, <2>2, Types, CountStays DEF FailuresCounted
<1>4. QED
  BY <1>2, <1>3

\* A request begins: it passes the limiter, or it takes a link to spend.
LEMMA BeginStep ==
    ASSUME AccountsInvariant, NEW r \in Attempts,
           \/ \E e \in Subjects, v \in 0..MaxResets : StartPassword(r, e, v)
           \/ \E e \in Subjects : StartOptions(r, e) \/ StartPasskey(r, e)
           \/ \E k \in Links : LockLink(r, k)
    PROVE  AccountsInvariant'
<1>1. ASSUME NEW e \in Subjects, NEW v \in (0..MaxResets) \cup {Null},
             NEW op \in {"password", "options", "passkey"}, Start(r, e, op, v)
      PROVE  AccountsInvariant'
  <2>1. PICK x \in Attempt : x = [op |-> op, emp |-> e, arg |-> v]
    BY DEF Attempt
  <2>2. /\ attempt' \in [Attempts -> Attempt] /\ attempt[r].op = "idle" /\ attempt'[r] = x
        /\ \A q \in Attempts \ {r} : attempt'[q] = attempt[q]
        /\ UNCHANGED <<password, session, link, challenge, linkLock, challengeLock, employeeLock>>
    BY <1>1, <2>1, Types DEF Start
  <2>3. limiter' \in [Subjects -> Limiter] /\ FailuresCounted'
    BY <1>1, <2>1, <2>2, GuessBegins DEF Start
  <2>4. RowsName' /\ AttemptHolds(r)'
    BY <2>1, <2>2, Types DEF RowsName, AttemptHolds
  <2>5. QED
    BY <2>2, <2>3, <2>4, Types, AttemptMoves
<1>2. ASSUME NEW e \in Subjects, StartOptions(r, e) \/ StartPasskey(r, e)
             \/ \E v \in 0..MaxResets : StartPassword(r, e, v)
      PROVE  AccountsInvariant'
  BY <1>1, <1>2 DEF StartPassword, StartOptions, StartPasskey
<1>3. ASSUME NEW k \in Links, LockLink(r, k) PROVE AccountsInvariant'
  <2>1. PICK e \in Subjects : e = link[k].emp
    BY <1>3, Types DEF LockLink, RowsName
  <2>2. PICK x \in Attempt : x = [op |-> "reset", emp |-> e, arg |-> k]
    BY DEF Attempt
  <2>3. /\ attempt' \in [Attempts -> Attempt] /\ attempt[r].op = "idle" /\ attempt'[r] = x
        /\ \A q \in Attempts \ {r} : attempt'[q] = attempt[q]
        /\ linkLock' = [linkLock EXCEPT ![k] = r] /\ linkLock[k] = Null /\ link[k].st = "fresh"
        /\ UNCHANGED <<password, session, link, challenge, limiter, challengeLock, employeeLock>>
    BY <1>3, <2>1, <2>2, Types DEF LockLink
  <2>4. FailuresCounted'
    BY <2>2, <2>3, CountStays, Types DEF FailuresCounted, Guessing
  <2>5. link[k] = [st |-> "fresh", emp |-> e]
    BY <2>1, <2>3, Types DEF AccountRow
  <2>6. RowsName' /\ AttemptHolds(r)'
    BY <2>2, <2>3, <2>5, Types DEF RowsName, AttemptHolds
  <2>7. QED
    BY <2>2, <2>3, <2>4, <2>6, Types, AttemptMoves
<1>4. QED
  BY <1>1, <1>2, <1>3

\* A password is checked, an admitted request opens its session.
LEMMA PasswordStep ==
    ASSUME AccountsInvariant, NEW r \in Attempts,
           CheckPassword(r) \/ \E s \in Sessions : OpenSession(r, s)
    PROVE  AccountsInvariant'
<1>1. AttemptHolds(r)
  BY Types DEF AttemptsHold
<1>2. CASE CheckPassword(r)
  <2>1. PICK d \in Subjects : d = attempt[r].emp
    BY <1>1, <1>2 DEF CheckPassword, AttemptHolds
  <2>2. PICK x \in Attempt : /\ attempt' = [attempt EXCEPT ![r] = x]
                             /\ x = NoAttempt \/ x = [op |-> "admitted", emp |-> d, arg |-> Null]
    <3>1. [op |-> "admitted", emp |-> d, arg |-> Null] \in Attempt
      BY DEF Attempt
    <3>2. QED
      BY <1>2, <2>1, <3>1, Types DEF CheckPassword
  <2>3. x.op \in {"idle", "admitted"} /\ (x.op = "admitted" => x.emp \in Subjects)
    BY <2>2 DEF NoAttempt
  <2>4. /\ attempt'[r] = x /\ attempt[r].op = "password" /\ attempt' \in [Attempts -> Attempt]
        /\ \A q \in Attempts \ {r} : attempt'[q] = attempt[q]
        /\ UNCHANGED <<password, session, link, challenge, linkLock, challengeLock, employeeLock>>
    BY <1>2, <2>2, Types DEF CheckPassword
  <2>5. limiter' \in [Subjects -> Limiter] /\ FailuresCounted'
    <3>1. CASE attempt[r].arg = password[d]
      <4>1. limiter' = [limiter EXCEPT ![d] = NoFailure]
        BY <1>2, <2>1, <3>1 DEF CheckPassword
      <4>2. \A f \in Subjects : Guessing(f)' \subseteq Guessing(f)
        BY <2>2, <2>3, <2>4, Types DEF Guessing
      <4>3. QED
        BY <4>1, <4>2, CountReset
    <3>2. CASE attempt[r].arg # password[d]
      <4>1. limiter' = [limiter EXCEPT ![d] = Failed(d)] /\ attempt' = [attempt EXCEPT ![r] = NoAttempt]
        BY <1>2, <2>1, <3>2 DEF CheckPassword
      <4>2. r \in Guessing(d)
        BY <2>1, <2>4 DEF Guessing
      <4>3. QED
        BY <4>1, <4>2, FailureIsCounted
    <3>3. QED
      BY <3>1, <3>2
  <2>6. RowsName' /\ AttemptHolds(r)'
    BY <2>3, <2>4, Types DEF RowsName, AttemptHolds
  <2>7. QED
    BY <2>2, <2>4, <2>5, <2>6, Types, AttemptMoves
<1>3. ASSUME NEW s \in Sessions, OpenSession(r, s) PROVE AccountsInvariant'
  <2>1. /\ attempt[r].op \in {"admitted", "keyed"} /\ attempt'[r] = NoAttempt
        /\ attempt' \in [Attempts -> Attempt]
        /\ \A q \in Attempts \ {r} : attempt'[q] = attempt[q]
        /\ UNCHANGED <<password, link, challenge, limiter, linkLock, challengeLock, employeeLock>>
    BY <1>3, Types DEF OpenSession
  <2>2. [st |-> "live", emp |-> attempt[r].emp] \in SessionRow
    BY <1>1, <2>1 DEF AttemptHolds, SessionRow
  <2>3. session' \in [Sessions -> SessionRow]
    BY <1>3, <2>2, Types DEF OpenSession
  <2>4. FailuresCounted'
    BY <2>1, CountStays, Types DEF FailuresCounted, Guessing, NoAttempt
  <2>5. RowsName' /\ AttemptHolds(r)'
    BY <2>1, Types DEF RowsName, AttemptHolds, NoAttempt
  <2>6. QED
    BY <2>1, <2>3, <2>4, <2>5, Types, AttemptMoves
<1>4. QED
  BY <1>2, <1>3

\* A new challenge uses up open ones that nobody verifies.
LEMMA StoreChallengeStep ==
    ASSUME AccountsInvariant, NEW r \in Attempts, NEW c \in Challenges,
           NEW seen \in SUBSET Challenges, StoreChallenge(r, c, seen)
    PROVE  AccountsInvariant'
<1> DEFINE e == attempt[r].emp
<1>1. e \in Subjects /\ attempt[r].op = "options"
  BY Types DEF StoreChallenge, AttemptsHold, AttemptHolds
<1>2. /\ \A row \in AccountRow : [row EXCEPT !.st = "used"] \in AccountRow
                                  /\ [row EXCEPT !.st = "used"].emp = row.emp
      /\ [st |-> "fresh", emp |-> e] \in AccountRow
  BY <1>1 DEF AccountRow
<1>3. /\ challenge' = [d \in Challenges |->
            IF d = c THEN [st |-> "fresh", emp |-> e]
            ELSE IF d \in seen THEN [challenge[d] EXCEPT !.st = "used"] ELSE challenge[d]]
      /\ \A d \in seen : challengeLock[d] = Null /\ challenge[d].st = "fresh"
      /\ challengeLock[c] = Null
      /\ attempt' = [attempt EXCEPT ![r] = NoAttempt]
      /\ UNCHANGED <<password, session, link, limiter, linkLock, challengeLock, employeeLock>>
  BY HeldRows DEF StoreChallenge, Fresh
<1>4. /\ attempt' \in [Attempts -> Attempt] /\ attempt'[r] = NoAttempt
      /\ \A q \in Attempts \ {r} : attempt'[q] = attempt[q]
  BY <1>3, Types
<1> HIDE DEF e
<1>5. /\ challenge' \in [Challenges -> AccountRow]
      /\ \A d \in Challenges : challengeLock[d] # Null => challenge'[d] = challenge[d]
      /\ challenge'[c].emp \in Subjects
      /\ \A d \in Challenges \ {c} : /\ challenge'[d].emp = challenge[d].emp
                                      /\ challenge'[d].st # "none" => challenge[d].st # "none"
  BY <1>1, <1>2, <1>3, Types
<1>6. RowsName' /\ AttemptHolds(r)'
  BY <1>3, <1>4, <1>5, Types DEF RowsName, AttemptHolds, NoAttempt
<1>7. FailuresCounted'
  BY <1>3, <1>4, CountStays, Types DEF FailuresCounted, Guessing, NoAttempt
<1>8. QED
  BY <1>1, <1>3, <1>4, <1>5, <1>6, <1>7, Types, AttemptMoves

\* The newest open challenge is found, without a lock.
LEMMA FindChallengeStep ==
    ASSUME AccountsInvariant, NEW r \in Attempts, NEW c \in Challenges, FindChallenge(r, c)
    PROVE  AccountsInvariant'
<1>1. PICK e \in Subjects : e = attempt[r].emp
  BY Types DEF FindChallenge, AttemptsHold, AttemptHolds
<1>2. PICK x \in Attempt : x = [op |-> "found", emp |-> e, arg |-> c]
  BY DEF Attempt
<1>3. /\ attempt' \in [Attempts -> Attempt] /\ attempt[r].op = "passkey" /\ attempt'[r] = x
      /\ \A q \in Attempts \ {r} : attempt'[q] = attempt[q]
      /\ UNCHANGED <<password, session, link, challenge, limiter, linkLock, challengeLock, employeeLock>>
  BY <1>1, <1>2, Types DEF FindChallenge
<1>4. FailuresCounted'
  BY <1>1, <1>2, <1>3, CountStays, Types DEF FailuresCounted, Guessing
<1>5. RowsName' /\ AttemptHolds(r)'
  BY <1>2, <1>3, Types DEF RowsName, AttemptHolds
<1>6. QED
  BY <1>3, <1>4, <1>5, Types, AttemptMoves

\* A challenge is locked and answered; every failure of the route is counted,
\* that of a request already admitted included.
LEMMA PasskeyStep ==
    ASSUME AccountsInvariant, NEW r \in Attempts,
           LockChallenge(r) \/ PasskeyAdmits(r) \/ PasskeyFails(r)
    PROVE  AccountsInvariant'
<1> USE AccountsAssumption
<1>1. AttemptHolds(r)
  BY Types DEF AttemptsHold
<1>2. PICK e \in Subjects : e = attempt[r].emp
  BY <1>1 DEF LockChallenge, PasskeyAdmits, PasskeyFails, AttemptHolds
<1>3. CASE LockChallenge(r)
  <2>1. PICK c \in Challenges : c = attempt[r].arg
    BY <1>1, <1>3 DEF LockChallenge, AttemptHolds
  <2>2. [attempt[r] EXCEPT !.op = "verifying"] = [op |-> "verifying", emp |-> e, arg |-> c]
    BY <1>2, <2>1, Types DEF Attempt
  <2>3. [op |-> "verifying", emp |-> e, arg |-> c] \in Attempt
    BY DEF Attempt
  <2>4. attempt' = [attempt EXCEPT ![r] = [op |-> "verifying", emp |-> e, arg |-> c]]
    BY <1>3, <2>2, Types DEF LockChallenge
  <2>5. /\ attempt' \in [Attempts -> Attempt]
        /\ attempt'[r] = [op |-> "verifying", emp |-> e, arg |-> c]
        /\ \A q \in Attempts \ {r} : attempt'[q] = attempt[q]
    BY <2>3, <2>4, Types
  <2>6. /\ attempt[r].op = "found"
        /\ challengeLock' = [challengeLock EXCEPT ![c] = r] /\ challengeLock[c] = Null
        /\ challenge[c].st = "fresh"
        /\ UNCHANGED <<password, session, link, challenge, limiter, linkLock, employeeLock>>
    BY <2>1, <1>3 DEF LockChallenge
  <2>7. FailuresCounted'
    BY <1>2, <2>5, <2>6, CountStays, Types DEF FailuresCounted, Guessing
  <2>8. RowsName' /\ AttemptHolds(r)'
    BY <2>5, <2>6, Types DEF RowsName, AttemptHolds
  <2>9. QED
    BY <2>5, <2>6, <2>7, <2>8, Types, AttemptMoves
<1>4. /\ Freed(challengeLock, r) \in [Challenges -> Attempts \cup {Null}]
      /\ \A i \in Challenges :
            Freed(challengeLock, r)[i] = IF challengeLock[i] = r THEN Null ELSE challengeLock[i]
  BY Types DEF Freed
<1>5. CASE PasskeyAdmits(r)
  <2>1. PICK c \in Challenges : c = attempt[r].arg /\ challengeLock[c] = r /\ challenge[c].st = "fresh"
    BY <1>1, <1>5 DEF PasskeyAdmits, AttemptHolds
  <2>2. [op |-> "keyed", emp |-> e, arg |-> Null] \in Attempt
    BY DEF Attempt
  <2>3. /\ attempt' \in [Attempts -> Attempt] /\ attempt[r].op = "verifying"
        /\ attempt'[r] = [op |-> "keyed", emp |-> e, arg |-> Null]
        /\ \A q \in Attempts \ {r} : attempt'[q] = attempt[q]
        /\ challengeLock' = Freed(challengeLock, r)
        /\ challenge' = [challenge EXCEPT ![c].st = "used"]
        /\ limiter' = [limiter EXCEPT ![e] = NoFailure]
        /\ UNCHANGED <<password, session, link, linkLock, employeeLock>>
    BY <1>2, <1>5, <2>1, <2>2, Types DEF PasskeyAdmits
  <2>4. limiter' \in [Subjects -> Limiter] /\ FailuresCounted'
    <3>1. \A d \in Subjects : Guessing(d)' \subseteq Guessing(d)
      BY <1>2, <2>3 DEF Guessing
    <3>2. QED
      BY <2>3, <3>1, CountReset
  <2>5. /\ challenge' \in [Challenges -> AccountRow]
        /\ \A i \in Challenges : challenge'[i].emp = challenge[i].emp
        /\ \A i \in Challenges \ {c} : challenge'[i] = challenge[i]
    BY <2>1, <2>3, Types DEF AccountRow
  <2>6. RowsName' /\ AttemptHolds(r)'
    BY <2>1, <2>3, <2>5, Types DEF RowsName, AttemptHolds
  <2>7. QED
    <3>1. \A i \in Challenges :
             /\ challengeLock'[i] \in {challengeLock[i], Null} /\ challengeLock'[i] # r
             /\ challengeLock[i] \notin {r, Null} =>
                   challengeLock'[i] = challengeLock[i] /\ challenge'[i] = challenge[i]
      BY <1>4, <2>1, <2>3, <2>5
    <3>2. challengeLock' \in [Challenges -> Attempts \cup {Null}]
      BY <1>4, <2>3
    <3>3. \A k \in Links : linkLock[k] # r
      BY <2>3, Types
    <3>4. \A d \in Subjects : employeeLock[d] # r
      BY <2>3, Types
    <3>5. QED
      BY <2>3, <2>4, <2>5, <2>6, <3>1, <3>2, <3>3, <3>4, Types, AttemptMoves, SMTT(30)
<1>6. CASE PasskeyFails(r)
  <2>1. /\ attempt' \in [Attempts -> Attempt]
        /\ attempt[r].op \in {"passkey", "found", "verifying", "keyed"}
        /\ attempt' = [attempt EXCEPT ![r] = NoAttempt] /\ attempt'[r] = NoAttempt
        /\ \A q \in Attempts \ {r} : attempt'[q] = attempt[q]
        /\ challengeLock' = Freed(challengeLock, r)
        /\ limiter' = [limiter EXCEPT ![e] = Failed(e)]
        /\ UNCHANGED <<password, session, link, challenge, linkLock, employeeLock>>
    BY <1>2, <1>6, Types DEF PasskeyFails
  <2>2. r \in Guessing(e)
    BY <1>2, <2>1 DEF Guessing
  <2>3. limiter' \in [Subjects -> Limiter] /\ FailuresCounted'
    BY <2>1, <2>2, FailureIsCounted
  <2>4. RowsName' /\ AttemptHolds(r)'
    BY <2>1, Types DEF RowsName, AttemptHolds, NoAttempt
  <2>5. QED
    BY <1>4, <2>1, <2>3, <2>4, Types, AttemptMoves
<1>7. QED
  BY <1>3, <1>5, <1>6

\* A reset locks the employee, spends the links, or fails.
LEMMA ResetStep ==
    ASSUME AccountsInvariant, NEW r \in Attempts,
           LockEmployee(r) \/ FinishReset(r) \/ AttemptFails(r)
    PROVE  AccountsInvariant'
<1> USE AccountsAssumption
<1>1. AttemptHolds(r)
  BY Types DEF AttemptsHold
<1>2. PICK e \in Subjects : e = attempt[r].emp
  BY <1>1 DEF LockEmployee, FinishReset, AttemptFails, AttemptHolds
<1>3. CASE LockEmployee(r)
  <2>1. PICK k \in Links : k = attempt[r].arg
    BY <1>1, <1>3 DEF LockEmployee, AttemptHolds
  <2>2. [attempt[r] EXCEPT !.op = "resetting"] = [op |-> "resetting", emp |-> e, arg |-> k]
    BY <1>2, <2>1, Types DEF Attempt
  <2>3. [op |-> "resetting", emp |-> e, arg |-> k] \in Attempt
    BY DEF Attempt
  <2>4. attempt' = [attempt EXCEPT ![r] = [op |-> "resetting", emp |-> e, arg |-> k]]
    BY <1>3, <2>2, Types DEF LockEmployee
  <2>5. /\ attempt' \in [Attempts -> Attempt]
        /\ attempt'[r] = [op |-> "resetting", emp |-> e, arg |-> k]
        /\ \A q \in Attempts \ {r} : attempt'[q] = attempt[q]
    BY <2>3, <2>4, Types
  <2>6. /\ attempt[r].op = "reset"
        /\ employeeLock' = [employeeLock EXCEPT ![e] = r]
        /\ UNCHANGED <<password, session, link, challenge, limiter, linkLock, challengeLock>>
    BY <1>2, <1>3 DEF LockEmployee
  <2>7. FailuresCounted'
    BY <2>6, <2>5, CountStays, Types DEF FailuresCounted, Guessing
  <2>8. RowsName' /\ AttemptHolds(r)' /\ link[k].st = "fresh"
    BY <1>1, <1>2, <2>1, <2>6, <2>5, Types DEF RowsName, AttemptHolds
  <2>9. \A i \in Links : linkLock[i] = r => i = k
    BY <2>1, Types
  <2>10. QED
    BY <2>1, <2>6, <2>7, <2>8, <2>5, <2>9, Types, AttemptMoves
<1>4. /\ Freed(linkLock, r) \in [Links -> Attempts \cup {Null}]
      /\ \A i \in Links : Freed(linkLock, r)[i] = IF linkLock[i] = r THEN Null ELSE linkLock[i]
      /\ Freed(employeeLock, r) \in [Subjects -> Attempts \cup {Null}]
      /\ \A i \in Subjects :
            Freed(employeeLock, r)[i] = IF employeeLock[i] = r THEN Null ELSE employeeLock[i]
  BY Types DEF Freed
<1>5. ASSUME attempt' = [attempt EXCEPT ![r] = NoAttempt], attempt[r].op \notin {"idle", "verifying"},
             linkLock' = Freed(linkLock, r), employeeLock' = Freed(employeeLock, r),
             UNCHANGED <<challenge, limiter, challengeLock>>,
             password' \in [Subjects -> 0..MaxResets], session' \in [Sessions -> SessionRow],
             link' \in [Links -> AccountRow],
             \A k \in Links : link'[k].emp = link[k].emp,
             \A k \in Links : link'[k].st # "none" => link[k].st # "none",
             \A k \in Links : linkLock[k] \notin {r, Null} => link'[k] = link[k]
      PROVE  AccountsInvariant'
  <2>1. /\ attempt' \in [Attempts -> Attempt] /\ attempt'[r] = NoAttempt
        /\ \A q \in Attempts \ {r} : attempt'[q] = attempt[q]
    BY <1>5, Types
  <2>2. FailuresCounted'
    BY <1>5, <2>1, CountStays, Types DEF FailuresCounted, Guessing, NoAttempt
  <2>3. RowsName' /\ AttemptHolds(r)'
    BY <1>5, <2>1, Types DEF RowsName, AttemptHolds, NoAttempt
  <2>4. QED
    <3>1. /\ linkLock' \in [Links -> Attempts \cup {Null}]
          /\ \A k \in Links : /\ linkLock'[k] \in {linkLock[k], Null} /\ linkLock'[k] # r
                              /\ linkLock[k] \notin {r, Null} => linkLock'[k] = linkLock[k]
      BY <1>4, <1>5
    <3>2. /\ employeeLock' \in [Subjects -> Attempts \cup {Null}]
          /\ \A d \in Subjects : employeeLock'[d] \in {employeeLock[d], Null} /\ employeeLock'[d] # r
      BY <1>4, <1>5
    <3>3. \A c \in Challenges : challengeLock[c] # r
      BY <1>5, Types
    <3>4. QED
      BY <1>5, <2>1, <2>2, <2>3, <3>1, <3>2, <3>3, Types, AttemptMoves
<1>6. CASE FinishReset(r)
  <2>1. password' \in [Subjects -> 0..MaxResets]
    BY <1>2, <1>6, Types DEF FinishReset
  <2>2. \A row \in SessionRow : [row EXCEPT !.st = "revoked"] \in SessionRow
    BY DEF SessionRow
  <2>3. \A row \in AccountRow : [row EXCEPT !.st = "used"] \in AccountRow
                                /\ [row EXCEPT !.st = "used"].emp = row.emp
    BY DEF AccountRow
  <2>4. session' \in [Sessions -> SessionRow]
    BY <1>6, <2>2, Types DEF FinishReset
  <2>5. /\ link' \in [Links -> AccountRow] /\ \A k \in Links : link'[k].emp = link[k].emp
        /\ \A k \in Links : link'[k].st # "none" => link[k].st # "none"
    BY <1>6, <2>3, Types DEF FinishReset, Fresh
  <2>6. \A k \in Links : linkLock[k] \notin {r, Null} => link'[k] = link[k]
    BY <1>6, Types DEF FinishReset
  <2>7. QED
    BY <1>5, <1>6, <2>1, <2>4, <2>5, <2>6 DEF FinishReset
<1>7. CASE AttemptFails(r)
  BY <1>5, <1>7, Types DEF AttemptFails
<1>8. QED
  BY <1>3, <1>6, <1>7

\* Every step preserves the inductive invariant.
LEMMA AccountsNextPreserves == AccountsInvariant /\ [AccountsNext]_accountsVars => AccountsInvariant'
<1> SUFFICES ASSUME AccountsInvariant, [AccountsNext]_accountsVars PROVE AccountsInvariant'
  OBVIOUS
<1>1. CASE UNCHANGED accountsVars
  BY <1>1, Types, RowStep DEF accountsVars, RowsName
<1>2. CASE AccountsNext
  BY <1>2, SessionStep, InsertStep, LimiterStep, BeginStep, PasswordStep, StoreChallengeStep,
     FindChallengeStep, PasskeyStep, ResetStep
     DEF AccountsNext
<1>3. QED
  BY <1>1, <1>2

-----------------------------------------------------------------------------
(* The theorems.                                                           *)

\* The inductive invariant holds in every reachable state.
THEOREM AccountsInvariance == AccountsSpec => []AccountsInvariant
BY AccountsInitEstablishes, AccountsNextPreserves, PTL DEF AccountsSpec

\* Rows, requests and the limiter keep their types; a lock belongs to the
\* request that took it, in the transaction that needs it.
THEOREM AccountsTypeCorrect == AccountsSpec => []AccountsTypeOK
<1>1. AccountsInvariant => AccountsTypeOK
  BY DEF AccountsInvariant
<1>2. QED
  BY AccountsInvariance, <1>1, PTL

\* However many requests run at once, the failures counted against an account
\* stay below the limit and the number of requests (checkLoginRateLimit is
\* asked before the account is read, recordFailedLogin counts after).  A passkey
\* that was right clears the count, and is counted itself when its session
\* cannot be inserted.
THEOREM GuessesAreBounded == AccountsSpec => []FailuresBounded
<1>1. AccountsInvariant => FailuresBounded
  <2> SUFFICES ASSUME AccountsInvariant, NEW e \in Subjects
               PROVE  limiter[e].failed < MaxFailures + Cardinality(Attempts)
    BY DEF FailuresBounded
  <2>1. /\ Counted(e) /\ limiter[e].failed \in Nat /\ MaxFailures \in Nat
        /\ Cardinality(Guessing(e)) \in Nat /\ Cardinality(Attempts) \in Nat
    BY Types, Numbers, AccountsAssumption DEF FailuresCounted, Guessing, Limiter
  <2>2. QED
    BY <2>1 DEF Counted
<1>2. QED
  BY AccountsInvariance, <1>1, PTL

\* A challenge admits the request that verifies it and is used up with it
\* (consumeWebAuthnChallenge updates the row it selected while it is open).
THEOREM ChallengesAdmitOnce == AccountsSpec => ChallengeAdmitsOnce
<1>1. ASSUME AccountsInvariant, [AccountsNext]_accountsVars
      PROVE  [\A r \in Attempts :
                (attempt[r].op = "verifying" /\ attempt'[r].op = "keyed") =>
                    challenge[attempt[r].arg].st = "fresh"
                    /\ challenge'[attempt[r].arg].st = "used"]_accountsVars
  <2> SUFFICES ASSUME AccountsNext, NEW r \in Attempts,
                      attempt[r].op = "verifying", attempt'[r].op = "keyed"
               PROVE  challenge[attempt[r].arg].st = "fresh" /\ challenge'[attempt[r].arg].st = "used"
    BY <1>1
  <2>1. PICK c \in Challenges : c = attempt[r].arg /\ challenge[c].st = "fresh"
    <3>1. AttemptHolds(r)
      BY <1>1, Types DEF AttemptsHold
    <3>2. QED
      BY <3>1 DEF AttemptHolds
  <2>2. attempt'[r] # attempt[r] /\ attempt'[r].op # attempt[r].op
    OBVIOUS
  <2>3. CASE \E q \in Attempts : PasskeyAdmits(q)
    <3>1. PICK q \in Attempts : PasskeyAdmits(q)
      BY <2>3
    <3>2. q = r
      BY <1>1, <2>2, <3>1, Types DEF PasskeyAdmits
    <3>3. challenge'[c] = [challenge[c] EXCEPT !.st = "used"]
      BY <1>1, <2>1, <3>1, <3>2, Types DEF PasskeyAdmits
    <3>4. QED
      BY <1>1, <2>1, <3>3, Types DEF AccountRow
  <2>4. CASE UNCHANGED attempt \/ ServerRestarts
    BY <2>2, <2>4 DEF ServerRestarts, NoAttempt
  <2>5. ASSUME NEW q \in Attempts,
               \/ \E e \in Subjects, v \in 0..MaxResets : StartPassword(q, e, v)
               \/ \E e \in Subjects : StartOptions(q, e) \/ StartPasskey(q, e)
               \/ \E d \in Challenges : FindChallenge(q, d)
               \/ \E k \in Links : LockLink(q, k)
               \/ CheckPassword(q) \/ LockChallenge(q) \/ LockEmployee(q)
        PROVE  FALSE
    <3>1. attempt[q].op \in {"idle", "password", "passkey", "found", "reset"} /\ q # r
      BY <2>5 DEF Start, StartPassword, StartOptions, StartPasskey, FindChallenge, LockLink,
                  CheckPassword, LockChallenge, LockEmployee
    <3>2. \A a \in Attempts \ {q} : attempt'[a] = attempt[a]
      BY <1>1, <2>5, Types
         DEF Start, StartPassword, StartOptions, StartPasskey, FindChallenge, LockLink,
             CheckPassword, LockChallenge, LockEmployee
    <3>3. QED
      BY <2>2, <3>1, <3>2
  <2>6. ASSUME NEW q \in Attempts,
               \/ \E s \in Sessions : OpenSession(q, s)
               \/ \E d \in Challenges, seen \in SUBSET Challenges : StoreChallenge(q, d, seen)
               \/ PasskeyFails(q) \/ FinishReset(q) \/ AttemptFails(q)
        PROVE  FALSE
    <3>1. attempt' = [attempt EXCEPT ![q] = NoAttempt]
      BY <2>6 DEF OpenSession, StoreChallenge, PasskeyFails, FinishReset, AttemptFails
    <3>2. QED
      BY <1>1, <2>2, <3>1, Types DEF NoAttempt
  <2>7. QED
    BY <2>3, <2>4, <2>5, <2>6
       DEF AccountsNext, LockRunsOut, WindowEnds, RequestReset, LinkExpires,
           ChallengeExpires, RevokeSession, SessionExpires, CleanupSession, RevokeSessions
<1>2. QED
  BY AccountsInvariance, <1>1, PTL DEF AccountsSpec, ChallengeAdmitsOnce

\* A password changes only by spending a link of its account, and the step
\* leaves no open link and no live session (the reset holds the link FOR
\* UPDATE from its first read to the commit).
THEOREM ResetsSpendLinks == AccountsSpec => ResetSpendsLinks
<1>1. ASSUME AccountsInvariant, [AccountsNext]_accountsVars
      PROVE  [\A e \in Subjects : password'[e] # password[e] =>
                /\ Fresh(link, e) # {} /\ Fresh(link, e)' = {}
                /\ Live(e)' = {}]_accountsVars
  <2> SUFFICES ASSUME AccountsNext, NEW e \in Subjects, password'[e] # password[e]
               PROVE  Fresh(link, e) # {} /\ Fresh(link, e)' = {} /\ Live(e)' = {}
    BY <1>1, SMTT(30)
  <2>1. PICK r \in Attempts : FinishReset(r)
    BY DEF AccountsNext, LockRunsOut, WindowEnds, ServerRestarts, Start, StartPassword,
           StartOptions, StartPasskey, CheckPassword, OpenSession, StoreChallenge, FindChallenge,
           LockChallenge, PasskeyAdmits, PasskeyFails,
           RequestReset, LinkExpires, ChallengeExpires, LockLink, LockEmployee, AttemptFails,
           RevokeSession, SessionExpires, CleanupSession, RevokeSessions
  <2>2. attempt[r].emp = e
    BY <1>1, <2>1, Types DEF FinishReset
  <2>3. attempt[r].arg \in Links /\ link[attempt[r].arg] = [st |-> "fresh", emp |-> e]
    BY <1>1, <2>1, <2>2, Types DEF FinishReset, AttemptsHold, AttemptHolds
  <2>4. Fresh(link, e) # {}
    BY <1>1, <2>3, Types DEF Fresh
  <2>5. Fresh(link, e)' = {}
    <3>1. \A k \in Links : link'[k] # [st |-> "fresh", emp |-> e]
      BY <1>1, <2>1, <2>2, Types DEF FinishReset, Fresh, AccountRow
    <3>2. DOMAIN link' = Links
      BY <2>1 DEF FinishReset
    <3>3. QED
      BY <3>1, <3>2 DEF Fresh
  <2>6. Live(e)' = {}
    BY <1>1, <2>1, <2>2, Types DEF FinishReset, Live, SessionRow
  <2>7. QED
    BY <2>4, <2>5, <2>6
<1>2. QED
  BY AccountsInvariance, <1>1, PTL DEF AccountsSpec, ResetSpendsLinks

-----------------------------------------------------------------------------
(* Authority.                                                              *)

\* A request that changes assignments holds the authority lock, one that
\* archives holds the row of a role of the tenant.
ClerksHoldLocks == \A r \in Clerks :
    /\ clerk[r].op \in {"assign", "legacyAssign", "revoke"} => authorityLock = r
    /\ clerk[r].op = "archive" => clerk[r].role \in Roles /\ roleLock[clerk[r].role] = r

\* The administrators there would be at t without some assignments.
AdminsWithout(rows, t) ==
    LegacyAdmins \cup {e \in Staff : EffectiveAt(e, t) \ rows # {}}

\* What a revocation found when it looked is so until it commits.
RevocationsAreSafe == \A r \in Clerks : clerk[r].op = "revoke" =>
    (AdminsAt(clerk[r].at) # {} => AdminsWithout(clerk[r].rows, clerk[r].at) # {})

\* Nobody holds a role while it is being archived.
Unheld(o) == \A a \in Assignments : (assigned[a].st = "live" /\ assigned[a].grant.role = o) =>
    assigned[a].grant.until # Null /\ assigned[a].grant.until <= clock
ArchivesAreSafe == \A r \in Clerks : clerk[r].op = "archive" => Unheld(clerk[r].role)

AuthorityInvariant ==
    AuthorityTypeOK /\ ClerksHoldLocks /\ RevocationsAreSafe /\ ArchivesAreSafe

\* At the start nobody works, no lock is held and the first administrator stands.
LEMMA AuthorityInitEstablishes == AuthorityInit => AuthorityInvariant
<1> SUFFICES ASSUME AuthorityInit PROVE AuthorityInvariant
  OBVIOUS
<1> USE AuthorityAssumption, TenantAssumption DEF AuthorityInit
<1>1. NoWork \in Clerk /\ NoWork.op = "idle"
  BY DEF NoWork, Clerk
<1>2. \A e \in Staff : [emp |-> e, role |-> HrAdmin, from |-> 0, until |-> Null] \in Grant
  BY DEF Grant, AnyRole
<1>3. AuthorityTypeOK
  <2>1. assigned \in [Assignments -> AssignmentRow]
    BY <1>2 DEF AssignmentRow, NoAssignment
  <2>2. QED
    BY <1>1, <2>1 DEF AuthorityTypeOK
<1>4. ClerksHoldLocks /\ RevocationsAreSafe /\ ArchivesAreSafe
  BY <1>1 DEF ClerksHoldLocks, RevocationsAreSafe, ArchivesAreSafe
<1>5. QED
  BY <1>3, <1>4 DEF AuthorityInvariant

\* The locks of r when it ends: none is left.
FreedRoles(r) == [o \in AnyRole |-> IF roleLock[o] = r THEN Null ELSE roleLock[o]]

\* A request that takes up work: it holds no lock before, the assignments and
\* the clock stay, and it may take the authority lock or the row of a role.
LEMMA ClerkBegins ==
    ASSUME AuthorityInvariant, NEW r \in Clerks, NEW w \in Clerk, clerk[r].op = "idle",
           clerk' = [clerk EXCEPT ![r] = w], UNCHANGED <<assigned, archived, clock>>,
           w.op # "idle",
           \/ w.op \in {"assign", "legacyAssign", "revoke"} /\ authorityLock = Null /\ authorityLock' = r
           \/ w.op = "archive" /\ authorityLock' = authorityLock,
           \/ w.op \notin {"assign", "archive"} /\ roleLock' = roleLock
           \/ \E o \in AnyRole : /\ roleLock[o] = Null /\ roleLock' = [roleLock EXCEPT ![o] = r]
                                 /\ \/ w.op = "assign" /\ w.grant.role = o
                                    \/ w.op = "archive" /\ w.role = o,
           w.op = "archive" => w.role \in Roles /\ Unheld(w.role),
           w.op = "revoke" => (AdminsAt(w.at) # {} => AdminsWithout(w.rows, w.at) # {})
    PROVE  AuthorityInvariant'
<1> USE AuthorityAssumption
<1>1. AuthorityTypeOK
  BY DEF AuthorityInvariant
<1>2. /\ clerk' \in [Clerks -> Clerk] /\ clerk'[r] = w
      /\ \A c \in Clerks : c # r => clerk'[c] = clerk[c]
  BY <1>1 DEF AuthorityTypeOK
<1>3. authorityLock # r /\ \A o \in AnyRole : roleLock[o] # r
  BY <1>1 DEF AuthorityTypeOK
<1>4. /\ roleLock' \in [AnyRole -> Clerks \cup {Null}]
      /\ \A o \in AnyRole :
            \/ roleLock'[o] = roleLock[o]
            \/ /\ roleLock[o] = Null /\ roleLock'[o] = r
               /\ \/ w.op = "assign" /\ w.grant.role = o
                  \/ w.op = "archive" /\ w.role = o
  BY <1>1 DEF AuthorityTypeOK
<1>5. \A o \in AnyRole : roleLock'[o] # Null =>
          \/ clerk'[roleLock'[o]].op = "assign" /\ clerk'[roleLock'[o]].grant.role = o
          \/ clerk'[roleLock'[o]].op = "archive" /\ clerk'[roleLock'[o]].role = o
  <2> SUFFICES ASSUME NEW o \in AnyRole, roleLock'[o] # Null
               PROVE  \/ clerk'[roleLock'[o]].op = "assign" /\ clerk'[roleLock'[o]].grant.role = o
                      \/ clerk'[roleLock'[o]].op = "archive" /\ clerk'[roleLock'[o]].role = o
    OBVIOUS
  <2>1. CASE roleLock'[o] = r
    BY <2>1, <1>2, <1>3, <1>4
  <2>2. CASE roleLock'[o] # r
    <3>1. roleLock'[o] = roleLock[o]
      BY <2>2, <1>4
    <3>2. roleLock[o] \in Clerks
      BY <3>1, <1>1 DEF AuthorityTypeOK
    <3>3. clerk'[roleLock[o]] = clerk[roleLock[o]]
      BY <2>2, <3>1, <3>2, <1>2
    <3>4. QED
      BY <3>1, <3>3, <1>1 DEF AuthorityTypeOK
  <2>3. QED
    BY <2>1, <2>2
<1>6. AuthorityTypeOK'
  BY <1>1, <1>2, <1>3, <1>4, <1>5 DEF AuthorityTypeOK
<1>7. ClerksHoldLocks'
  <2> SUFFICES ASSUME NEW c \in Clerks
               PROVE  /\ clerk'[c].op \in {"assign", "legacyAssign", "revoke"} => authorityLock' = c
                      /\ clerk'[c].op = "archive" =>
                            clerk'[c].role \in Roles /\ roleLock'[clerk'[c].role] = c
    BY DEF ClerksHoldLocks
  <2>1. CASE c = r
    BY <2>1, <1>1, <1>2 DEF AuthorityTypeOK, AnyRole
  <2>2. CASE c # r
    BY <2>2, <1>2, <1>4 DEF AuthorityInvariant, ClerksHoldLocks, AnyRole
  <2>3. QED
    BY <2>1, <2>2
<1>8. RevocationsAreSafe' /\ ArchivesAreSafe'
  BY <1>2 DEF AuthorityInvariant, RevocationsAreSafe, ArchivesAreSafe, AdminsAt, AdminsWithout,
              EffectiveAt, Unrevoked, Unheld
<1>9. QED
  BY <1>6, <1>7, <1>8 DEF AuthorityInvariant

\* A request that ends, having changed the assignments only under the
\* authority lock and given no role that is being archived by another.
LEMMA ClerkEnds ==
    ASSUME AuthorityInvariant, NEW r \in Clerks,
           clerk' = [clerk EXCEPT ![r] = NoWork], UNCHANGED clock,
           authorityLock' = (IF authorityLock = r THEN Null ELSE authorityLock),
           roleLock' = FreedRoles(r),
           assigned' \in [Assignments -> AssignmentRow], archived' \subseteq Roles,
           assigned' = assigned \/ clerk[r].op \in {"assign", "legacyAssign", "revoke"},
           \A a \in Assignments : assigned'[a].st = "live" =>
              assigned'[a] = assigned[a] \/ roleLock[assigned'[a].grant.role] \in {r, Null}
    PROVE  AuthorityInvariant'
<1> USE AuthorityAssumption
<1>1. AuthorityTypeOK
  BY DEF AuthorityInvariant
<1>2. NoWork \in Clerk /\ NoWork.op = "idle"
  BY DEF NoWork, Clerk
<1>3. /\ clerk' \in [Clerks -> Clerk] /\ clerk'[r].op = "idle"
      /\ \A c \in Clerks : c # r => clerk'[c] = clerk[c]
  BY <1>1, <1>2 DEF AuthorityTypeOK
<1>4. /\ roleLock' \in [AnyRole -> Clerks \cup {Null}]
      /\ \A o \in AnyRole : roleLock'[o] = IF roleLock[o] = r THEN Null ELSE roleLock[o]
  BY <1>1 DEF AuthorityTypeOK, FreedRoles
<1>5. \A o \in AnyRole : roleLock'[o] # Null => clerk'[roleLock'[o]] = clerk[roleLock[o]]
                                               /\ roleLock'[o] = roleLock[o]
  BY <1>1, <1>3, <1>4 DEF AuthorityTypeOK
<1>6. AuthorityTypeOK'
  <2>1. authorityLock' # Null => clerk'[authorityLock'].op \notin {"idle", "archive"}
    BY <1>1, <1>3 DEF AuthorityTypeOK
  <2>2. \A o \in AnyRole : roleLock'[o] # Null =>
          \/ clerk'[roleLock'[o]].op = "assign" /\ clerk'[roleLock'[o]].grant.role = o
          \/ clerk'[roleLock'[o]].op = "archive" /\ clerk'[roleLock'[o]].role = o
    BY <1>1, <1>5 DEF AuthorityTypeOK
  <2>3. QED
    BY <1>1, <1>3, <1>4, <2>1, <2>2 DEF AuthorityTypeOK
<1>7. ClerksHoldLocks'
  <2> SUFFICES ASSUME NEW c \in Clerks, c # r
               PROVE  /\ clerk[c].op \in {"assign", "legacyAssign", "revoke"} => authorityLock' = c
                      /\ clerk[c].op = "archive" =>
                            clerk[c].role \in Roles /\ roleLock'[clerk[c].role] = c
    BY <1>3 DEF ClerksHoldLocks
  <2>1. QED
    BY <1>4 DEF AuthorityInvariant, ClerksHoldLocks, AnyRole
<1>8. RevocationsAreSafe'
  <2> SUFFICES ASSUME NEW c \in Clerks, clerk'[c].op = "revoke"
               PROVE  AdminsAt(clerk[c].at)' # {}
                         => AdminsWithout(clerk[c].rows, clerk[c].at)' # {}
    BY DEF RevocationsAreSafe
  <2>1. c # r /\ clerk'[c] = clerk[c]
    BY <1>3
  <2>2. authorityLock = c
    BY <2>1 DEF AuthorityInvariant, ClerksHoldLocks
  <2>3. assigned' = assigned
    BY <2>1, <2>2 DEF AuthorityInvariant, ClerksHoldLocks
  <2>4. QED
    BY <2>1, <2>3 DEF AuthorityInvariant, RevocationsAreSafe, AdminsAt, AdminsWithout,
                      EffectiveAt, Unrevoked
<1>9. ArchivesAreSafe'
  <2> SUFFICES ASSUME NEW c \in Clerks, clerk'[c].op = "archive", NEW a \in Assignments,
                      assigned'[a].st = "live", assigned'[a].grant.role = clerk'[c].role
               PROVE  assigned'[a].grant.until # Null /\ assigned'[a].grant.until <= clock
    BY DEF ArchivesAreSafe, Unheld
  <2>1. c # r /\ clerk'[c] = clerk[c]
    BY <1>3
  <2>2. roleLock[clerk[c].role] = c
    BY <2>1 DEF AuthorityInvariant, ClerksHoldLocks
  <2>3. assigned'[a] = assigned[a]
    BY <2>1, <2>2
  <2>4. QED
    BY <2>1, <2>3 DEF AuthorityInvariant, ArchivesAreSafe, Unheld
<1>10. QED
  BY <1>6, <1>7, <1>8, <1>9 DEF AuthorityInvariant

\* A request that holds no row of a role frees none.
LEMMA NoneToFree ==
    ASSUME AuthorityInvariant, NEW r \in Clerks, clerk[r].op \notin {"assign", "archive"}
    PROVE  FreedRoles(r) = roleLock
BY AuthorityAssumption DEF AuthorityInvariant, AuthorityTypeOK, FreedRoles

\* Checking a new assignment, or renewing one, holds what the clerk locked.
LEMMA AssignStep ==
    ASSUME AuthorityInvariant, NEW r \in Clerks,
           \/ \E e \in Staff, o \in AnyRole, from \in clock..MaxInstant,
                 until \in ((clock + 1)..MaxInstant) \cup {Null} :
                   AssignChecks(r, [emp |-> e, role |-> o, from |-> from, until |-> until])
           \/ \E e \in Staff, o \in AnyRole : LegacyAssignChecks(r, e, o)
    PROVE  AuthorityInvariant'
<1> USE AuthorityAssumption
<1>1. clock \in 0..MaxInstant
  BY DEF AuthorityInvariant, AuthorityTypeOK
<1>2. ASSUME NEW e \in Staff, NEW o \in AnyRole, NEW from \in clock..MaxInstant,
             NEW until \in ((clock + 1)..MaxInstant) \cup {Null},
             AssignChecks(r, [emp |-> e, role |-> o, from |-> from, until |-> until])
      PROVE  AuthorityInvariant'
  <2> DEFINE g == [emp |-> e, role |-> o, from |-> from, until |-> until]
             w == [NoWork EXCEPT !.op = "assign", !.grant = g, !.at = clock]
  <2>1. g \in Grant /\ g.role = o
    <3>1. from \in 0..MaxInstant /\ until \in (1..MaxInstant) \cup {Null}
      BY <1>1
    <3>2. QED
      BY <3>1 DEF Grant
  <2>2. /\ clerk[r].op = "idle" /\ authorityLock = Null /\ roleLock[o] = Null
        /\ authorityLock' = r /\ roleLock' = [roleLock EXCEPT ![o] = r]
        /\ clerk' = [clerk EXCEPT ![r] = w] /\ UNCHANGED <<assigned, archived, clock>>
    BY <1>2 DEF AssignChecks
  <2> HIDE DEF g
  <2>3. w \in Clerk /\ w.op = "assign" /\ w.grant.role = o
    BY <1>1, <2>1 DEF Clerk, NoWork
  <2> HIDE DEF w
  <2>4. QED
    BY <2>2, <2>3, ClerkBegins
<1>3. ASSUME NEW e \in Staff, NEW o \in AnyRole, LegacyAssignChecks(r, e, o)
      PROVE  AuthorityInvariant'
  <2> DEFINE g == [emp |-> e, role |-> o, from |-> clock, until |-> Null]
             w == [NoWork EXCEPT !.op = "legacyAssign", !.at = clock, !.grant = g]
  <2>1. g \in Grant
    BY <1>1 DEF Grant
  <2>2. /\ clerk[r].op = "idle" /\ authorityLock = Null /\ authorityLock' = r
        /\ clerk' = [clerk EXCEPT ![r] = w] /\ UNCHANGED <<assigned, archived, roleLock, clock>>
    BY <1>3 DEF LegacyAssignChecks
  <2> HIDE DEF g
  <2>3. w \in Clerk /\ w.op = "legacyAssign"
    BY <1>1, <2>1 DEF Clerk, NoWork
  <2> HIDE DEF w
  <2>4. QED
    BY <2>2, <2>3, ClerkBegins
<1>4. QED
  BY <1>2, <1>3

\* The INSERT of an assignment only adds a live row.
LEMMA AssignCommitsKeeps ==
    ASSUME AuthorityInvariant, NEW r \in Clerks, NEW a \in Assignments, AssignCommits(r, a)
    PROVE  AuthorityInvariant'
<1> USE AuthorityAssumption
<1> DEFINE g == clerk[r].grant
           over == {b \in Unrevoked(g.emp, g.role) :
                       assigned[b].grant.until # Null /\ assigned[b].grant.until <= clock}
<1>1. /\ clerk[r].op \in {"assign", "legacyAssign"}
      /\ roleLock[g.role] \in {r, Null}
      /\ assigned' = [b \in Assignments |->
            IF b = a THEN [st |-> "live", grant |-> g]
            ELSE IF b \in over THEN [assigned[b] EXCEPT !.st = "revoked"] ELSE assigned[b]]
      /\ authorityLock' = Null
      /\ roleLock' = FreedRoles(r)
      /\ clerk' = [clerk EXCEPT ![r] = NoWork]
      /\ UNCHANGED <<archived, clock>>
  BY DEF AssignCommits, FreedRoles
<1>2. g \in Grant \cup {NoGrant}
  BY DEF AuthorityInvariant, AuthorityTypeOK, Clerk
<1> HIDE DEF over, g
<1>3. authorityLock = r
  BY <1>1 DEF AuthorityInvariant, ClerksHoldLocks
<1>4. \A b \in Assignments :
          /\ assigned'[b] \in AssignmentRow
          /\ assigned'[b].st = "live" => assigned'[b] = assigned[b] \/ assigned'[b].grant = g
  <2> SUFFICES ASSUME NEW b \in Assignments
               PROVE  /\ assigned'[b] \in AssignmentRow
                      /\ assigned'[b].st = "live" =>
                            assigned'[b] = assigned[b] \/ assigned'[b].grant = g
    OBVIOUS
  <2>1. assigned[b] \in AssignmentRow
    BY DEF AuthorityInvariant, AuthorityTypeOK
  <2>2. CASE b = a
    BY <2>2, <1>1, <1>2 DEF AssignmentRow
  <2>3. CASE b # a /\ b \in over
    BY <2>1, <2>3, <1>1 DEF AssignmentRow
  <2>4. CASE b # a /\ b \notin over
    BY <2>1, <2>4, <1>1
  <2>5. QED
    BY <2>2, <2>3, <2>4
<1>5. assigned' \in [Assignments -> AssignmentRow]
  <2>1. assigned' = [b \in Assignments |-> assigned'[b]]
    BY <1>1
  <2>2. QED
    BY <1>4, <2>1
<1>6. archived' \subseteq Roles
  BY <1>1 DEF AuthorityInvariant, AuthorityTypeOK
<1>7. QED
  BY <1>1, <1>3, <1>4, <1>5, <1>6, ClerkEnds

\* The rows a revocation takes are all of one employee and one role: without
\* them some administrator is left, if there was one.
LEMMA SafeToRevoke ==
    ASSUME NEW e \in Staff, NEW o \in AnyRole, NEW rows \in SUBSET Assignments,
           rows \subseteq Unrevoked(e, o), o = HrAdmin => MayBeRevoked(e, rows)
    PROVE  AdminsAt(clock) # {} => AdminsWithout(rows, clock) # {}
<1> SUFFICES ASSUME AdminsAt(clock) # {} PROVE AdminsWithout(rows, clock) # {}
  OBVIOUS
<1>1. CASE LegacyAdmins # {}
  BY <1>1 DEF AdminsWithout
<1>2. CASE LegacyAdmins = {}
  <2>1. ASSUME NEW d \in Staff, d # e \/ o # HrAdmin
        PROVE  EffectiveAt(d, clock) \ rows = EffectiveAt(d, clock)
    BY <2>1 DEF EffectiveAt, Unrevoked
  <2>2. PICK d \in Staff : EffectiveAt(d, clock) # {}
    BY <1>2 DEF AdminsAt
  <2>3. CASE d # e \/ o # HrAdmin
    BY <2>1, <2>2, <2>3 DEF AdminsWithout
  <2>4. CASE d = e /\ o = HrAdmin
    <3>1. EffectiveAt(e, clock) \ rows # {} \/ AdminsAt(clock) \ {e} # {}
      BY <1>2, <2>2, <2>4 DEF MayBeRevoked, AdminsAt
    <3>2. CASE EffectiveAt(e, clock) \ rows # {}
      BY <3>2 DEF AdminsWithout
    <3>3. CASE AdminsAt(clock) \ {e} # {}
      <4>1. PICK f \in Staff : f # e /\ EffectiveAt(f, clock) # {}
        BY <1>2, <3>3 DEF AdminsAt
      <4>2. EffectiveAt(f, clock) \ rows # {}
        BY <4>1, <2>1
      <4>3. QED
        BY <4>2 DEF AdminsWithout
    <3>4. QED
      BY <3>1, <3>2, <3>3
  <2>5. QED
    BY <2>3, <2>4
<1>3. QED
  BY <1>1, <1>2

\* A revocation passes its check under the authority lock.
LEMMA RevokeChecksKeeps ==
    ASSUME AuthorityInvariant, NEW r \in Clerks, NEW e \in Staff, NEW o \in AnyRole,
           NEW rows \in SUBSET Assignments, RevokeChecks(r, e, o, rows)
    PROVE  AuthorityInvariant'
<1> USE AuthorityAssumption
<1> DEFINE w == [NoWork EXCEPT !.op = "revoke", !.rows = rows, !.at = clock]
<1>1. /\ clerk[r].op = "idle" /\ authorityLock = Null /\ authorityLock' = r
      /\ clerk' = [clerk EXCEPT ![r] = w] /\ UNCHANGED <<assigned, archived, roleLock, clock>>
  BY DEF RevokeChecks
<1>2. w \in Clerk /\ w.op = "revoke" /\ w.rows = rows /\ w.at = clock
  BY DEF Clerk, NoWork, AuthorityInvariant, AuthorityTypeOK
<1>3. AdminsAt(clock) # {} => AdminsWithout(rows, clock) # {}
  BY SafeToRevoke DEF RevokeChecks
<1> HIDE DEF w
<1>4. QED
  BY <1>1, <1>2, <1>3, ClerkBegins

\* A revocation commits while another administrator stands.
LEMMA RevokeCommitsKeeps ==
    ASSUME AuthorityInvariant, NEW r \in Clerks, RevokeCommits(r)
    PROVE  AuthorityInvariant'
<1> USE AuthorityAssumption
<1>1. /\ clerk[r].op = "revoke"
      /\ assigned' = [a \in Assignments |->
            IF a \in clerk[r].rows THEN [assigned[a] EXCEPT !.st = "revoked"] ELSE assigned[a]]
      /\ authorityLock' = (IF authorityLock = r THEN Null ELSE authorityLock)
      /\ clerk' = [clerk EXCEPT ![r] = NoWork]
      /\ UNCHANGED <<archived, roleLock, clock>>
  BY DEF RevokeCommits
<1>2. roleLock' = FreedRoles(r)
  BY <1>1, NoneToFree
<1>3. assigned \in [Assignments -> AssignmentRow] /\ archived' \subseteq Roles
  BY <1>1 DEF AuthorityInvariant, AuthorityTypeOK
<1>4. /\ assigned' \in [Assignments -> AssignmentRow]
      /\ \A a \in Assignments : assigned'[a].st = "live" => assigned'[a] = assigned[a]
  BY <1>1, <1>3 DEF AssignmentRow
<1>5. QED
  BY <1>1, <1>2, <1>3, <1>4, ClerkEnds

\* An archive counts the live assignments under the lock of the role.
LEMMA ArchiveReadsKeeps ==
    ASSUME AuthorityInvariant, NEW r \in Clerks, NEW o \in Roles, ArchiveReads(r, o)
    PROVE  AuthorityInvariant'
<1> USE AuthorityAssumption
<1> DEFINE w == [NoWork EXCEPT !.op = "archive", !.role = o, !.at = clock]
<1>1. /\ clerk[r].op = "idle" /\ roleLock[o] = Null
      /\ roleLock' = [roleLock EXCEPT ![o] = r]
      /\ clerk' = [clerk EXCEPT ![r] = w] /\ UNCHANGED <<assigned, archived, authorityLock, clock>>
  BY DEF ArchiveReads
<1>2. w \in Clerk /\ w.op = "archive" /\ w.role = o /\ o \in AnyRole
  BY DEF Clerk, NoWork, AnyRole, AuthorityInvariant, AuthorityTypeOK
<1>3. Unheld(o)
  BY DEF ArchiveReads, Unheld
<1> HIDE DEF w
<1>4. QED
  BY <1>1, <1>2, <1>3, ClerkBegins

\* The role is archived and its lock released.
LEMMA ArchiveCommitsKeeps ==
    ASSUME AuthorityInvariant, NEW r \in Clerks, ArchiveCommits(r)
    PROVE  AuthorityInvariant'
<1> USE AuthorityAssumption
<1>1. /\ clerk[r].op = "archive" /\ archived' = archived \cup {clerk[r].role}
      /\ roleLock' = FreedRoles(r)
      /\ clerk' = [clerk EXCEPT ![r] = NoWork] /\ UNCHANGED <<assigned, authorityLock, clock>>
  BY DEF ArchiveCommits, FreedRoles
<1>2. authorityLock # r /\ archived' \subseteq Roles
  BY <1>1 DEF AuthorityInvariant, AuthorityTypeOK, ClerksHoldLocks
<1>3. assigned' \in [Assignments -> AssignmentRow]
  BY <1>1 DEF AuthorityInvariant, AuthorityTypeOK
<1>4. QED
  BY <1>1, <1>2, <1>3, ClerkEnds

\* A refused or failed request releases its locks and writes nothing.
LEMMA ClerkFailsKeeps ==
    ASSUME AuthorityInvariant, NEW r \in Clerks, ClerkFails(r)
    PROVE  AuthorityInvariant'
<1>1. /\ authorityLock' = (IF authorityLock = r THEN Null ELSE authorityLock)
      /\ roleLock' = FreedRoles(r)
      /\ clerk' = [clerk EXCEPT ![r] = NoWork] /\ UNCHANGED <<assigned, archived, clock>>
  BY DEF ClerkFails, FreedRoles
<1>2. assigned' \in [Assignments -> AssignmentRow] /\ archived' \subseteq Roles
  BY <1>1 DEF AuthorityInvariant, AuthorityTypeOK
<1>3. QED
  BY <1>1, <1>2, ClerkEnds

\* What has run out stays so as time passes, and nothing else depends on it.
LEMMA TimePassesKeeps ==
    ASSUME AuthorityInvariant, TimePasses PROVE AuthorityInvariant'
<1> USE AuthorityAssumption
<1>1. AuthorityTypeOK /\ clock \in Nat
  BY DEF AuthorityInvariant, AuthorityTypeOK
<1>2. clock < MaxInstant /\ clock' = clock + 1 /\ UNCHANGED <<assigned, archived, clerk, authorityLock, roleLock>>
  BY DEF TimePasses
<1>3. clock' \in 0..MaxInstant
  BY <1>1, <1>2
<1>4. AuthorityTypeOK'
  BY <1>1, <1>2, <1>3 DEF AuthorityTypeOK
<1>5. ClerksHoldLocks' /\ RevocationsAreSafe'
  BY <1>2 DEF AuthorityInvariant, ClerksHoldLocks, RevocationsAreSafe, AdminsAt, AdminsWithout,
              EffectiveAt, Unrevoked
<1>6. ArchivesAreSafe'
  <2> SUFFICES ASSUME NEW c \in Clerks, clerk[c].op = "archive", NEW a \in Assignments,
                      assigned[a].st = "live", assigned[a].grant.role = clerk[c].role
               PROVE  assigned[a].grant.until # Null /\ assigned[a].grant.until <= clock'
    BY <1>2 DEF ArchivesAreSafe, Unheld
  <2>1. assigned[a].grant.until # Null /\ assigned[a].grant.until <= clock
    BY DEF AuthorityInvariant, ArchivesAreSafe, Unheld
  <2>2. assigned[a].grant.until \in Nat
    BY <1>1, <2>1 DEF AuthorityTypeOK, AssignmentRow, Grant, NoGrant
  <2>3. QED
    BY <1>1, <1>2, <2>1, <2>2
<1>7. QED
  BY <1>4, <1>5, <1>6 DEF AuthorityInvariant

\* Every step keeps the inductive invariant.
LEMMA AuthorityStepKeeps ==
    ASSUME AuthorityInvariant, [AuthorityNext]_authorityVars PROVE AuthorityInvariant'
<1>1. CASE UNCHANGED authorityVars
  BY <1>1 DEF authorityVars, AuthorityInvariant, AuthorityTypeOK, ClerksHoldLocks,
     RevocationsAreSafe, ArchivesAreSafe, AdminsAt, AdminsWithout, EffectiveAt, Unrevoked, Unheld
<1>2. CASE AuthorityNext
  BY <1>2, TimePassesKeeps, AssignStep, AssignCommitsKeeps, RevokeChecksKeeps, RevokeCommitsKeeps,
     ArchiveReadsKeeps, ArchiveCommitsKeeps, ClerkFailsKeeps DEF AuthorityNext
<1>3. QED
  BY <1>1, <1>2

\* However assignments, revocations and archives overlap, rows and locks are
\* well formed and a check made under a lock still holds at the commit.
THEOREM AuthorityInvariance == AuthoritySpec => []AuthorityInvariant
BY AuthorityInitEstablishes, AuthorityStepKeeps, PTL DEF AuthoritySpec

\* Only two steps write assignments, and only one archives a role.
LEMMA WhatWrites ==
    ASSUME [AuthorityNext]_authorityVars
    PROVE  /\ assigned' # assigned =>
                 \/ \E r \in Clerks, a \in Assignments : AssignCommits(r, a)
                 \/ \E r \in Clerks : RevokeCommits(r)
           /\ archived' # archived => \E r \in Clerks : ArchiveCommits(r)
<1>1. CASE UNCHANGED authorityVars
  BY <1>1 DEF authorityVars
<1>2. TimePasses => UNCHANGED <<assigned, archived>>
  BY DEF TimePasses
<1>3. \A r, g : AssignChecks(r, g) => UNCHANGED <<assigned, archived>>
  BY DEF AssignChecks
<1>4. \A r, e, o : LegacyAssignChecks(r, e, o) => UNCHANGED <<assigned, archived>>
  BY DEF LegacyAssignChecks
<1>5. \A r, e, o, rows : RevokeChecks(r, e, o, rows) => UNCHANGED <<assigned, archived>>
  BY DEF RevokeChecks
<1>6. \A r, o : ArchiveReads(r, o) => UNCHANGED <<assigned, archived>>
  BY DEF ArchiveReads
<1>7. \A r : ClerkFails(r) => UNCHANGED <<assigned, archived>>
  BY DEF ClerkFails
<1>8. /\ \A r, a : AssignCommits(r, a) => archived' = archived
      /\ \A r : RevokeCommits(r) => archived' = archived
      /\ \A r : ArchiveCommits(r) => assigned' = assigned
  BY DEF AssignCommits, RevokeCommits, ArchiveCommits
<1>9. CASE AuthorityNext
  BY <1>2, <1>3, <1>4, <1>5, <1>6, <1>7, <1>8, <1>9 DEF AuthorityNext
<1>10. QED
  BY <1>1, <1>9

\* A revocation that commits leaves an administrator in force.
LEMMA RevocationStep ==
    ASSUME AuthorityInvariant, [AuthorityNext]_authorityVars
    PROVE  \A r \in Clerks, t \in 0..MaxInstant :
              (/\ clerk[r].op = "revoke" /\ clerk[r].at = t /\ clerk'[r].op = "idle"
               /\ assigned' # assigned /\ AdminsAt(t) # {}) => AdminsAt(t)' # {}
<1> SUFFICES ASSUME NEW r \in Clerks, NEW t \in 0..MaxInstant,
                    clerk[r].op = "revoke", clerk[r].at = t, clerk'[r].op = "idle",
                    assigned' # assigned, AdminsAt(t) # {}
             PROVE  AdminsAt(t)' # {}
  OBVIOUS
<1>1. authorityLock = r
  BY DEF AuthorityInvariant, ClerksHoldLocks
<1>2. ASSUME NEW c \in Clerks, NEW a \in Assignments, AssignCommits(c, a) PROVE FALSE
  BY <1>1, <1>2 DEF AssignCommits, AuthorityInvariant, ClerksHoldLocks
<1>3. PICK c \in Clerks : RevokeCommits(c)
  BY <1>2, WhatWrites
<1>4. c = r
  BY <1>1, <1>3 DEF RevokeCommits, AuthorityInvariant, ClerksHoldLocks
<1>5. \A a \in Assignments : a \notin clerk[r].rows => assigned'[a] = assigned[a]
  BY <1>3, <1>4 DEF RevokeCommits
<1>6. \A e \in Staff : EffectiveAt(e, t) \ clerk[r].rows \subseteq EffectiveAt(e, t)'
  BY <1>5 DEF EffectiveAt, Unrevoked
<1>7. AdminsWithout(clerk[r].rows, t) # {}
  BY DEF AuthorityInvariant, RevocationsAreSafe
<1>8. QED
  BY <1>6, <1>7 DEF AdminsWithout, AdminsAt

\* Revoking never takes away the last HR administrator.
THEOREM RevocationsKeepAnAdmin == AuthoritySpec => RevocationKeepsAdmin
BY AuthorityInvariance, RevocationStep, PTL DEF AuthoritySpec, RevocationKeepsAdmin

\* A role is archived only when each of its live assignments has run out.
LEMMA ArchiveStep ==
    ASSUME AuthorityInvariant, [AuthorityNext]_authorityVars
    PROVE  \A o \in archived' \ archived, a \in Assignments :
              (assigned[a].st = "live" /\ assigned[a].grant.role = o) =>
                 assigned[a].grant.until # Null /\ assigned[a].grant.until <= clock
<1> SUFFICES ASSUME NEW o \in archived' \ archived PROVE Unheld(o)
  BY DEF Unheld
<1>1. PICK r \in Clerks : ArchiveCommits(r)
  BY WhatWrites
<1>2. o = clerk[r].role /\ clerk[r].op = "archive"
  BY <1>1 DEF ArchiveCommits
<1>3. QED
  BY <1>2 DEF AuthorityInvariant, ArchivesAreSafe

\* A role is archived only when nobody holds it or is about to.
THEOREM ArchivesFindNone == AuthoritySpec => ArchiveFindsNone
BY AuthorityInvariance, ArchiveStep, PTL DEF AuthoritySpec, ArchiveFindsNone
=============================================================================
