------------------------------ MODULE Accounts ------------------------------
(***************************************************************************)
(* Signing in: by password behind a limiter of failures, or by a passkey   *)
(* that answers a challenge; sessions and their revocation; the reset of a *)
(* password through a mailed link.                                         *)
(*                                                                         *)
(*   src/server.ts, src/src/lib/session-maintenance.ts                     *)
(*                                                                         *)
(* The password is a version, which a reset increments.  A sign in reads   *)
(* it, or consumes a challenge, in one transaction and inserts its session *)
(* in another.  The limiter lives in the memory of one server process,     *)
(* keyed by account; the key by address works alike, and the pruning and   *)
(* the cap of 20000 keys are left out, and so is the second query of the   *)
(* password route, for a schema not yet migrated, which reads the same     *)
(* row.                                                                    *)
(***************************************************************************)
EXTENDS Tenant

CONSTANTS
    Attempts,      \* requests of several statements
    Sessions,      \* auth_sessions rows
    Links,         \* password_reset_tokens rows
    Challenges,    \* webauthn_challenges rows, by the order of created_at
    MaxFailures,   \* MAX_LOGIN_ATTEMPTS
    MaxResets      \* bound: password changes of an account

ASSUME AccountsAssumption ==
    /\ Null \notin Attempts \cup Sessions \cup Links
    /\ Challenges \subseteq Nat /\ Null \notin Challenges
    /\ MaxFailures \in Nat \ {0, 1} /\ MaxResets \in Nat
    /\ IsFiniteSet(Attempts)

VARIABLES
    password,        \* employees.password_hash
    session,         \* auth_sessions
    link,            \* password_reset_tokens
    challenge,       \* webauthn_challenges of type authentication
    attempt,         \* what each request is doing
    limiter,         \* loginAttemptStore
    linkLock,        \* row locks, by holder
    challengeLock,
    employeeLock

accountsVars == <<password, session, link, challenge, attempt, limiter,
                  linkLock, challengeLock, employeeLock>>

AccountRow == [st : {"none", "fresh", "used", "expired"}, emp : Subjects \cup {Null}]
SessionRow == [st : {"none", "live", "revoked", "expired"}, emp : Subjects \cup {Null}]
Attempt == [op : {"idle", "password", "admitted", "options", "passkey", "found", "verifying",
                  "keyed", "reset", "resetting"},
            emp : Subjects \cup {Null},
            arg : Links \cup Challenges \cup (0..MaxResets) \cup {Null}]
Limiter == [failed : 0..(MaxFailures + Cardinality(Attempts)),
            lock : {"off", "on", "over"}, old : BOOLEAN]

NoRow == [st |-> "none", emp |-> Null]
NoAttempt == [op |-> "idle", emp |-> Null, arg |-> Null]
NoFailure == [failed |-> 0, lock |-> "off", old |-> FALSE]

AccountsTypeOK ==
    /\ password \in [Subjects -> 0..MaxResets]
    /\ session \in [Sessions -> SessionRow]
    /\ link \in [Links -> AccountRow]
    /\ challenge \in [Challenges -> AccountRow]
    /\ attempt \in [Attempts -> Attempt]
    /\ limiter \in [Subjects -> Limiter]
    /\ linkLock \in [Links -> Attempts \cup {Null}]
    /\ challengeLock \in [Challenges -> Attempts \cup {Null}]
    /\ employeeLock \in [Subjects -> Attempts \cup {Null}]
    /\ \A k \in Links : linkLock[k] # Null =>
          /\ attempt[linkLock[k]].op \in {"reset", "resetting"}
          /\ attempt[linkLock[k]].arg = k /\ link[k].st # "none"
    /\ \A c \in Challenges : challengeLock[c] # Null =>
          attempt[challengeLock[c]].op = "verifying" /\ attempt[challengeLock[c]].arg = c
    /\ \A e \in Subjects : employeeLock[e] # Null =>
          attempt[employeeLock[e]].op = "resetting" /\ attempt[employeeLock[e]].emp = e

AccountsInit ==
    /\ password = [e \in Subjects |-> 0]
    /\ session = [s \in Sessions |-> NoRow]
    /\ link = [k \in Links |-> NoRow]
    /\ challenge = [c \in Challenges |-> NoRow]
    /\ attempt = [r \in Attempts |-> NoAttempt]
    /\ limiter = [e \in Subjects |-> NoFailure]
    /\ linkLock = [k \in Links |-> Null]
    /\ challengeLock = [c \in Challenges |-> Null]
    /\ employeeLock = [e \in Subjects |-> Null]

Fresh(rows, e) == {i \in DOMAIN rows : rows[i] = [st |-> "fresh", emp |-> e]}
Live(e) == {s \in Sessions : session[s] = [st |-> "live", emp |-> e]}

\* The end of a transaction releases what it locked.
Freed(lock, r) == [i \in DOMAIN lock |-> IF lock[i] = r THEN Null ELSE lock[i]]

-----------------------------------------------------------------------------
(* The limiter (checkLoginRateLimit, recordFailedLogin).                   *)

\* Variant of Admissible: an attempt passes while the account is locked.
AdmissibleAlways(e) == limiter[e].failed >= 0

Admissible(e) == limiter[e].lock # "on"

\* A lock that has run out, or a window that is over, starts the count again.
Passed(e) ==
    IF limiter[e].lock = "over" \/ limiter[e].old THEN NoFailure ELSE limiter[e]

Failed(e) ==
    LET n == limiter[e].failed + 1 IN
    IF limiter[e].failed = 0 \/ limiter[e].old
    THEN [failed |-> 1, lock |-> "off", old |-> FALSE]
    ELSE [limiter[e] EXCEPT !.failed = n, !.lock = IF n >= MaxFailures THEN "on" ELSE @]

LockRunsOut(e) ==
    /\ limiter[e].lock = "on"
    /\ limiter' = [limiter EXCEPT ![e].lock = "over"]
    /\ UNCHANGED <<password, session, link, challenge, attempt, linkLock, challengeLock, employeeLock>>

\* Ten minutes after the first failure; a lock may outlast them.
WindowEnds(e) ==
    /\ limiter[e].failed > 0 /\ ~limiter[e].old
    /\ limiter' = [limiter EXCEPT ![e].old = TRUE]
    /\ UNCHANGED <<password, session, link, challenge, attempt, linkLock, challengeLock, employeeLock>>

ServerRestarts ==
    /\ limiter' = [e \in Subjects |-> NoFailure]
    /\ attempt' = [r \in Attempts |-> NoAttempt]
    /\ linkLock' = [k \in Links |-> Null]
    /\ challengeLock' = [c \in Challenges |-> Null]
    /\ employeeLock' = [e \in Subjects |-> Null]
    /\ UNCHANGED <<password, session, link, challenge>>

-----------------------------------------------------------------------------
(* Signing in.                                                             *)

\* Each route asks the limiter first and reads the account later; v is the
\* password the client sends.
Start(r, e, op, v) ==
    /\ attempt[r].op = "idle" /\ Admissible(e)
    /\ limiter' = [limiter EXCEPT ![e] = Passed(e)]
    /\ attempt' = [attempt EXCEPT ![r] = [op |-> op, emp |-> e, arg |-> v]]
    /\ UNCHANGED <<password, session, link, challenge, linkLock, challengeLock, employeeLock>>

StartPassword(r, e, v) == Start(r, e, "password", v)
StartOptions(r, e) == Start(r, e, "options", Null)
StartPasskey(r, e) == Start(r, e, "passkey", Null)

CheckPassword(r) ==
    LET e == attempt[r].emp
        right == attempt[r].arg = password[e]
    IN
    /\ attempt[r].op = "password"
    /\ limiter' = [limiter EXCEPT ![e] = IF right THEN NoFailure ELSE Failed(e)]
    /\ attempt' = [attempt EXCEPT ![r] =
            IF right THEN [op |-> "admitted", emp |-> e, arg |-> Null] ELSE NoAttempt]
    /\ UNCHANGED <<password, session, link, challenge, linkLock, challengeLock, employeeLock>>

\* createAuthSession, after a password or a passkey was right.
OpenSession(r, s) ==
    /\ attempt[r].op \in {"admitted", "keyed"} /\ session[s].st = "none"
    /\ session' = [session EXCEPT ![s] = [st |-> "live", emp |-> attempt[r].emp]]
    /\ attempt' = [attempt EXCEPT ![r] = NoAttempt]
    /\ UNCHANGED <<password, link, challenge, limiter, linkLock, challengeLock, employeeLock>>

\* A new challenge uses up the open ones; two requests at once leave two.
StoreChallenge(r, c, seen) ==
    LET e == attempt[r].emp IN
    /\ attempt[r].op = "options"
    /\ challenge[c].st = "none" /\ \A d \in Challenges : d < c => challenge[d].st # "none"
    /\ seen \subseteq Fresh(challenge, e)
    /\ \A d \in seen : challengeLock[d] = Null
    /\ challenge' = [d \in Challenges |->
            IF d = c THEN [st |-> "fresh", emp |-> e]
            ELSE IF d \in seen THEN [challenge[d] EXCEPT !.st = "used"] ELSE challenge[d]]
    /\ attempt' = [attempt EXCEPT ![r] = NoAttempt]
    /\ UNCHANGED <<password, session, link, limiter, linkLock, challengeLock, employeeLock>>

\* The subselect of consumeWebAuthnChallenge: the newest open challenge.
FindChallenge(r, c) ==
    LET e == attempt[r].emp IN
    /\ attempt[r].op = "passkey"
    /\ c \in Fresh(challenge, e) /\ \A d \in Fresh(challenge, e) : d <= c
    /\ attempt' = [attempt EXCEPT ![r] = [op |-> "found", emp |-> e, arg |-> c]]
    /\ UNCHANGED <<password, session, link, challenge, limiter, linkLock, challengeLock, employeeLock>>

\* Variant of LockChallenge: the update trusts the subselect.
LockChallengeUnchecked(r) ==
    /\ attempt[r].op = "found" /\ challengeLock[attempt[r].arg] = Null
    /\ challengeLock' = [challengeLock EXCEPT ![attempt[r].arg] = r]
    /\ attempt' = [attempt EXCEPT ![r].op = "verifying"]
    /\ UNCHANGED <<password, session, link, challenge, limiter, linkLock, employeeLock>>

\* The update waits for the row and checks again that it is open.
LockChallenge(r) ==
    /\ attempt[r].op = "found" /\ challengeLock[attempt[r].arg] = Null
    /\ challenge[attempt[r].arg].st = "fresh"
    /\ challengeLock' = [challengeLock EXCEPT ![attempt[r].arg] = r]
    /\ attempt' = [attempt EXCEPT ![r].op = "verifying"]
    /\ UNCHANGED <<password, session, link, challenge, limiter, linkLock, employeeLock>>

PasskeyAdmits(r) ==
    LET c == attempt[r].arg IN
    /\ attempt[r].op = "verifying"
    /\ challenge' = [challenge EXCEPT ![c].st = "used"]
    /\ challengeLock' = Freed(challengeLock, r)
    /\ limiter' = [limiter EXCEPT ![attempt[r].emp] = NoFailure]
    /\ attempt' = [attempt EXCEPT ![r] = [op |-> "keyed", emp |-> attempt[r].emp, arg |-> Null]]
    /\ UNCHANGED <<password, session, link, linkLock, employeeLock>>

\* Variant of PasskeyFails: the transaction stays open.
PasskeyFailsHolding(r) ==
    /\ attempt[r].op \in {"passkey", "found", "verifying", "keyed"}
    /\ limiter' = [limiter EXCEPT ![attempt[r].emp] = Failed(attempt[r].emp)]
    /\ attempt' = [attempt EXCEPT ![r] = NoAttempt]
    /\ UNCHANGED <<password, session, link, challenge, linkLock, challengeLock, employeeLock>>

\* The catch of the route counts every error: no challenge is open, the answer
\* is wrong (the rollback leaves an open challenge open), or the passkey was
\* right, the count was cleared, and then the session could not be inserted.
PasskeyFails(r) ==
    /\ attempt[r].op \in {"passkey", "found", "verifying", "keyed"}
    /\ challengeLock' = Freed(challengeLock, r)
    /\ limiter' = [limiter EXCEPT ![attempt[r].emp] = Failed(attempt[r].emp)]
    /\ attempt' = [attempt EXCEPT ![r] = NoAttempt]
    /\ UNCHANGED <<password, session, link, challenge, linkLock, employeeLock>>

-----------------------------------------------------------------------------
(* Resetting the password.                                                 *)

RequestReset(e, k) ==
    /\ link[k].st = "none"
    /\ link' = [link EXCEPT ![k] = [st |-> "fresh", emp |-> e]]
    /\ UNCHANGED <<password, session, challenge, attempt, limiter, linkLock, challengeLock, employeeLock>>

\* Expiry is by the clock and takes no lock.
LinkExpires(k) ==
    /\ link[k].st = "fresh" /\ linkLock[k] = Null
    /\ link' = [link EXCEPT ![k].st = "expired"]
    /\ UNCHANGED <<password, session, challenge, attempt, limiter, linkLock, challengeLock, employeeLock>>

ChallengeExpires(c) ==
    /\ challenge[c].st = "fresh" /\ challengeLock[c] = Null
    /\ challenge' = [challenge EXCEPT ![c].st = "expired"]
    /\ UNCHANGED <<password, session, link, attempt, limiter, linkLock, challengeLock, employeeLock>>

\* Variant of LockLink: the link is read without FOR UPDATE.
LockLinkUnlocked(r, k) ==
    /\ attempt[r].op = "idle" /\ link[k].st = "fresh"
    /\ attempt' = [attempt EXCEPT ![r] = [op |-> "reset", emp |-> link[k].emp, arg |-> k]]
    /\ UNCHANGED <<password, session, link, challenge, limiter, linkLock, challengeLock, employeeLock>>

LockLink(r, k) ==
    /\ attempt[r].op = "idle" /\ link[k].st = "fresh" /\ linkLock[k] = Null
    /\ linkLock' = [linkLock EXCEPT ![k] = r]
    /\ attempt' = [attempt EXCEPT ![r] = [op |-> "reset", emp |-> link[k].emp, arg |-> k]]
    /\ UNCHANGED <<password, session, link, challenge, limiter, challengeLock, employeeLock>>

\* The update of the password holds the employee's row.
LockEmployee(r) ==
    /\ attempt[r].op = "reset" /\ employeeLock[attempt[r].emp] = Null
    /\ employeeLock' = [employeeLock EXCEPT ![attempt[r].emp] = r]
    /\ attempt' = [attempt EXCEPT ![r].op = "resetting"]
    /\ UNCHANGED <<password, session, link, challenge, limiter, linkLock, challengeLock>>

\* The last two updates and the commit.  A link or a session inserted between
\* them counts as inserted after.  Each waits for the locked links of the same
\* employee: of two resets through two links one is aborted as a deadlock.
FinishReset(r) ==
    LET e == attempt[r].emp IN
    /\ attempt[r].op = "resetting" /\ password[e] < MaxResets
    /\ \A k \in Fresh(link, e) : linkLock[k] \in {r, Null}
    /\ password' = [password EXCEPT ![e] = @ + 1]
    /\ link' = [k \in Links |-> IF k \in Fresh(link, e) THEN [link[k] EXCEPT !.st = "used"] ELSE link[k]]
    /\ session' = [s \in Sessions |-> IF s \in Live(e) THEN [session[s] EXCEPT !.st = "revoked"] ELSE session[s]]
    /\ linkLock' = Freed(linkLock, r) /\ employeeLock' = Freed(employeeLock, r)
    /\ attempt' = [attempt EXCEPT ![r] = NoAttempt]
    /\ UNCHANGED <<challenge, limiter, challengeLock>>

\* A failed statement, the deadlock's included, rolls a reset back; the routes
\* of the password and of the challenge answer 500 and count no failure.
AttemptFails(r) ==
    /\ attempt[r].op \in {"password", "admitted", "options", "reset", "resetting"}
    /\ attempt' = [attempt EXCEPT ![r] = NoAttempt]
    /\ linkLock' = Freed(linkLock, r) /\ employeeLock' = Freed(employeeLock, r)
    /\ UNCHANGED <<password, session, link, challenge, limiter, challengeLock>>

-----------------------------------------------------------------------------
(* Sessions.                                                               *)

\* One session, by its employee, an HR administrator or the logout.
RevokeSession(s) ==
    /\ session[s].st = "live"
    /\ session' = [session EXCEPT ![s].st = "revoked"]
    /\ UNCHANGED <<password, link, challenge, attempt, limiter, linkLock, challengeLock, employeeLock>>

\* All but the caller's own, or all of an employee (kept = {}).
RevokeSessions(e, kept) ==
    /\ kept \subseteq Live(e) /\ Cardinality(kept) <= 1
    /\ session' = [s \in Sessions |->
            IF s \in Live(e) \ kept THEN [session[s] EXCEPT !.st = "revoked"] ELSE session[s]]
    /\ UNCHANGED <<password, link, challenge, attempt, limiter, linkLock, challengeLock, employeeLock>>

SessionExpires(s) ==
    /\ session[s].st = "live"
    /\ session' = [session EXCEPT ![s].st = "expired"]
    /\ UNCHANGED <<password, link, challenge, attempt, limiter, linkLock, challengeLock, employeeLock>>

\* cleanupSessions, thirty days later.
CleanupSession(s) ==
    /\ session[s].st \in {"revoked", "expired"}
    /\ session' = [session EXCEPT ![s] = NoRow]
    /\ UNCHANGED <<password, link, challenge, attempt, limiter, linkLock, challengeLock, employeeLock>>

AccountsNext ==
    \/ \E e \in Subjects : LockRunsOut(e) \/ WindowEnds(e)
    \/ ServerRestarts
    \/ \E r \in Attempts, e \in Subjects, v \in 0..MaxResets : StartPassword(r, e, v)
    \/ \E r \in Attempts : CheckPassword(r)
    \/ \E r \in Attempts, s \in Sessions : OpenSession(r, s)
    \/ \E r \in Attempts, e \in Subjects : StartOptions(r, e) \/ StartPasskey(r, e)
    \/ \E r \in Attempts, c \in Challenges, seen \in SUBSET Challenges : StoreChallenge(r, c, seen)
    \/ \E r \in Attempts, c \in Challenges : FindChallenge(r, c)
    \/ \E r \in Attempts : LockChallenge(r)
    \/ \E r \in Attempts : PasskeyAdmits(r)
    \/ \E r \in Attempts : PasskeyFails(r)
    \/ \E e \in Subjects, k \in Links : RequestReset(e, k)
    \/ \E k \in Links : LinkExpires(k)
    \/ \E c \in Challenges : ChallengeExpires(c)
    \/ \E r \in Attempts, k \in Links : LockLink(r, k)
    \/ \E r \in Attempts : LockEmployee(r)
    \/ \E r \in Attempts : FinishReset(r)
    \/ \E r \in Attempts : AttemptFails(r)
    \/ \E s \in Sessions : RevokeSession(s) \/ SessionExpires(s) \/ CleanupSession(s)
    \/ \E e \in Subjects, kept \in SUBSET Sessions : RevokeSessions(e, kept)

AccountsSpec == AccountsInit /\ [][AccountsNext]_accountsVars

-----------------------------------------------------------------------------
(* Properties.                                                             *)

\* A password changes only by spending a link: some link of the account is
\* used up by the very step, and the step leaves neither a link that would
\* change it again nor a session of the old password.
ResetSpendsLinks == [][\A e \in Subjects : password'[e] # password[e] =>
    /\ Fresh(link, e) # {} /\ Fresh(link, e)' = {}
    /\ Live(e)' = {}]_accountsVars

\* A challenge admits one sign in, however many requests found it open.
ChallengeAdmitsOnce == [][\A r \in Attempts :
    (attempt[r].op = "verifying" /\ attempt'[r].op = "keyed") =>
        challenge[attempt[r].arg].st = "fresh" /\ challenge'[attempt[r].arg].st = "used"]_accountsVars

\* Requests let in before the lock may still fail after it, no others: what is
\* counted of one window is bounded by the limit and the requests in flight,
\* one whose success cleared the count and that fails afterwards included.
FailuresBounded == \A e \in Subjects :
    limiter[e].failed < MaxFailures + Cardinality(Attempts)
=============================================================================
