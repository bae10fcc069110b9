------------------------------ MODULE QrTokens ------------------------------
(***************************************************************************)
(* QR tokens: badges of employees and labels of assets, one active per     *)
(* subject, and onboarding invites, which are short-lived and used once.   *)
(* A rotation replaces a token by another that opens the same door.        *)
(*                                                                         *)
(*   src/server/qr/qr-token-service.ts                                     *)
(*   src/lib/hr-background.ts (enqueueQrExpiryCleanup), src/workers        *)
(*   db/migrations/20260729_add_qr_token_foundation.sql                    *)
(*                                                                         *)
(* A badge or label is rotated and revoked by the id of its active token,  *)
(* read in an earlier transaction.  The rotation reads the token FOR       *)
(* UPDATE and then writes twice.  Scans only count and are left out.       *)
(***************************************************************************)
EXTENDS Tenant

CONSTANTS
    Tokens,    \* qr_access_tokens rows
    Marked,    \* employees and assets a token is for
    Callers    \* requests of several statements

ASSUME QrAssumption == Null \notin Tokens \cup Marked \cup Callers

VARIABLES
    token,      \* qr_access_tokens
    past,       \* families of invites whose expires_at has passed
    cleanup,    \* the delayed expiry job of each token
    caller,     \* what each such request is doing
    tokenLock   \* holder of each token's row lock

qrVars == <<token, past, cleanup, caller, tokenLock>>

\* An invite has no subject; its family is the token it was first issued as.
TokenRow == [st : {"none", "active", "revoked", "used", "expired"},
             subject : Marked \cup {Null}, family : Tokens \cup {Null}]
Caller == [op : {"idle", "rotate", "revoke", "locked"}, token : Tokens \cup {Null}]

NoToken == [st |-> "none", subject |-> Null, family |-> Null]
NoCall == [op |-> "idle", token |-> Null]

QrTypeOK ==
    /\ token \in [Tokens -> TokenRow]
    /\ past \subseteq Tokens
    /\ cleanup \in [Tokens -> {"none", "unsent", "queued"}]
    /\ caller \in [Callers -> Caller]
    /\ tokenLock \in [Tokens -> Callers \cup {Null}]
    /\ \A k \in Tokens : tokenLock[k] # Null => caller[tokenLock[k]] = [op |-> "locked", token |-> k]

QrInit ==
    /\ token = [k \in Tokens |-> NoToken]
    /\ past = {}
    /\ cleanup = [k \in Tokens |-> "none"]
    /\ caller = [r \in Callers |-> NoCall]
    /\ tokenLock = [k \in Tokens |-> Null]

ActiveTokens(s) == {k \in Tokens : token[k].st = "active" /\ token[k].subject = s}
IsPast(k) == token[k].subject = Null /\ token[k].family \in past

-----------------------------------------------------------------------------
(* Issuing, and the job that expires an invite.                            *)

\* A unique index keeps one active token per subject, the rotation's included.
IssueBadge(k, s) ==
    /\ token[k].st = "none" /\ ActiveTokens(s) = {}
    /\ token' = [token EXCEPT ![k] = [st |-> "active", subject |-> s, family |-> k]]
    /\ UNCHANGED <<past, cleanup, caller, tokenLock>>

IssueInvite(k) ==
    /\ token[k].st = "none"
    /\ token' = [token EXCEPT ![k] = [st |-> "active", subject |-> Null, family |-> k]]
    /\ cleanup' = [cleanup EXCEPT ![k] = "unsent"]
    /\ UNCHANGED <<past, caller, tokenLock>>

\* The job is sent after the commit and not waited for: it may be lost.
SendCleanup(k, arrives) ==
    /\ cleanup[k] = "unsent"
    /\ cleanup' = [cleanup EXCEPT ![k] = IF arrives THEN "queued" ELSE "none"]
    /\ UNCHANGED <<token, past, caller, tokenLock>>

InvitesExpire(f) ==
    /\ token[f].subject = Null /\ token[f].family = f /\ f \notin past
    /\ past' = past \cup {f}
    /\ UNCHANGED <<token, cleanup, caller, tokenLock>>

\* The worker's job, delayed until the expiry; it may find the token gone.
ExpireToken(k) ==
    /\ cleanup[k] = "queued" /\ IsPast(k) /\ tokenLock[k] = Null
    /\ token' = [token EXCEPT ![k].st = IF @ = "active" THEN "expired" ELSE @]
    /\ cleanup' = [cleanup EXCEPT ![k] = "none"]
    /\ UNCHANGED <<past, caller, tokenLock>>

-----------------------------------------------------------------------------
(* Rotating, revoking and consuming.                                       *)

\* The id a request acts on: the active token of a subject, or a token named
\* by the client, who saw it active.
FindToken(r, op, k) ==
    /\ caller[r].op = "idle" /\ token[k].st = "active"
    /\ caller' = [caller EXCEPT ![r] = [op |-> op, token |-> k]]
    /\ UNCHANGED <<token, past, cleanup, tokenLock>>

\* Variant of RotateReads: the token is read without FOR UPDATE.
RotateReadsUnlocked(r) ==
    LET k == caller[r].token IN
    /\ caller[r].op = "rotate"
    /\ token[k].st = "active" /\ ~IsPast(k)
    /\ caller' = [caller EXCEPT ![r].op = "locked"]
    /\ UNCHANGED <<token, past, cleanup, tokenLock>>

RotateReads(r) ==
    LET k == caller[r].token IN
    /\ caller[r].op = "rotate" /\ tokenLock[k] = Null
    /\ token[k].st = "active" /\ ~IsPast(k)
    /\ tokenLock' = [tokenLock EXCEPT ![k] = r]
    /\ caller' = [caller EXCEPT ![r].op = "locked"]
    /\ UNCHANGED <<token, past, cleanup>>

\* The old token is revoked where it is still active, and its successor takes
\* over its subject, its family and its expiry whatever that update found.
RotateWrites(r, n) ==
    LET k == caller[r].token
        revoked == [token EXCEPT ![k].st = IF @ = "active" THEN "revoked" ELSE @]
    IN
    /\ caller[r].op = "locked" /\ token[n].st = "none"
    /\ token[k].subject # Null => ActiveTokens(token[k].subject) \subseteq {k}
    /\ token' = [revoked EXCEPT ![n] = [token[k] EXCEPT !.st = "active"]]
    /\ cleanup' = [cleanup EXCEPT ![n] = IF token[k].subject = Null THEN "unsent" ELSE @]
    /\ caller' = [caller EXCEPT ![r] = NoCall]
    /\ tokenLock' = [tokenLock EXCEPT ![k] = IF @ = r THEN Null ELSE @]
    /\ UNCHANGED past

\* A token revoked already is reported as such; used or expired, refused.
Revoke(r) ==
    LET k == caller[r].token IN
    /\ caller[r].op = "revoke" /\ tokenLock[k] = Null
    /\ token' = [token EXCEPT ![k].st = IF @ = "active" THEN "revoked" ELSE @]
    /\ caller' = [caller EXCEPT ![r] = NoCall]
    /\ UNCHANGED <<past, cleanup, tokenLock>>

\* The token is not active any more, or the transaction fails.  The update
\* that would mark an expired token is undone by the error that reports it.
CallFails(r) ==
    /\ caller[r].op # "idle"
    /\ caller' = [caller EXCEPT ![r] = NoCall]
    /\ tokenLock' = [k \in Tokens |-> IF tokenLock[k] = r THEN Null ELSE tokenLock[k]]
    /\ UNCHANGED <<token, past, cleanup>>

\* The invited person's request: FOR UPDATE, then used once, or expired.
ConsumeInvite(k) ==
    /\ token[k].st = "active" /\ token[k].subject = Null /\ tokenLock[k] = Null
    /\ token' = [token EXCEPT ![k].st = IF IsPast(k) THEN "expired" ELSE "used"]
    /\ UNCHANGED <<past, cleanup, caller, tokenLock>>

QrNext ==
    \/ \E k \in Tokens, s \in Marked : IssueBadge(k, s)
    \/ \E k \in Tokens : IssueInvite(k)
    \/ \E k \in Tokens, arrives \in BOOLEAN : SendCleanup(k, arrives)
    \/ \E f \in Tokens : InvitesExpire(f)
    \/ \E k \in Tokens : ExpireToken(k)
    \/ \E r \in Callers, op \in {"rotate", "revoke"}, k \in Tokens : FindToken(r, op, k)
    \/ \E r \in Callers : RotateReads(r)
    \/ \E r \in Callers, n \in Tokens : RotateWrites(r, n)
    \/ \E r \in Callers : Revoke(r)
    \/ \E r \in Callers : CallFails(r)
    \/ \E k \in Tokens : ConsumeInvite(k)

QrSpec == QrInit /\ [][QrNext]_qrVars

-----------------------------------------------------------------------------
(* Properties.                                                             *)

\* An invite admits once (docs/qr-token-security.md), its rotations included:
\* of an invite and all that replaced it, one at most is active or used, so
\* no rotation revives what was consumed, revoked or expired meanwhile.
InviteAdmitsOnce == \A f \in Tokens :
    Cardinality({k \in Tokens : token[k].family = f /\ token[k].subject = Null
                                /\ token[k].st \in {"active", "used"}}) <= 1

\* A revoked subject stays without a token until one is issued for it: a
\* rotation that found the token before the revocation does not undo it.
RevocationHolds == [][\A s \in Marked :
    (ActiveTokens(s) = {} /\ ActiveTokens(s)' # {}) =>
        \E k \in ActiveTokens(s)' : token'[k].family = k]_qrVars
=============================================================================
