----------------------------- MODULE FeedDrafts -----------------------------
(***************************************************************************)
(* The private draft of an author of the company feed: tabs of the browser *)
(* save it, restore it and publish it, the server keeps one active draft.  *)
(*                                                                         *)
(*   src/hooks/useCompanyFeedDraft.ts, src/lib/document-save-queue.ts      *)
(*   src/pages/Dashboard.tsx (submitFeedPost)                              *)
(*   src/server/feed/company-feed-routes.ts (drafts, publishing)           *)
(*   migration 20260726_add_company_feed_drafts.sql                        *)
(*                                                                         *)
(* A text is the set of edits it contains.  A request may be lost, its     *)
(* answer may be lost, and a request its tab gave up may still arrive.     *)
(* Publishing locks the draft and commits later; the other transactions    *)
(* lock all they read and are one step.                                    *)
(***************************************************************************)
EXTENDS Tenant

CONSTANTS
    Tabs,          \* tabs of the author, which share the local buffer
    Edits,         \* what the author types, each in one tab
    Drafts,        \* company_feed_drafts rows of the author
    Posts,         \* POST /api/company-feed/posts requests, and their rows
    PostStatuses,  \* what a post may be submitted as
    MaxRetries,    \* MAX_RETRIES of saveNow
    MaxVersion     \* bound: the version a save may reach

ASSUME FeedAssumption ==
    /\ {MaxRetries, MaxVersion} \subseteq Nat
    /\ PostStatuses \subseteq {"draft", "published"}
    /\ Null \notin Drafts \cup Posts

VARIABLES
    typed,      \* edits typed so far
    tab,        \* each tab: recordRef, the form, savedSignatureRef, conflictRef
    task,       \* what each tab's queue is running
    call,       \* what each tab asks outside its queue
    buffer,     \* the recovery copy in localStorage
    stray,      \* saves given up that may still arrive
    draft,      \* company_feed_drafts
    draftLock,  \* holder of the row lock of each draft
    post        \* publishing requests and what became of them

feedVars == <<typed, tab, task, call, buffer, stray, draft, draftLock, post>>

Record   == [draft : Drafts, ver : Nat] \cup {Null}
TabState == [record : Record, text : SUBSET Edits, saved : SUBSET Edits,
             conflict : BOOLEAN]
Answer   == [ok : BOOLEAN, record : Record] \cup {Null}
Task     == [op : {"idle", "saving", "saved", "posting"}, publish : BOOLEAN,
             text : SUBSET Edits, expects : Nat, tries : 0..MaxRetries,
             answer : Answer, post : Posts \cup {Null}]
Call     == [op : {"none", "restoring", "read", "discarding", "discarded"},
             record : Record, text : SUBSET Edits]
DraftRow == [st : {"none", "active", "published", "discarded"}, ver : Nat,
             text : SUBSET Edits, post : Posts \cup {Null}]
PostRow  == [st : {"none", "sent", "locked", "created", "repeated", "refused"},
             record : Record, status : PostStatuses \cup {Null}]

NoTask == [op |-> "idle", publish |-> FALSE, text |-> {}, expects |-> 0,
           tries |-> 0, answer |-> Null, post |-> Null]
NoCall == [op |-> "none", record |-> Null, text |-> {}]

FeedTypeOK ==
    /\ typed \subseteq Edits
    /\ tab \in [Tabs -> TabState]
    /\ task \in [Tabs -> Task]
    /\ call \in [Tabs -> Call]
    /\ buffer \in [text : SUBSET Edits, newer : BOOLEAN] \cup {Null}
    /\ \A r \in stray : r.text \subseteq Edits /\ r.expects \in Nat
    /\ draft \in [Drafts -> DraftRow]
    /\ draftLock \in [Drafts -> Posts \cup {Null}]
    /\ post \in [Posts -> PostRow]
    /\ Cardinality({d \in Drafts : draft[d].st = "active"}) <= 1

FeedInit ==
    /\ typed = {}
    /\ tab = [t \in Tabs |-> [record |-> Null, text |-> {}, saved |-> {},
                              conflict |-> FALSE]]
    /\ task = [t \in Tabs |-> NoTask]
    /\ call = [t \in Tabs |-> NoCall]
    /\ buffer = Null
    /\ stray = {}
    /\ draft = [d \in Drafts |-> [st |-> "none", ver |-> 1, text |-> {},
                                  post |-> Null]]
    /\ draftLock = [d \in Drafts |-> Null]
    /\ post = [p \in Posts |-> [st |-> "none", record |-> Null, status |-> Null]]

-----------------------------------------------------------------------------
(* The server's draft.                                                     *)

Current == {d \in Drafts : draft[d].st = "active" }
RecordOf(d) == [draft |-> d, ver |-> draft[d].ver]

\* PUT: the advisory lock and the row lock, the version, the write.
Refuses(expects) ==
    /\ \A d \in Current : draftLock[d] = Null
    /\ IF Current = {} THEN expects # 0
       ELSE \A d \in Current : draft[d].ver # expects
    /\ UNCHANGED <<draft, buffer>>

Writes(d, text, expects) ==
    /\ draftLock[d] = Null
    /\ IF Current = {} THEN draft[d].st = "none" /\ expects = 0
       ELSE d \in Current /\ draft[d].ver = expects /\ expects < MaxVersion
    /\ draft' = [draft EXCEPT ![d] =
           [st |-> "active", ver |-> IF @.st = "active" THEN @.ver + 1 ELSE 1,
            text |-> text, post |-> Null]]
    /\ buffer' = IF buffer = Null THEN Null ELSE [buffer EXCEPT !.newer = FALSE]

Discarded(rows) == [d \in Drafts |-> IF rows[d].st = "active"
                     THEN [rows[d] EXCEPT !.st = "discarded", !.ver = @ + 1]
                     ELSE rows[d]]

\* An image upload discards a draft nobody saved for thirty days.
AbandonDraft ==
    /\ \E d \in Current : draftLock[d] = Null
    /\ draft' = Discarded(draft)
    /\ UNCHANGED <<typed, tab, task, call, buffer, stray, draftLock, post>>

-----------------------------------------------------------------------------
(* saveNow.                                                                *)

TypeEdit(t, e) ==
    /\ e \notin typed
    /\ typed' = typed \cup {e}
    /\ tab' = [tab EXCEPT ![t].text = @ \cup {e}]
    /\ UNCHANGED <<task, call, buffer, stray, draft, draftLock, post>>

\* The form changed since it was saved: the local buffer is written first,
\* and the expected version is read once, before the retries.
BeginSave(t, publish) ==
    /\ task[t].op = "idle"
    /\ ~tab[t].conflict /\ tab[t].text # {}
    /\ tab[t].text # tab[t].saved \/ tab[t].record = Null
    /\ buffer' = [text |-> tab[t].text, newer |-> TRUE]
    /\ task' = [task EXCEPT ![t] =
           [NoTask EXCEPT !.op = "saving", !.publish = publish,
               !.text = tab[t].text,
               !.expects = IF tab[t].record = Null THEN 0 ELSE tab[t].record.ver]]
    /\ UNCHANGED <<typed, tab, call, stray, draft, draftLock, post>>

\* Publishing a form that is saved already.
PublishSaved(t) ==
    /\ task[t].op = "idle"
    /\ ~tab[t].conflict /\ tab[t].text # {}
    /\ tab[t].text = tab[t].saved /\ tab[t].record # Null
    /\ task' = [task EXCEPT ![t] =
           [NoTask EXCEPT !.op = "saved", !.answer =
               [ok |-> TRUE, record |-> tab[t].record]]]
    /\ UNCHANGED <<typed, tab, call, buffer, stray, draft, draftLock, post>>

Unanswered(t) == task[t].op = "saving" /\ task[t].answer = Null

SaveArrives(t) ==
    /\ Unanswered(t)
    /\ \/ /\ Refuses(task[t].expects)
          /\ task' = [task EXCEPT ![t].answer =
                 [ok |-> FALSE, record |-> IF Current = {} THEN Null
                                ELSE RecordOf(CHOOSE d \in Current : TRUE)]]
       \/ \E d \in Drafts :
             /\ Writes(d, task[t].text, task[t].expects)
             /\ task' = [task EXCEPT ![t].answer =
                    [ok |-> TRUE, record |-> [draft |-> d, ver |-> draft'[d].ver]]]
    /\ UNCHANGED <<typed, tab, call, stray, draftLock, post>>

\* A save its tab no longer waits for.
StrayArrives(r) ==
    /\ r \in stray
    /\ Refuses(r.expects) \/ \E d \in Drafts : Writes(d, r.text, r.expects)
    /\ stray' = stray \ {r}
    /\ UNCHANGED <<typed, tab, task, call, draftLock, post>>

\* The request or its answer is lost; a request may be only late.
SaveLost(t) ==
    stray' \in {stray} \cup
        IF Unanswered(t)
        THEN {stray \cup {[text |-> task[t].text, expects |-> task[t].expects]}}
        ELSE {}

SaveRetries(t) ==
    /\ task[t].op = "saving" /\ task[t].tries < MaxRetries
    /\ SaveLost(t)
    /\ task' = [task EXCEPT ![t].tries = @ + 1, ![t].answer = Null]
    /\ UNCHANGED <<typed, tab, call, buffer, draft, draftLock, post>>

\* The retries are used up, not allowed (pagehide), or the page is gone.
SaveGivesUp(t) ==
    /\ task[t].op = "saving"
    /\ SaveLost(t)
    /\ task' = [task EXCEPT ![t] = NoTask]
    /\ UNCHANGED <<typed, tab, call, buffer, draft, draftLock, post>>

\* Saved: the buffer is cleared unless the form has moved on.  A conflict
\* takes over the server's record and stops saving until a restore.
SaveAnswered(t) ==
    /\ task[t].op = "saving" /\ task[t].answer # Null
    /\ LET a == task[t].answer IN
       IF a.ok
       THEN /\ tab' = [tab EXCEPT ![t].record = a.record,
                                  ![t].saved = task[t].text]
            /\ buffer' = IF tab[t].text = task[t].text THEN Null
                         ELSE [text |-> tab[t].text, newer |-> TRUE]
            /\ task' = [task EXCEPT ![t] = IF task[t].publish
                            THEN [@ EXCEPT !.op = "saved"] ELSE NoTask]
       ELSE /\ tab' = [tab EXCEPT ![t].conflict = TRUE,
                          ![t].record = IF a.record = Null THEN @ ELSE a.record]
            /\ task' = [task EXCEPT ![t] = NoTask]
            /\ UNCHANGED buffer
    /\ UNCHANGED <<typed, call, stray, draft, draftLock, post>>

-----------------------------------------------------------------------------
(* Restoring and discarding, which await their answer outside the queue; a *)
(* tab asks one of them at a time.                                         *)

\* A conflict is forgiven at once.  The form is empty when the page opens.
BeginRestore(t, fresh) ==
    /\ call[t] = NoCall
    /\ fresh => task[t] = NoTask
    /\ call' = [call EXCEPT ![t].op = "restoring"]
    /\ tab' = [tab EXCEPT ![t] =
           [record |-> IF fresh THEN Null ELSE @.record,
            text |-> IF fresh THEN {} ELSE @.text, saved |-> {}, conflict |-> FALSE]]
    /\ UNCHANGED <<typed, task, buffer, stray, draft, draftLock, post>>

\* The GET, which may not reach the server.
RestoreReads(t, rows) ==
    /\ call[t].op = "restoring"
    /\ rows \in {{}, Current}
    /\ call' = [call EXCEPT ![t] =
           [op |-> "read",
            record |-> IF rows = {} THEN Null ELSE RecordOf(CHOOSE d \in rows : TRUE),
            text |-> UNION {draft[d].text : d \in rows}]]
    /\ UNCHANGED <<typed, tab, task, buffer, stray, draft, draftLock, post>>

\* The buffer fills the form (mine) if it is newer than what was read, which
\* may be older than the server's draft of now; the record is always the
\* server's, whatever a save has answered meanwhile.
RestoreAnswered(t, mine) ==
    LET r == call[t].record
        newer == r = Null \/ buffer.newer
        current == \E d \in Current : r = RecordOf(d)
    IN
    /\ call[t].op = "read"
    /\ IF buffer = Null THEN ~mine ELSE (newer => mine) /\ (mine => newer \/ ~current)
    /\ tab' = [tab EXCEPT ![t].record = r,
           ![t].text = IF mine THEN buffer.text ELSE IF r # Null THEN call[t].text ELSE @]
    /\ call' = [call EXCEPT ![t] = NoCall]
    /\ UNCHANGED <<typed, task, buffer, stray, draft, draftLock, post>>

\* The queue is drained and the local copy goes, then the DELETE is sent.
BeginDiscard(t) ==
    /\ task[t].op = "idle" /\ call[t] = NoCall
    /\ call' = [call EXCEPT ![t].op = "discarding"]
    /\ tab' = [tab EXCEPT ![t].saved = {}, ![t].conflict = FALSE]
    /\ buffer' = Null
    /\ UNCHANGED <<typed, task, stray, draft, draftLock, post>>

DiscardArrives(t) ==
    /\ call[t].op = "discarding"
    /\ \A d \in Current : draftLock[d] = Null
    /\ draft' = Discarded(draft)
    /\ call' = [call EXCEPT ![t].op = "discarded"]
    /\ UNCHANGED <<typed, tab, task, buffer, stray, draftLock, post>>

DiscardAnswered(t) ==
    /\ call[t].op = "discarded"
    /\ tab' = [tab EXCEPT ![t].record = Null, ![t].text = {}]
    /\ call' = [call EXCEPT ![t] = NoCall]
    /\ UNCHANGED <<typed, task, buffer, stray, draft, draftLock, post>>

\* The DELETE fails, or is done without the tab hearing of it.
DiscardFails(t) ==
    /\ call[t].op \in {"discarding", "discarded"}
    /\ call' = [call EXCEPT ![t] = NoCall]
    /\ UNCHANGED <<typed, tab, task, buffer, stray, draft, draftLock, post>>

-----------------------------------------------------------------------------
(* Publishing.                                                             *)

SendPost(t, p, status) ==
    /\ task[t].op = "saved"
    /\ post[p].st = "none"
    /\ post' = [post EXCEPT ![p] =
           [st |-> "sent", record |-> task[t].answer.record, status |-> status]]
    /\ task' = [task EXCEPT ![t] = [NoTask EXCEPT !.op = "posting", !.post = p]]
    /\ UNCHANGED <<typed, tab, call, buffer, stray, draft, draftLock>>

\* Variant of PostReads: the draft is read without FOR UPDATE.
PostReadsUnlocked(p) ==
    /\ post[p].st = "sent"
    /\ LET d == post[p].record.draft IN
       post' = [post EXCEPT ![p].st =
           IF draft[d].st = "published" THEN "repeated"
           ELSE IF RecordOf(d) = post[p].record /\ draft[d].st = "active"
                THEN "locked" ELSE "refused"]
    /\ UNCHANGED <<typed, tab, task, call, buffer, stray, draft, draftLock>>

\* SELECT ... FOR UPDATE: a published draft answers with its post, another
\* status or version is refused.
PostReads(p) ==
    /\ post[p].st = "sent"
    /\ LET d == post[p].record.draft IN
       /\ draftLock[d] = Null
       /\ \/ /\ draft[d].st = "published"
             /\ post' = [post EXCEPT ![p].st = "repeated"]
             /\ UNCHANGED draftLock
          \/ /\ draft[d].st = "active" /\ RecordOf(d) = post[p].record
             /\ post' = [post EXCEPT ![p].st = "locked"]
             /\ draftLock' = [draftLock EXCEPT ![d] = p]
          \/ /\ draft[d].st # "published"
             /\ draft[d].st = "active" => RecordOf(d) # post[p].record
             /\ post' = [post EXCEPT ![p].st = "refused"]
             /\ UNCHANGED draftLock
    /\ UNCHANGED <<typed, tab, task, call, buffer, stray, draft>>

Unlocked(p) == [d \in Drafts |-> IF draftLock[d] = p THEN Null ELSE draftLock[d]]

\* The post is inserted; it consumes the draft only when it is published.
PostCommits(p) ==
    /\ post[p].st = "locked"
    /\ post' = [post EXCEPT ![p].st = "created"]
    /\ LET d == post[p].record.draft IN
       draft' = IF post[p].status # "published" \/ draft[d].st # "active" THEN draft
                ELSE [draft EXCEPT ![d].st = "published", ![d].ver = @ + 1,
                                   ![d].post = p]
    /\ draftLock' = Unlocked(p)
    /\ UNCHANGED <<typed, tab, task, call, buffer, stray>>

\* The request is lost, or an image or a location is refused.
PostFails(p) ==
    /\ post[p].st \in {"sent", "locked"}
    /\ post' = [post EXCEPT ![p].st = "refused"]
    /\ draftLock' = Unlocked(p)
    /\ UNCHANGED <<typed, tab, task, call, buffer, stray, draft>>

\* The form is reset; markPublished forgets the draft.
PostAnswered(t) ==
    /\ task[t].op = "posting"
    /\ LET q == post[task[t].post] IN
       /\ q.st \in {"created", "repeated", "refused"}
       /\ tab' = IF q.st = "refused" THEN tab ELSE
             [tab EXCEPT ![t] = IF q.status = "published"
                 THEN [record |-> Null, text |-> {}, saved |-> {},
                       conflict |-> FALSE]
                 ELSE [@ EXCEPT !.text = {}]]
       /\ buffer' = IF q.st # "refused" /\ q.status = "published"
                    THEN Null ELSE buffer
    /\ task' = [task EXCEPT ![t] = NoTask]
    /\ UNCHANGED <<typed, call, stray, draft, draftLock, post>>

\* Fifteen seconds without an answer; the server carries on.
PostTimesOut(t) ==
    /\ task[t].op = "posting"
    /\ task' = [task EXCEPT ![t] = NoTask]
    /\ UNCHANGED <<typed, tab, call, buffer, stray, draft, draftLock, post>>

TabStep(t) ==
    \/ \E e \in Edits : TypeEdit(t, e)
    \/ \E publish \in BOOLEAN : BeginSave(t, publish)
    \/ PublishSaved(t)
    \/ SaveArrives(t) \/ SaveRetries(t) \/ SaveGivesUp(t) \/ SaveAnswered(t)
    \/ \E fresh \in BOOLEAN : BeginRestore(t, fresh)
    \/ \E rows \in SUBSET Drafts : RestoreReads(t, rows)
    \/ \E mine \in BOOLEAN : RestoreAnswered(t, mine)
    \/ BeginDiscard(t) \/ DiscardArrives(t) \/ DiscardAnswered(t) \/ DiscardFails(t)
    \/ \E p \in Posts, status \in PostStatuses : SendPost(t, p, status)
    \/ PostAnswered(t) \/ PostTimesOut(t)

FeedNext ==
    \/ \E t \in Tabs : TabStep(t)
    \/ \E r \in stray : StrayArrives(r)
    \/ \E p \in Posts : PostReads(p) \/ PostCommits(p) \/ PostFails(p)
    \/ AbandonDraft

FeedSpec == FeedInit /\ [][FeedNext]_feedVars

-----------------------------------------------------------------------------
(* Properties.                                                             *)

\* However often a tab posts again what it already posted, and whatever other
\* tabs save or discard meanwhile, a draft is published by one post, the one
\* it names, and it never says it was published without one.
PublishedOnce ==
    /\ \A p \in Posts : post[p].st = "created" /\ post[p].status = "published"
          => LET d == post[p].record.draft
             IN  draft[d].st = "published" /\ draft[d].post = p
    /\ \A d \in Drafts : draft[d].st = "published"
          => post[draft[d].post].st = "created"
=============================================================================
