------------------------------ MODULE Takedown ------------------------------
(***************************************************************************)
(* Takedown requests for the articles of one source: their review, the     *)
(* hiding of what they name, the cleanup that the cron runs page by page,  *)
(* and the two that work on the same articles meanwhile: answers that cite *)
(* them and ingestion and reconciliation of the source.                    *)
(*                                                                         *)
(* A transaction that writes an article, the source or a chat conflicts    *)
(* with every other that writes it: approval, a cleanup page, completion   *)
(* and the append of an answer are one step each.  An ingestion batch only *)
(* READS the source: its snapshot and its commit are two steps.            *)
(***************************************************************************)
EXTENDS Integers, Sequences, FiniteSets

CONSTANTS
    Article,
    Chat,
    Request,
    None,       \* no request, no answer under way
    Scopes,     \* bound: the scopes requests ask for, of metadata, media and summary
    OfSource,   \* the target of a request about the whole source: no article
    Targets,    \* bound: the targets requests name, articles or OfSource
    Page,       \* articles, and chats, of a cleanup page (100)
    MaxPolicy   \* bound on policy versions of the source

VARIABLES
    src,     \* the source: operational status, policy version
    art,     \* articles
    req,     \* takedownRequests
    due,     \* approved requests with cleanup left, the oldest updatedAt first
    cites,   \* per chat, the articles its answers cite with an available citation
    answer,  \* per chat, the evidence of the answer under way
    batch    \* the policy version in the snapshot of an ingestion batch (0: none)

vars == <<src, art, req, due, cites, answer, batch>>

Version == 1..MaxPolicy

\* "published" stands for processing and review-needed too, which a reconciliation
\* does not hide; the summary stands for the embedding.
ArticleDocument ==
    [status: {"absent", "published", "hidden", "removed"}, eligible: BOOLEAN,
     rights: Version, summary: {"pending", "ready", "removed"},
     media: {"available", "hidden", "none"}]

TakedownRequest ==
    [status: {"received", "reviewing", "approved", "rejected", "completed"},
     target: Article \cup {OfSource}, scope: SUBSET {"metadata", "media", "summary"},
     hidden: BOOLEAN, done: SUBSET {"metadata", "media", "summary"}, redacted: BOOLEAN]

Evidence == [articles: SUBSET Article, version: Version]

InOrder(s) == \A i, j \in 1..Len(s) : i # j => s[i] # s[j]

TypeOK ==
    /\ src \in [status: {"active", "paused", "archived"}, version: Version]
    /\ art \in [Article -> ArticleDocument]
    /\ req \in [Request -> TakedownRequest \cup {None}]
    /\ \A i \in 1..Len(due) : due[i] \in Request
    /\ InOrder(due)
    /\ {due[i] : i \in 1..Len(due)} =
         {r \in Request : req[r] # None /\ req[r].status = "approved" /\ ~req[r].redacted}
    /\ cites \in [Chat -> SUBSET Article]
    /\ answer \in [Chat -> Evidence \cup {None}]
    /\ batch \in 0..MaxPolicy

Absent == [status |-> "absent", eligible |-> FALSE, rights |-> 1, summary |-> "pending",
           media |-> "none"]

Ingested(version) ==
    [status |-> "published", eligible |-> TRUE, rights |-> version, summary |-> "pending",
     media |-> "available"]

Init ==
    /\ src = [status |-> "active", version |-> 1]
    /\ art = [a \in Article |-> Absent]
    /\ req = [r \in Request |-> None]
    /\ due = <<>>
    /\ cites = [c \in Chat |-> {}]
    /\ answer = [c \in Chat |-> None]
    /\ batch = 0

-----------------------------------------------------------------------------
(* The source and its articles *)

\* Pause, activation, archiving, a re-review or a review: SourceReconciliation
\* has the commands in detail.
ChangeSource ==
    /\ src.status # "archived"
    /\ \E status \in {"active", "paused", "archived"}, v \in {src.version, src.version + 1} :
         /\ status = "archived" => src.status = "paused"
         /\ v # src.version => status = "paused" /\ v <= MaxPolicy
         /\ src' = [status |-> status, version |-> v]
    /\ UNCHANGED <<art, req, due, cites, answer, batch>>

OpenBatch ==
    /\ batch = 0
    /\ src.status = "active"
    /\ batch' = src.version
    /\ UNCHANGED <<src, art, req, due, cites, answer>>

\* upsertCandidate: an article that is there keeps its status, its rights and its
\* artifacts, a tombstone is left alone.  No article new: also a batch that aborts.
CommitBatch ==
    /\ batch # 0
    /\ batch' = 0
    /\ \E new \in SUBSET {a \in Article : art[a].status = "absent"} :
         art' = [a \in Article |-> IF a \in new THEN Ingested(batch) ELSE art[a]]
    /\ UNCHANGED <<src, req, due, cites, answer>>

Summarised(a) ==
    /\ art' = [art EXCEPT ![a].summary = "ready"]
    /\ UNCHANGED <<src, req, due, cites, answer, batch>>

\* commitArtifact writes to published articles of a source that permits it.
Summarise(a) ==
    /\ art[a].status = "published" /\ art[a].eligible /\ art[a].summary = "pending"
    /\ src.status = "active" /\ art[a].rights = src.version
    /\ Summarised(a)

\* reconcileArticleVisibility at the source's version.  What the policy allows
\* of media and summaries is left open; `eligible` is not touched.
ReconcileVisibility(a) ==
    /\ art[a].status \in {"published", "hidden"}
    /\ \E status \in IF src.status = "active" THEN {art[a].status} ELSE {art[a].status, "hidden"},
          summary \in {"pending", "removed"},
          media \in IF art[a].media = "available" THEN {"available", "hidden"} ELSE {art[a].media} :
         art' = [art EXCEPT ![a] =
                   [@ EXCEPT !.status = status,
                             !.rights = src.version,
                             !.summary = IF art[a].summary = "ready" /\ art[a].rights = src.version
                                         THEN "ready" ELSE summary,
                             !.media = media]]
    /\ UNCHANGED <<src, req, due, cites, answer, batch>>

-----------------------------------------------------------------------------
(* Answers *)

\* canUseQnaEvidence under the version that the fence of the evidence records.
Usable(a, version) ==
    /\ art[a].status = "published" /\ art[a].eligible /\ art[a].rights = version
    /\ src.status = "active" /\ src.version = version

Ask(c) ==
    /\ answer[c] = None
    /\ \E cited \in SUBSET {a \in Article : Usable(a, src.version)} \ {{}} :
         answer' = [answer EXCEPT ![c] = [articles |-> cited, version |-> src.version]]
    /\ UNCHANGED <<src, art, req, due, cites, batch>>

\* Fault: only the source is checked again.
AppendUnderSource(c) ==
    /\ answer[c] # None
    /\ answer' = [answer EXCEPT ![c] = None]
    /\ src.status = "active" /\ src.version = answer[c].version
    /\ cites' = [cites EXCEPT ![c] = cites[c] \cup answer[c].articles]
    /\ UNCHANGED <<src, art, req, due, batch>>

\* appendAnswer writes what it cites: the articles and the source are as they
\* were when the answer's evidence was taken.
AppendAnswer(c) ==
    /\ answer[c] # None
    /\ answer' = [answer EXCEPT ![c] = None]
    /\ \A a \in answer[c].articles : Usable(a, answer[c].version)
    /\ cites' = [cites EXCEPT ![c] = cites[c] \cup answer[c].articles]
    /\ UNCHANGED <<src, art, req, due, batch>>

\* The provider fails, or the evidence changed.
DropAnswer(c) ==
    /\ answer[c] # None
    /\ answer' = [answer EXCEPT ![c] = None]
    /\ UNCHANGED <<src, art, req, due, cites, batch>>

-----------------------------------------------------------------------------
(* The workflow of a request *)

Targeted(r) == IF req[r].target = OfSource THEN Article ELSE {req[r].target}

\* assertTargetsCurrent, before completion.
TargetsCurrent(target) ==
    IF target = OfSource
    THEN src.status # "archived"
    ELSE art[target].status \notin {"absent", "removed"}

Create(r) ==
    /\ req[r] = None
    /\ \E target \in Targets, scope \in Scopes :
         /\ TargetsCurrent(target)
         /\ req' = [req EXCEPT ![r] = [status |-> "received", target |-> target, scope |-> scope,
                                       hidden |-> FALSE, done |-> {}, redacted |-> FALSE]]
    /\ UNCHANGED <<src, art, due, cites, answer, batch>>

Moves(r, from, to) ==
    /\ req[r] # None
    /\ req[r].status = from
    /\ TargetsCurrent(req[r].target)
    /\ req' = [req EXCEPT ![r].status = to]
    /\ UNCHANGED <<src, art, due, cites, answer, batch>>

Review(r) == Moves(r, "received", "reviewing")

\* Fault: an approved request can still be rejected.
RejectLate(r) == Moves(r, "reviewing", "rejected") \/ Moves(r, "approved", "rejected")

Reject(r) == Moves(r, "reviewing", "rejected")

\* What hideTargets takes hold of; an article the reconciliation hid, still
\* eligible, is not.
Hideable(a) ==
    art[a].status = "published" \/ (art[a].status = "hidden" /\ ~art[a].eligible)

Hide(targets) ==
    art' = [a \in Article |->
              IF a \in targets /\ Hideable(a)
              THEN [art[a] EXCEPT !.status = "hidden", !.eligible = FALSE, !.media = "none"]
              ELSE art[a]]

\* A source that is hidden is paused under a new version.
Approve(r) ==
    /\ req[r] # None /\ req[r].status = "reviewing"
    /\ TargetsCurrent(req[r].target)
    /\ IF req[r].target = OfSource
       THEN /\ src.version < MaxPolicy
            /\ src' = [status |-> "paused", version |-> src.version + 1]
       ELSE Hideable(req[r].target) /\ UNCHANGED src
    /\ Hide(Targeted(r))
    /\ req' = [req EXCEPT ![r] = [@ EXCEPT !.status = "approved", !.hidden = TRUE]]
    /\ due' = Append(due, r)
    /\ UNCHANGED <<cites, answer, batch>>

Stripped(a, scope) ==
    /\ "media" \in scope => art[a].media = "none"
    /\ "summary" \in scope => art[a].summary = "removed"

\* assertTerminalTargetsCurrent: a source's articles are all tombstones, or all
\* hidden and stripped.
TerminalArticle(a, scope) ==
    IF "metadata" \in scope
    THEN art[a].status = "removed"
    ELSE art[a].status = "hidden" /\ ~art[a].eligible /\ Stripped(a, scope)

Complete(r) ==
    /\ req[r] # None /\ req[r].status = "approved"
    /\ req[r].hidden /\ req[r].done = req[r].scope /\ req[r].redacted
    /\ req[r].target = OfSource => src.status = "paused"
    /\ \A a \in Targeted(r) :
         (req[r].target = OfSource => art[a].status # "absent") => TerminalArticle(a, req[r].scope)
    /\ req' = [req EXCEPT ![r].status = "completed"]
    /\ UNCHANGED <<src, art, due, cites, answer, batch>>

\* purgeWorkflows.
Purge(r) ==
    /\ req[r] # None /\ req[r].status \in {"rejected", "completed"}
    /\ req' = [req EXCEPT ![r] = None]
    /\ UNCHANGED <<src, art, due, cites, answer, batch>>

-----------------------------------------------------------------------------
(* Cleanup *)

\* What the cleanup of a scope takes hold of.
Cleanable(a, scope) ==
    /\ ~art[a].eligible
    /\ art[a].status \in IF "metadata" \in scope THEN {"hidden", "removed"} ELSE {"hidden"}

\* cleanupArtifacts: otherwise it throws, and the request stays as it is.
CleanupAllowed(r) ==
    IF req[r].target = OfSource
    THEN src.status = "paused" /\ \A a \in Article : art[a].status # "published"
    ELSE Cleanable(req[r].target, req[r].scope)

Tombstone(a) == [art[a] EXCEPT !.status = "removed", !.summary = "removed", !.media = "none"]

Strip(a, scope) ==
    [art[a] EXCEPT !.media = IF "media" \in scope THEN "none" ELSE @,
                   !.summary = IF "summary" \in scope THEN "removed" ELSE @]

\* The subsets a page can be: all, or Page of them.
Pages(set) ==
    IF Cardinality(set) <= Page THEN {set} ELSE {p \in SUBSET set : Cardinality(p) = Page}

\* What the cleanup of r has not removed yet.
Pending(r) ==
    {a \in Targeted(r) : Cleanable(a, req[r].scope) /\ art[a].status # "removed"}

\* Fault: a page that finds nothing left to remove does not count.
LastPageRemoves(r, articles) == articles = Pending(r) /\ articles # {}

LastPage(r, articles) == articles = Pending(r)

\* One page of r: `articles` become tombstones or are stripped, the citations of
\* r's targets in `chats` are redacted, and the request goes to the end.
CleanPage(r, articles, chats, redacted) ==
    LET scope == req[r].scope
        all == LastPage(r, articles)
    IN  /\ art' = [a \in Article |->
                     IF a \notin articles THEN art[a]
                     ELSE IF "metadata" \in scope THEN Tombstone(a) ELSE Strip(a, scope)]
        /\ cites' = [c \in Chat |-> IF c \in chats THEN cites[c] \ Targeted(r) ELSE cites[c]]
        /\ req' = [req EXCEPT ![r] = [@ EXCEPT !.done = IF all THEN scope ELSE {},
                                               !.redacted = redacted /\ all]]
        /\ due' = IF redacted /\ all THEN Tail(due) ELSE Append(Tail(due), r)

Citing(r) == {c \in Chat : cites[c] \cap Targeted(r) # {}}

Cleaned(r) ==
    IF "metadata" \in req[r].scope
    THEN Pages(Pending(r))
    ELSE {{a \in Targeted(r) : Cleanable(a, req[r].scope)}}

\* materializeCleanupBatch: always the request at the head.
CleanupBatch ==
    /\ due # <<>>
    /\ CleanupAllowed(Head(due))
    /\ \E articles \in Cleaned(Head(due)), chats \in Pages(Citing(Head(due))) :
         CleanPage(Head(due), articles, chats, chats = Citing(Head(due)))
    /\ UNCHANGED <<src, answer, batch>>

-----------------------------------------------------------------------------
Workflow(r) == Create(r) \/ Review(r) \/ Reject(r) \/ Approve(r) \/ Complete(r) \/ Purge(r)

Answering(c) == Ask(c) \/ AppendAnswer(c) \/ DropAnswer(c)

Next ==
    \/ \E r \in Request : Workflow(r)
    \/ \E c \in Chat : Answering(c)
    \/ \E a \in Article : Summarise(a) \/ ReconcileVisibility(a)
    \/ ChangeSource \/ OpenBatch \/ CommitBatch \/ CleanupBatch

Spec == Init /\ [][Next]_vars

\* The cron runs the cleanup day after day; a page that meets a write conflict is
\* taken again.
FairSpec == Spec /\ WF_vars(CleanupBatch)

-----------------------------------------------------------------------------
(* Properties *)

\* What a request took down stays down: neither ingestion nor reconciliation nor
\* another request shows the article again or makes it evidence.
TakenDownStaysDown ==
    \A r \in Request :
        (/\ req[r] # None /\ req[r].target # OfSource
         /\ req[r].status \in {"approved", "completed"}) =>
            /\ art[req[r].target].status \in {"hidden", "removed"}
            /\ ~art[req[r].target].eligible
            /\ art[req[r].target].media = "none"

\* Once historicalChatCitationsRedacted is set no chat cites the article, also not
\* one whose answer was under way when the article was hidden.
RedactionHolds ==
    \A r \in Request : (req[r] # None /\ req[r].target # OfSource /\ req[r].redacted) =>
        \A c \in Chat : req[r].target \notin cites[c]

\* Completion is final: no summary in scope is made again, no tombstone undone.
CompletedIsGone ==
    \A r \in Request :
        (/\ req[r] # None /\ req[r].target # OfSource /\ req[r].status = "completed") =>
            /\ "metadata" \in req[r].scope => art[req[r].target].status = "removed"
            /\ "summary" \in req[r].scope => art[req[r].target].summary # "ready"

\* r is approved, and its own targets are open to the cleanup it still needs.
Waits(r) ==
    req[r] # None /\ req[r].status = "approved" /\ ~req[r].redacted /\ CleanupAllowed(r)

\* docs/adr/0012 and docs/TECHNICAL-DESIGN.md 6.8: the cleanup is bounded and taken
\* up again until it is done.  No request waits for ever, whatever the requests
\* before it have met.
CleanupEnds == \A r \in Request : []<>~Waits(r)

=============================================================================
