------------------------ MODULE SourceReconciliation ------------------------
(***************************************************************************)
(* One source document: the administrator's changes of it, the takedown    *)
(* that pauses it, the reconciliation that fans a new policy version out to *)
(* its articles page by page, and the ingestion batches that add articles. *)
(*                                                                         *)
(* A transaction that writes the source is a read of it (its snapshot) and *)
(* a commit that fails when the document was written in between.  An       *)
(* administrator's command reads outside its transaction and compares      *)
(* updatedAt and policyVersion: no two writes carry the same updatedAt     *)
(* (nextMutationTime).  A batch READS the source in its transaction, so    *)
(* its commit does not conflict with a change of it.                       *)
(***************************************************************************)
EXTENDS Integers, FiniteSets

CONSTANTS
    Admin,       \* administrators' commands under way at once
    Runner,      \* invocations of the reconciliation runner
    Batch,       \* ingestion batches in flight
    None,        \* no copy, no owner
    Page,        \* articles per page (100)
    MaxArticle,  \* bound on articles of the source
    MaxPolicy,   \* bound on its policy versions
    Takedowns    \* bound: may a takedown pause the source?

ASSUME ReconciliationAssumption ==
    /\ Page \in Nat \ {0}
    /\ MaxArticle \in Nat
    /\ MaxPolicy \in Nat \ {0}
    /\ Takedowns \in BOOLEAN
    /\ Admin \cap Runner = {}

VARIABLES
    src,     \* the source document
    born,    \* per article, the policy version it was added under (0: not there)
    fanned,  \* per article, the policy versions with reconciliation jobs for it
    owner,   \* jobLeases.activeOwner of the source's reconciliation
    admin,   \* per command, the source it read
    runner,  \* per invocation, its step and the snapshot of its page
    batch,   \* per batch, the policy version its snapshot holds (0: none)
    stale,   \* commands and invocations whose copy of the source is outdated
    there    \* history: the articles of the source when its version began

vars == <<src, born, fanned, owner, admin, runner, batch, stale, there>>

Article == 1..MaxArticle
Version == 1..MaxPolicy
Cursor == 0..MaxArticle  \* 0: no cursorArticleId

Marker == [status: {"idle", "pending", "processing", "completed", "failed"},
           required: Version, completed: 0..MaxPolicy, cursor: Cursor]

SourceDocument ==
    [status: {"draft", "testing", "active", "paused", "archived"}, policy: Version,
     license: {"review-needed", "permitted", "blocked"}, checked: BOOLEAN, marker: Marker]

Invocation ==
    [pc: {"idle", "selected", "cleared", "leased", "page", "failing", "releasing"},
     read: SourceDocument \cup {None}, seen: SUBSET Article]

ASSUME NoneAssumption == None \notin SourceDocument

TypeOK ==
    /\ src \in SourceDocument
    /\ born \in [Article -> 0..MaxPolicy]
    /\ fanned \in [Article -> SUBSET Version]
    /\ owner \in [by: Runner, live: BOOLEAN] \cup {None}
    /\ admin \in [Admin -> SourceDocument \cup {None}]
    /\ runner \in [Runner -> Invocation]
    /\ batch \in [Batch -> 0..MaxPolicy]
    /\ stale \subseteq Admin \cup Runner
    /\ there \subseteq Article

Idle == [pc |-> "idle", read |-> None, seen |-> {}]
Present == {x \in Article : born[x] # 0}

\* pendingMarker: the cursor goes with the old marker.
PendingMarker(version) ==
    [status |-> "pending", required |-> version, completed |-> 0, cursor |-> 0]

\* A source that has been checked, reviewed and activated; versions are counted
\* from its review.
Init ==
    /\ src = [status |-> "active", policy |-> 1, license |-> "permitted", checked |-> TRUE,
              marker |-> PendingMarker(1)]
    /\ born = [x \in Article |-> 0]
    /\ fanned = [x \in Article |-> {}]
    /\ owner = None
    /\ admin = [a \in Admin |-> None]
    /\ runner = [r \in Runner |-> Idle]
    /\ batch = [b \in Batch |-> 0]
    /\ stale = {}
    /\ there = {}

\* Every write of the source outdates the copies others hold.
Outdated == {a \in Admin : admin[a] # None} \cup {r \in Runner : runner[r].read # None}

\* A new version begins with the articles there are.
Write(next) ==
    /\ src' = next
    /\ stale' = Outdated
    /\ there' = IF next.policy = src.policy THEN there ELSE Present

-----------------------------------------------------------------------------
(* What an administrator can make of a source *)

Successors(status) ==
    CASE status = "draft" -> {"testing"}
      [] status = "testing" -> {"active", "paused"}
      [] status = "active" -> {"paused"}
      [] status = "paused" -> {"active", "archived"}
      [] status = "archived" -> {}

\* transitionOperationalStatus with validateActivation.
Transitions(s) ==
    {[s EXCEPT !.status = to] : to \in {t \in Successors(s.status) :
        t = "active" => s.license = "permitted" /\ s.checked}}

NewVersion(s) == [s EXCEPT !.policy = s.policy + 1, !.marker = PendingMarker(s.policy + 1)]

\* applySourceUpdate: names change nothing the source stands for; configuration
\* with rights in it only while a review is needed, and may undo the check.
Configurations(s) ==
    {s} \cup IF s.license = "review-needed"
             THEN {[NewVersion(s) EXCEPT !.checked = c] : c \in {s.checked, FALSE}}
             ELSE {}

Updates(s) == Configurations(s) \cup UNION {Transitions(c) : c \in Configurations(s)}

\* reviewSourcePolicy.
Reviews(s) ==
    IF s.status = "active" THEN {}
    ELSE {[NewVersion(s) EXCEPT !.license = l] : l \in {"permitted", "blocked"}}

\* requestPolicyReReview.
ReReviews(s) ==
    IF s.status = "archived" THEN {}
    ELSE {[NewVersion(s) EXCEPT !.license = "review-needed",
                                !.status = IF s.status = "active" THEN "paused" ELSE s.status]}

\* runTechnicalCheck: the result joins the copy read before the check.
Checks(s) == {[s EXCEPT !.checked = c] : c \in BOOLEAN}

Changes(s) ==
    {next \in Updates(s) \cup Reviews(s) \cup ReReviews(s) \cup Checks(s) :
        next.policy <= MaxPolicy}

ReadSource(a) ==
    /\ admin[a] = None
    /\ admin' = [admin EXCEPT ![a] = src]
    /\ UNCHANGED <<src, born, fanned, owner, runner, batch, stale, there>>

Replaces(a, next) ==
    /\ next \in Changes(admin[a])
    /\ src' = next
    /\ admin' = [admin EXCEPT ![a] = None]
    /\ stale' = Outdated \ {a}
    /\ there' = IF next.policy = src.policy THEN there ELSE Present
    /\ UNCHANGED <<born, fanned, owner, runner, batch>>

\* Fault: nothing is compared.
ReplaceAny(a) ==
    /\ admin[a] # None
    /\ \E next \in Changes(admin[a]) : Replaces(a, next)

\* commitReplacement: the whole document, if nobody wrote it since it was read.
CommitReplacement(a) ==
    /\ admin[a] # None
    /\ a \notin stale
    /\ \E next \in Changes(admin[a]) : Replaces(a, next)

\* source_conflict, a change that is not allowed, an actor who is signed out.
ReplacementRefused(a) ==
    /\ admin[a] # None
    /\ admin' = [admin EXCEPT ![a] = None]
    /\ stale' = stale \ {a}
    /\ UNCHANGED <<src, born, fanned, owner, runner, batch, there>>

\* hideTargets: fields of the marker are set one by one; cursorArticleId is not
\* among them.
HideTargets ==
    /\ Takedowns
    /\ src.status # "archived"
    /\ src.policy < MaxPolicy
    /\ Write([NewVersion(src) EXCEPT !.status = "paused", !.marker.cursor = src.marker.cursor])
    /\ UNCHANGED <<born, fanned, owner, admin, runner, batch>>

-----------------------------------------------------------------------------
(* The reconciliation runner *)

Holds(r) == owner # None /\ owner.by = r
Owns(r) == Holds(r) /\ owner.live

\* The backoff of a failed marker is left open.
Due == src.status # "archived" /\ src.marker.status \in {"pending", "processing", "failed"}

GoTo(r, pc) == runner' = [runner EXCEPT ![r].pc = pc]

\* An invocation that no longer holds a snapshot.
Drop(r, pc) ==
    /\ runner' = [runner EXCEPT ![r] = [Idle EXCEPT !.pc = pc]]
    /\ stale' = stale \ {r}

SelectSource(r) ==
    /\ runner[r].pc = "idle"
    /\ Due
    /\ GoTo(r, "selected")
    /\ UNCHANGED <<src, born, fanned, owner, admin, batch, stale, there>>

\* Fault: nothing expired is cleared.
ClearNothing(r) ==
    /\ runner[r].pc = "selected"
    /\ GoTo(r, "cleared")
    /\ UNCHANGED <<src, born, fanned, owner, admin, batch, stale, there>>

\* clearExpiredReconciliation.
ClearExpired(r) ==
    /\ runner[r].pc = "selected"
    /\ owner' = IF owner # None /\ ~owner.live THEN None ELSE owner
    /\ GoTo(r, "cleared")
    /\ UNCHANGED <<src, born, fanned, admin, batch, stale, there>>

Acquire(r) ==
    /\ runner[r].pc = "cleared"
    /\ IF owner = None
       THEN owner' = [by |-> r, live |-> TRUE] /\ GoTo(r, "leased")
       ELSE UNCHANGED owner /\ GoTo(r, "idle")
    /\ UNCHANGED <<src, born, fanned, admin, batch, stale, there>>

\* The transaction's reads: the lease, the marker, the articles.
OpenPage(r) ==
    /\ runner[r].pc = "leased"
    /\ Owns(r) /\ Due
    /\ src.policy = src.marker.required
    /\ runner' = [runner EXCEPT ![r] = [pc |-> "page", read |-> src, seen |-> Present]]
    /\ UNCHANGED <<src, born, fanned, owner, admin, batch, stale, there>>

Todo(r) == {x \in runner[r].seen : x > runner[r].read.marker.cursor}

\* The first `limit` of the documents that are left.
FirstOf(r, limit) == {x \in Todo(r) : Cardinality({y \in Todo(r) : y < x}) < limit}

NextCursor(r) == CHOOSE x \in FirstOf(r, Page) : \A y \in FirstOf(r, Page) : y <= x

Materialize(r) ==
    LET read == runner[r].read
        page == FirstOf(r, Page)
        marker ==
            IF page # Todo(r)
            THEN [read.marker EXCEPT !.status = "processing", !.cursor = NextCursor(r)]
            ELSE [read.marker EXCEPT !.status = "completed", !.cursor = 0,
                                     !.completed = read.policy]
    IN  /\ fanned' = [x \in Article |->
                        IF x \in page THEN fanned[x] \cup {read.policy} ELSE fanned[x]]
        /\ src' = [src EXCEPT !.marker = marker]
        /\ stale' = Outdated \ {r}
        /\ \E pc \in {"releasing", "failing"} :
             runner' = [runner EXCEPT ![r] = [Idle EXCEPT !.pc = pc]]
        /\ UNCHANGED <<born, owner, admin, batch, there>>

\* Fault: the page commits over what was written since it was read.
MaterializeStale(r) ==
    /\ runner[r].pc = "page"
    /\ Holds(r)
    /\ Materialize(r)

\* materializeReconciliationPage commits; its caller may not learn of it.  It has
\* touched the lease, so a lease that expires meanwhile is still the runner's own
\* until somebody else writes it.
MaterializePage(r) ==
    /\ runner[r].pc = "page"
    /\ Holds(r)
    /\ r \notin stale
    /\ Materialize(r)

\* The fence, the marker or a write conflict; the driver may run it again.
PageFails(r) ==
    /\ runner[r].pc \in {"leased", "page"}
    /\ \E pc \in {"leased", "failing", "releasing"} : Drop(r, pc)
    /\ UNCHANGED <<src, born, fanned, owner, admin, batch, there>>

\* markReconciliationFailure: the runner throws when it marks nothing, and
\* releases its lease all the same.
MarkFailure(r) ==
    /\ runner[r].pc = "failing"
    /\ GoTo(r, "releasing")
    /\ \/ /\ Owns(r)
          /\ src.policy = src.marker.required
          /\ src.marker.status \in {"pending", "processing", "failed"}
          /\ Write([src EXCEPT !.marker.status = "failed"])
       \/ UNCHANGED <<src, stale, there>>
    /\ UNCHANGED <<born, fanned, owner, admin, batch>>

\* release, unless no time is left for it.
Release(r) ==
    /\ runner[r].pc = "releasing"
    /\ owner' \in {owner, IF Owns(r) THEN None ELSE owner}
    /\ Drop(r, "idle")
    /\ UNCHANGED <<src, born, fanned, admin, batch, there>>

Crash(r) ==
    /\ runner[r].pc # "idle"
    /\ Drop(r, "idle")
    /\ UNCHANGED <<src, born, fanned, owner, admin, batch, there>>

Expire ==
    /\ owner # None /\ owner.live
    /\ owner' = [owner EXCEPT !.live = FALSE]
    /\ UNCHANGED <<src, born, fanned, admin, runner, batch, stale, there>>

-----------------------------------------------------------------------------
(* Ingestion *)

\* The snapshot of commitIngestionBatch holds a source that permits the batch.
OpenBatch(b) ==
    /\ batch[b] = 0
    /\ src.status = "active" /\ src.license = "permitted" /\ src.checked
    /\ batch' = [batch EXCEPT ![b] = src.policy]
    /\ UNCHANGED <<src, born, fanned, owner, admin, runner, stale, there>>

\* An identifier says when its article was built, not when it was committed: a
\* new one may come before the cursor.
CommitBatch(b) ==
    /\ batch[b] # 0
    /\ batch' = [batch EXCEPT ![b] = 0]
    /\ \E x \in Article \ Present : born' = [born EXCEPT ![x] = batch[b]]
    /\ UNCHANGED <<src, fanned, owner, admin, runner, stale, there>>

\* It found nothing new, or it aborts.
EndBatch(b) ==
    /\ batch[b] # 0
    /\ batch' = [batch EXCEPT ![b] = 0]
    /\ UNCHANGED <<src, born, fanned, owner, admin, runner, stale, there>>

-----------------------------------------------------------------------------
Command(a) == ReadSource(a) \/ CommitReplacement(a) \/ ReplacementRefused(a)

Reconcile(r) ==
    \/ SelectSource(r) \/ ClearExpired(r) \/ Acquire(r) \/ OpenPage(r)
    \/ MaterializePage(r) \/ PageFails(r) \/ MarkFailure(r) \/ Release(r)

Ingest(b) == OpenBatch(b) \/ CommitBatch(b) \/ EndBatch(b)

Next ==
    \/ \E a \in Admin : Command(a)
    \/ \E r \in Runner : Reconcile(r) \/ Crash(r)
    \/ \E b \in Batch : Ingest(b)
    \/ HideTargets \/ Expire

Spec == Init /\ [][Next]_vars

\* The cron starts runners and they run to their end; a lease nobody holds on to
\* expires.  A step a runner can take again and again is taken at last: nothing in
\* the code limits how often a crash or an administrator comes before it.
Unattended == owner # None /\ runner[owner.by].pc \in {"idle", "selected", "cleared"}

Fairness ==
    /\ \A r \in Runner :
         /\ WF_vars(Reconcile(r))
         /\ SF_vars(SelectSource(r)) /\ SF_vars(ClearExpired(r)) /\ SF_vars(Acquire(r))
         /\ SF_vars(OpenPage(r)) /\ SF_vars(MaterializePage(r))
    /\ WF_vars(Unattended /\ Expire)

FairSpec == Spec /\ Fairness

-----------------------------------------------------------------------------
(* Properties *)

\* A marker is about the source's own version, and one that is completed says so
\* of that version and leaves no cursor (docs/DATA-MODEL.md, 291): no late page
\* writes an old version's outcome over it.
MarkerIsCurrent ==
    /\ src.marker.required = src.policy
    /\ (src.marker.status = "completed") = (src.marker.completed = src.policy)
    /\ src.marker.completed \in {0, src.policy}
    /\ src.marker.status = "completed" => src.marker.cursor = 0

\* `completed` means that every article the source had when its version began has
\* the jobs of that version, whatever pages crashed, ran twice or lost their lease.
CompletedIsComplete ==
    src.marker.status = "completed" => \A x \in there : src.policy \in fanned[x]

\* What markers promise.  A takedown that comes between two pages leaves its cursor
\* to the new version, so what it pauses can be completed without being complete:
\* the run MCStaleCursor shows it.
MarkersAreTrue == MarkerIsCurrent /\ (~Takedowns => CompletedIsComplete)

ProgressStep ==
    src'.policy = src.policy =>
        /\ src.marker.completed # 0 => src'.marker.completed = src.marker.completed
        /\ src'.marker.cursor >= src.marker.cursor \/ src'.marker.status = "completed"

VersionedStep ==
    (src'.policy # src.policy \/ src'.license # src.license) =>
        /\ src'.policy = src.policy + 1
        /\ src'.marker.status = "pending" /\ src'.marker.required = src'.policy

\* Rights never change without a new version that is to be reconciled, no late
\* command brings an older one back, and within a version no command and no runner
\* takes the marker back: the whole document an administrator writes holds the
\* marker of its time.
RightsAreVersioned == [][VersionedStep /\ ProgressStep]_vars

\* v is the source's version, and is to be reconciled.
Unreconciled(v) ==
    src.policy = v /\ src.status # "archived" /\ src.marker.status # "completed"

\* Every version is reconciled, or overtaken by the next, or the source archived.
VersionIsReconciled == \A v \in Version : Unreconciled(v) ~> ~Unreconciled(v)
=============================================================================
