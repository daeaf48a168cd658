--------------------------- MODULE Takedown_proofs ---------------------------
(***************************************************************************)
(* What a takedown request of an article promises holds for any number of  *)
(* articles, requests, chats and policy versions, and whatever ingestion,  *)
(* reconciliation and answers do meanwhile.  The argument goes by request: *)
(* an effective one has its article down, a redacted one has it gone and   *)
(* uncited (RequestFits).  Every step is shown to leave an article that is *)
(* down as it is and to cite none (Kept), so that a request is affected by *)
(* its own steps only; and the last page of a cleanup, which sets the last *)
(* flag, has removed all that was in scope (LastPageCleans).               *)
(***************************************************************************)
EXTENDS Takedown, TLAPS

Kind == {"metadata", "media", "summary"}

Constants ==
    /\ MaxPolicy \in Nat \ {0}
    /\ Scopes \subseteq SUBSET Kind
    /\ Targets \subseteq Article \cup {OfSource}
    /\ None \notin TakedownRequest \cup Evidence

\* Requests that wait for their cleanup.
Waiting == {r \in Request : req[r] # None /\ req[r].status = "approved" /\ ~req[r].redacted}

Down(a) == art[a].status \in {"hidden", "removed"} /\ ~art[a].eligible /\ art[a].media = "none"

Gone(a, scope) ==
    /\ "metadata" \in scope => art[a].status = "removed"
    /\ "summary" \in scope => art[a].summary # "ready"

Uncited(a) == \A c \in Chat : a \notin cites[c]

Effective(r) == req[r].status \in {"approved", "completed"}

\* A request that has taken effect holds its article down; once its citations are
\* redacted the article is gone and uncited.
RequestFits(r) ==
    req[r] # None =>
        /\ req[r].redacted => Effective(r)
        /\ req[r].status = "completed" => req[r].redacted
        /\ req[r].target # OfSource =>
             /\ Effective(r) => Down(req[r].target)
             /\ req[r].redacted => Gone(req[r].target, req[r].scope) /\ Uncited(req[r].target)

Tombstones == \A a \in Article : art[a].status = "removed" => art[a].summary = "removed"

IInv ==
    /\ TypeOK
    /\ due \in Seq(Request)
    /\ Tombstones
    /\ \A r \in Request : RequestFits(r)

-----------------------------------------------------------------------------
(* Types *)

LEMMA Typed ==
    ASSUME Constants, IInv
    PROVE  /\ src \in [status: {"active", "paused", "archived"}, version: Version]
           /\ art \in [Article -> ArticleDocument]
           /\ req \in [Request -> TakedownRequest \cup {None}]
           /\ \A r \in Request : req[r] # None => req[r] \in TakedownRequest
           /\ due \in Seq(Request) /\ InOrder(due)
           /\ {due[i] : i \in 1..Len(due)} = Waiting
           /\ cites \in [Chat -> SUBSET Article]
           /\ answer \in [Chat -> Evidence \cup {None}]
           /\ batch \in 0..MaxPolicy
           /\ Version \subseteq Nat /\ 1 \in Version
<1>1. Version \subseteq Nat /\ 1 \in Version
  BY SMT DEF Constants, Version
<1> QED BY <1>1, Zenon DEF IInv, TypeOK, Waiting

LEMMA InitFits == ASSUME Constants, Init PROVE IInv
<1>1. 1 \in Version
  BY DEF Constants, Version
<1>2. Absent \in ArticleDocument /\ Absent.status = "absent"
  BY <1>1 DEF Absent, ArticleDocument
<1>3. TypeOK
  <2>1. Len(due) = 0
    BY DEF Init
  <2>2. {due[i] : i \in 1..Len(due)} = {}
    BY <2>1
  <2>3. Waiting = {}
    BY DEF Init, Waiting
  <2> QED BY <1>1, <1>2, <2>1, <2>2, <2>3 DEF Init, TypeOK, InOrder, Waiting, Constants
<1>4. due \in Seq(Request)
  BY DEF Init
<1> QED BY <1>2, <1>3, <1>4 DEF Init, IInv, Tombstones, RequestFits

-----------------------------------------------------------------------------
(* What the steps have in common *)

\* The rest of the types is kept by a step that leaves requests and the queue alone.
QueueKept == req' = req /\ due' = due

LEMMA QueueStaysTyped ==
    ASSUME Constants, IInv, QueueKept,
           src' \in [status: {"active", "paused", "archived"}, version: Version],
           art' \in [Article -> ArticleDocument],
           cites' \in [Chat -> SUBSET Article],
           answer' \in [Chat -> Evidence \cup {None}],
           batch' \in 0..MaxPolicy
    PROVE  TypeOK' /\ (due \in Seq(Request))'
<1>1. {due'[i] : i \in 1..Len(due')} =
        {r \in Request : req'[r] # None /\ req'[r].status = "approved" /\ ~req'[r].redacted}
  BY Typed DEF QueueKept, Waiting
<1>2. InOrder(due') /\ \A i \in 1..Len(due') : due'[i] \in Request
  BY Typed DEF QueueKept
<1>3. due' \in Seq(Request) /\ req' \in [Request -> TakedownRequest \cup {None}]
  BY Typed DEF QueueKept
<1> QED BY <1>1, <1>2, <1>3 DEF TypeOK

\* What no step does to an article: one that is down comes back, a tombstone changes.
ArticleKept(a) ==
    /\ Down(a) => Down(a)'
    /\ Down(a) /\ art[a].summary # "ready" => art'[a].summary # "ready"
    /\ art[a].status = "removed" => art'[a].status = "removed"
    /\ (art[a].status = "removed" => art[a].summary = "removed")
         => (art'[a].status = "removed" => art'[a].summary = "removed")

\* What no step does to a chat: cite an article that is down.
CitesKept == \A c \in Chat, a \in Article : a \in cites'[c] => a \in cites[c] \/ ~Down(a)

Kept == (\A a \in Article : ArticleKept(a)) /\ CitesKept

LEMMA KeptFits ==
    ASSUME Constants, IInv, NEW r \in Request, RequestFits(r), req'[r] = req[r],
           \A a \in Article : ArticleKept(a), CitesKept
    PROVE  RequestFits(r)'
<1> SUFFICES ASSUME req[r] # None PROVE RequestFits(r)'
  BY DEF RequestFits
<1>1. Effective(r)' <=> Effective(r)
  BY DEF Effective
<1> SUFFICES ASSUME req[r].target # OfSource, Effective(r)
             PROVE  /\ Down(req[r].target)'
                    /\ req[r].redacted => /\ Gone(req[r].target, req[r].scope)'
                                          /\ Uncited(req[r].target)'
  BY <1>1 DEF RequestFits
<1>2. PICK a \in Article : a = req[r].target
  BY Typed DEF TakedownRequest
<1>3. Down(a)
  BY <1>2 DEF RequestFits
<1>4. Down(a)'
  BY <1>3 DEF ArticleKept
<1>5. ASSUME req[r].redacted
      PROVE  Gone(a, req[r].scope)' /\ Uncited(a)'
  <2>1. Gone(a, req[r].scope) /\ Uncited(a)
    BY <1>2, <1>5 DEF RequestFits
  <2> QED BY <1>3, <2>1 DEF Gone, Uncited, CitesKept, ArticleKept
<1> QED BY <1>2, <1>4, <1>5

LEMMA SameFits ==
    ASSUME Constants, IInv, QueueKept,
           src' \in [status: {"active", "paused", "archived"}, version: Version],
           art' \in [Article -> ArticleDocument],
           cites' \in [Chat -> SUBSET Article],
           answer' \in [Chat -> Evidence \cup {None}],
           batch' \in 0..MaxPolicy,
           Kept
    PROVE  IInv'
<1>1. TypeOK' /\ (due \in Seq(Request))'
  BY QueueStaysTyped
<1>2. \A r \in Request : RequestFits(r)'
  BY KeptFits DEF Kept, QueueKept, IInv
<1>3. Tombstones'
  BY DEF Kept, Tombstones, IInv, ArticleKept
<1> QED BY <1>1, <1>2, <1>3 DEF IInv

LEMMA SameArticles == ASSUME art' = art PROVE \A a \in Article : ArticleKept(a)
BY DEF ArticleKept, Down

LEMMA SameCites == ASSUME cites' = cites PROVE CitesKept
BY DEF CitesKept

LEMMA SourceFits ==
    ASSUME Constants, IInv, ChangeSource \/ OpenBatch PROVE IInv' /\ Kept
<1>1. CASE ChangeSource
  <2>1. PICK status \in {"active", "paused", "archived"}, v \in {src.version, src.version + 1} :
          /\ v # src.version => v <= MaxPolicy
          /\ src' = [status |-> status, version |-> v]
    BY <1>1 DEF ChangeSource
  <2>2. v \in Version
    BY <2>1, Typed DEF Version, Constants
  <2>3. src' \in [status: {"active", "paused", "archived"}, version: Version]
    BY <2>1, <2>2
  <2> QED BY <1>1, <2>3, Typed, SameFits, SameArticles, SameCites DEF ChangeSource, QueueKept, Kept
<1>2. CASE OpenBatch
  <2>1. batch' \in 0..MaxPolicy
    BY <1>2, Typed DEF OpenBatch, Version, Constants
  <2> QED BY <1>2, <2>1, Typed, SameFits, SameArticles, SameCites DEF OpenBatch, QueueKept, Kept
<1> QED BY <1>1, <1>2

LEMMA BatchFits == ASSUME Constants, IInv, CommitBatch PROVE IInv' /\ Kept
<1>1. PICK new \in SUBSET {a \in Article : art[a].status = "absent"} :
        art' = [a \in Article |-> IF a \in new THEN Ingested(batch) ELSE art[a]]
  BY DEF CommitBatch
<1>2. Ingested(batch) \in ArticleDocument /\ Ingested(batch).status = "published"
  BY Typed DEF CommitBatch, Ingested, ArticleDocument, Version, Constants
<1>3. art' \in [Article -> ArticleDocument]
  BY <1>1, <1>2, Typed
<1>4. ASSUME NEW a \in Article PROVE ArticleKept(a)
  <2>1. CASE a \in new
    BY <1>1, <1>2, <2>1 DEF ArticleKept, Down
  <2>2. CASE a \notin new
    BY <1>1, <2>2 DEF ArticleKept, Down
  <2> QED BY <2>1, <2>2
<1>5. batch' \in 0..MaxPolicy
  BY DEF CommitBatch, Constants
<1> QED BY <1>3, <1>4, <1>5, Typed, SameFits, SameCites DEF CommitBatch, QueueKept, Kept

\* A step that writes one article.
LEMMA OneArticleFits ==
    ASSUME Constants, IInv, NEW a \in Article, NEW new \in ArticleDocument,
           art' = [art EXCEPT ![a] = new],
           UNCHANGED <<src, req, due, cites, answer, batch>>,
           Down(a) => /\ new.status = art[a].status /\ ~new.eligible /\ new.media = "none"
                      /\ art[a].summary # "ready" => new.summary # "ready",
           art[a].status = "removed" => new = art[a],
           new.status = "removed" => art[a].status = "removed"
    PROVE  IInv' /\ Kept
<1>1. ASSUME NEW b \in Article PROVE ArticleKept(b)
  <2>1. CASE b = a
    BY <2>1, Typed DEF ArticleKept, Down
  <2>2. CASE b # a
    BY <2>2, Typed DEF ArticleKept, Down
  <2> QED BY <2>1, <2>2
<1>2. art' \in [Article -> ArticleDocument]
  BY Typed
<1> QED BY <1>1, <1>2, Typed, SameFits, SameCites DEF QueueKept, Kept

LEMMA SummariseFits == ASSUME Constants, IInv, NEW a \in Article, Summarise(a) PROVE IInv' /\ Kept
<1> DEFINE new == [art[a] EXCEPT !.summary = "ready"]
<1>1. art[a] \in ArticleDocument
  BY Typed
<1>2. new \in ArticleDocument /\ new.status = art[a].status
  BY <1>1 DEF ArticleDocument
<1>3. art' = [art EXCEPT ![a] = new] /\ art[a].status = "published"
  BY DEF Summarise, Summarised
<1> HIDE DEF new
<1> QED BY <1>2, <1>3, OneArticleFits DEF Summarise, Summarised, Down

LEMMA ReconcileFits ==
    ASSUME Constants, IInv, NEW a \in Article, ReconcileVisibility(a) PROVE IInv' /\ Kept
<1>1. PICK status \in IF src.status = "active" THEN {art[a].status} ELSE {art[a].status, "hidden"},
           summary \in {"pending", "removed"},
           media \in IF art[a].media = "available" THEN {"available", "hidden"}
                     ELSE {art[a].media} :
        art' = [art EXCEPT ![a] =
                  [@ EXCEPT !.status = status, !.rights = src.version,
                            !.summary = IF art[a].summary = "ready" /\ art[a].rights = src.version
                                        THEN "ready" ELSE summary,
                            !.media = media]]
  BY DEF ReconcileVisibility
<1> DEFINE text == IF art[a].summary = "ready" /\ art[a].rights = src.version
                   THEN "ready" ELSE summary
           new == [art[a] EXCEPT !.status = status, !.rights = src.version,
                                 !.summary = text, !.media = media]
<1>2. art[a] \in ArticleDocument /\ src.version \in Version
  BY Typed
<1>3. /\ status \in {"absent", "published", "hidden", "removed"}
      /\ text \in {"pending", "ready", "removed"}
      /\ media \in {"available", "hidden", "none"}
      /\ art[a].summary # "ready" => text # "ready"
  BY <1>2 DEF ArticleDocument
<1> HIDE DEF text
<1>4. /\ new \in ArticleDocument /\ new.status = status /\ new.eligible = art[a].eligible
      /\ new.summary = text /\ new.media = media
  BY <1>2, <1>3 DEF ArticleDocument
<1>5. art' = [art EXCEPT ![a] = new]
  BY <1>1, <1>2, Typed DEF text
<1>6. /\ art[a].status \in {"published", "hidden"}
      /\ UNCHANGED <<src, req, due, cites, answer, batch>>
  BY DEF ReconcileVisibility
<1>7. Down(a) => /\ new.status = art[a].status /\ ~new.eligible /\ new.media = "none"
                 /\ art[a].summary # "ready" => new.summary # "ready"
  BY <1>1, <1>3, <1>4, <1>6 DEF Down
<1>8. art[a].status # "removed" /\ new.status # "removed"
  BY <1>1, <1>4, <1>6
<1> HIDE DEF new
<1> QED BY <1>4, <1>5, <1>6, <1>7, <1>8, OneArticleFits

\* An answer cites what is published when it is appended.
LEMMA AnswerFits == ASSUME Constants, IInv, NEW c \in Chat, Answering(c) PROVE IInv' /\ Kept
<1>1. CASE Ask(c)
  <2>1. PICK cited \in SUBSET {a \in Article : Usable(a, src.version)} \ {{}} :
          answer' = [answer EXCEPT ![c] = [articles |-> cited, version |-> src.version]]
    BY <1>1 DEF Ask
  <2>2. [articles |-> cited, version |-> src.version] \in Evidence
    BY <2>1, Typed DEF Evidence
  <2>3. answer' \in [Chat -> Evidence \cup {None}]
    BY <2>1, <2>2, Typed
  <2> QED BY <1>1, <2>3, Typed, SameFits, SameArticles, SameCites DEF Ask, QueueKept, Kept
<1>2. CASE AppendAnswer(c)
  <2>1. answer[c] \in Evidence /\ answer[c].articles \subseteq Article
    BY <1>2, Typed DEF AppendAnswer, Evidence
  <2>2. /\ cites' \in [Chat -> SUBSET Article]
        /\ answer' \in [Chat -> Evidence \cup {None}]
    BY <1>2, <2>1, Typed DEF AppendAnswer
  <2>3. \A a \in answer[c].articles : ~Down(a)
    BY <1>2 DEF AppendAnswer, Usable, Down
  <2>4. CitesKept
    BY <1>2, <2>3, Typed DEF CitesKept, AppendAnswer
  <2> QED BY <1>2, <2>2, <2>4, Typed, SameFits, SameArticles DEF AppendAnswer, QueueKept, Kept
<1>3. CASE DropAnswer(c)
  <2>1. answer' \in [Chat -> Evidence \cup {None}]
    BY <1>3, Typed DEF DropAnswer
  <2> QED BY <1>3, <2>1, Typed, SameFits, SameArticles, SameCites DEF DropAnswer, QueueKept, Kept
<1> QED BY <1>1, <1>2, <1>3 DEF Answering

-----------------------------------------------------------------------------
(* The workflow of a request *)

\* The fields of a request that one step writes, and those it leaves.
LEMMA StatusMoves ==
    ASSUME NEW q \in TakedownRequest,
           NEW to \in {"received", "reviewing", "approved", "rejected", "completed"},
           NEW new, new = [q EXCEPT !.status = to]
    PROVE  /\ new \in TakedownRequest /\ new.status = to /\ new.target = q.target
           /\ new.scope = q.scope /\ (new.redacted <=> q.redacted)
BY DEF TakedownRequest

\* What a document says, of the articles and chats as they are.
Fits(q) ==
    /\ q.redacted => q.status \in {"approved", "completed"}
    /\ q.status = "completed" => q.redacted
    /\ q.target # OfSource =>
         /\ q.status \in {"approved", "completed"} => Down(q.target)
         /\ q.redacted => Gone(q.target, q.scope) /\ Uncited(q.target)

LEMMA FitsIs == \A r \in Request : RequestFits(r) <=> (req[r] # None => Fits(req[r]))
BY DEF RequestFits, Fits, Effective

\* A step that writes one request, whose place in the queue stays.
LEMMA OneRequestFits ==
    ASSUME Constants, IInv, NEW r \in Request, NEW q \in TakedownRequest \cup {None},
           req' = [req EXCEPT ![r] = q],
           UNCHANGED <<src, art, due, cites, answer, batch>>,
           r \notin Waiting,
           ~(q # None /\ q.status = "approved" /\ ~q.redacted),
           q # None => Fits(q)
    PROVE  IInv' /\ Kept
<1>1. req' \in [Request -> TakedownRequest \cup {None}] /\ req'[r] = q
  BY Typed
<1>2. \A k \in Request : k # r => req'[k] = req[k]
  BY Typed
<1>3. {due'[i] : i \in 1..Len(due')} =
        {k \in Request : req'[k] # None /\ req'[k].status = "approved" /\ ~req'[k].redacted}
  <2>1. {due'[i] : i \in 1..Len(due')} = Waiting
    BY Typed
  <2>2. \A k \in Request : k \in Waiting <=>
           req'[k] # None /\ req'[k].status = "approved" /\ ~req'[k].redacted
    BY <1>1, <1>2 DEF Waiting
  <2> QED BY <2>1, <2>2 DEF Waiting
<1>4. TypeOK' /\ (due \in Seq(Request))'
  BY <1>1, <1>3, Typed DEF TypeOK, InOrder
<1>5. ASSUME NEW k \in Request PROVE RequestFits(k)'
  <2>1. CASE k = r
    BY <1>1, <2>1 DEF RequestFits, Fits, Effective, Down, Gone, Uncited
  <2>2. CASE k # r
    BY <1>2, <2>2, KeptFits, SameArticles, SameCites DEF IInv
  <2> QED BY <2>1, <2>2
<1>6. Tombstones'
  BY DEF Tombstones, IInv
<1> QED BY <1>4, <1>5, <1>6, SameArticles, SameCites DEF IInv, Kept

LEMMA CreateFits == ASSUME Constants, IInv, NEW r \in Request, Create(r) PROVE IInv' /\ Kept
<1>1. PICK target \in Targets, scope \in Scopes :
        req' = [req EXCEPT ![r] = [status |-> "received", target |-> target, scope |-> scope,
                                   hidden |-> FALSE, done |-> {}, redacted |-> FALSE]]
  BY DEF Create
<1> DEFINE q == [status |-> "received", target |-> target, scope |-> scope,
                 hidden |-> FALSE, done |-> {}, redacted |-> FALSE]
<1>2. q \in TakedownRequest
  BY DEF Constants, Kind, TakedownRequest
<1>3. q.status = "received" /\ ~q.redacted
  OBVIOUS
<1>4. r \notin Waiting
  BY DEF Create, Waiting
<1>5. req' = [req EXCEPT ![r] = q] /\ UNCHANGED <<src, art, due, cites, answer, batch>>
  BY <1>1 DEF Create
<1> HIDE DEF q
<1> QED BY <1>2, <1>3, <1>4, <1>5, OneRequestFits DEF Fits

LEMMA MovesFits ==
    ASSUME Constants, IInv, NEW r \in Request, Review(r) \/ Reject(r) PROVE IInv' /\ Kept
<1>1. PICK to \in {"reviewing", "rejected"} :
        /\ req[r] # None /\ req[r].status \in {"received", "reviewing"}
        /\ req' = [req EXCEPT ![r].status = to]
        /\ UNCHANGED <<src, art, due, cites, answer, batch>>
  BY DEF Review, Reject, Moves
<1> DEFINE q == [req[r] EXCEPT !.status = to]
<1>2. req[r] \in TakedownRequest
  BY <1>1, Typed
<1>3. q \in TakedownRequest /\ q.status = to /\ (q.redacted <=> req[r].redacted)
  BY <1>2, StatusMoves
<1>4. ~q.redacted
  BY <1>1, <1>3 DEF IInv, RequestFits, Effective
<1>5. r \notin Waiting
  BY <1>1 DEF Waiting
<1>6. req' = [req EXCEPT ![r] = q]
  BY <1>1, Typed
<1> HIDE DEF q
<1> QED BY <1>1, <1>3, <1>4, <1>5, <1>6, OneRequestFits DEF Fits

\* A request is completed when it is redacted.
LEMMA CompleteFits == ASSUME Constants, IInv, NEW r \in Request, Complete(r) PROVE IInv' /\ Kept
<1>1. /\ req[r] # None /\ req[r].status = "approved" /\ req[r].redacted
      /\ req' = [req EXCEPT ![r].status = "completed"]
      /\ UNCHANGED <<src, art, due, cites, answer, batch>>
  BY DEF Complete
<1> DEFINE q == [req[r] EXCEPT !.status = "completed"]
<1>2. req[r] \in TakedownRequest
  BY <1>1, Typed
<1>3. /\ q \in TakedownRequest /\ q.status = "completed" /\ q.target = req[r].target
      /\ q.scope = req[r].scope /\ (q.redacted <=> req[r].redacted)
  BY <1>2, StatusMoves
<1>4. Fits(req[r])
  BY <1>1, FitsIs DEF IInv
<1>5. req' = [req EXCEPT ![r] = q]
  BY <1>1, Typed
<1> HIDE DEF q
<1>6. Fits(q)
  BY <1>1, <1>3, <1>4 DEF Fits
<1>7. r \notin Waiting
  BY <1>1 DEF Waiting
<1> QED BY <1>1, <1>3, <1>5, <1>6, <1>7, OneRequestFits

LEMMA PurgeFits == ASSUME Constants, IInv, NEW r \in Request, Purge(r) PROVE IInv' /\ Kept
BY OneRequestFits DEF Purge, Waiting

\* The articles after a hiding.
LEMMA HideKeeps ==
    ASSUME Constants, IInv, NEW targets, Hide(targets)
    PROVE  /\ art' \in [Article -> ArticleDocument]
           /\ \A a \in Article : ArticleKept(a)
           /\ \A a \in Article : a \in targets /\ Hideable(a) => Down(a)'
<1> DEFINE new(a) == [art[a] EXCEPT !.status = "hidden", !.eligible = FALSE, !.media = "none"]
<1>1. ASSUME NEW a \in Article
      PROVE  /\ new(a) \in ArticleDocument /\ new(a).status = "hidden" /\ ~new(a).eligible
             /\ new(a).media = "none" /\ new(a).summary = art[a].summary
    <2>1. art[a] \in ArticleDocument
      BY Typed
    <2> QED BY <2>1 DEF ArticleDocument
<1>2. \A a \in Article : art'[a] = IF a \in targets /\ Hideable(a) THEN new(a) ELSE art[a]
  BY DEF Hide
<1>3. art' = [a \in Article |-> IF a \in targets /\ Hideable(a) THEN new(a) ELSE art[a]]
  BY DEF Hide
<1> HIDE DEF new
<1>4. art' \in [Article -> ArticleDocument]
  BY <1>1, <1>3, Typed
<1>5. ASSUME NEW a \in Article
      PROVE  ArticleKept(a) /\ (a \in targets /\ Hideable(a) => Down(a)')
  <2>1. CASE a \in targets /\ Hideable(a)
    BY <1>1, <1>2, <2>1 DEF ArticleKept, Down, Hideable
  <2>2. CASE ~(a \in targets /\ Hideable(a))
    BY <1>2, <2>2 DEF ArticleKept, Down
  <2> QED BY <2>1, <2>2
<1> QED BY <1>4, <1>5

LEMMA ApproveFits == ASSUME Constants, IInv, NEW r \in Request, Approve(r) PROVE IInv' /\ Kept
<1> DEFINE q == [req[r] EXCEPT !.status = "approved", !.hidden = TRUE]
<1>1. /\ req[r] # None /\ req[r].status = "reviewing" /\ due' = Append(due, r)
      /\ UNCHANGED <<cites, answer, batch>>
      /\ Hide(Targeted(r))
  BY DEF Approve
<1>2. req[r] \in TakedownRequest
  BY <1>1, Typed
<1>3. /\ q \in TakedownRequest /\ q.status = "approved" /\ q.target = req[r].target
      /\ (q.redacted <=> req[r].redacted)
  BY <1>2 DEF TakedownRequest
<1>4. ~req[r].redacted
  BY <1>1 DEF IInv, RequestFits, Effective
<1>5. req' = [req EXCEPT ![r] = q]
  BY Typed DEF Approve
<1> HIDE DEF q
<1>6. /\ art' \in [Article -> ArticleDocument]
      /\ \A a \in Article : ArticleKept(a)
      /\ \A a \in Article : a \in Targeted(r) /\ Hideable(a) => Down(a)'
  BY <1>1, HideKeeps
<1>7. src' \in [status: {"active", "paused", "archived"}, version: Version]
  <2>1. CASE req[r].target = OfSource
    <3>1. src.version + 1 \in Version
      BY <2>1, Typed DEF Approve, Version, Constants
    <3> QED BY <2>1, <3>1 DEF Approve
  <2>2. CASE req[r].target # OfSource
    BY <2>2, Typed DEF Approve
  <2> QED BY <2>1, <2>2
<1>8. /\ req' \in [Request -> TakedownRequest \cup {None}] /\ req'[r] = q /\ q # None
      /\ \A k \in Request : k # r => req'[k] = req[k]
  BY <1>3, <1>5, Typed DEF Constants
<1>9. TypeOK' /\ (due \in Seq(Request))'
  <2>1. r \notin Waiting /\ \A i \in 1..Len(due) : due[i] # r
    <3>1. r \notin Waiting
      BY <1>1 DEF Waiting
    <3> QED BY <3>1, Typed
  <2>2. due' \in Seq(Request) /\ Len(due') = Len(due) + 1 /\ Len(due) \in Nat
    BY <1>1, Typed
  <2>3. \A i \in 1..Len(due') : due'[i] = IF i \in 1..Len(due) THEN due[i] ELSE r
    BY <1>1, Typed
  <2>4. InOrder(due') /\ \A i \in 1..Len(due') : due'[i] \in Request
    <3>1. \A i \in 1..Len(due') : due'[i] \in Request
      BY <2>2
    <3>2. \A i, j \in 1..Len(due) : i # j => due[i] # due[j]
      BY Typed DEF InOrder
    <3>3. ASSUME NEW i \in 1..Len(due'), NEW j \in 1..Len(due'), i # j
          PROVE  due'[i] # due'[j]
      <4>1. CASE i \in 1..Len(due) /\ j \in 1..Len(due)
        BY <2>3, <3>2, <3>3, <4>1
      <4>2. CASE i \notin 1..Len(due) \/ j \notin 1..Len(due)
        <5>1. i \in 1..Len(due) \/ j \in 1..Len(due)
          BY <2>2, <3>3
        <5> QED BY <2>1, <2>3, <4>2, <5>1
      <4> QED BY <4>1, <4>2
    <3> QED BY <3>1, <3>3 DEF InOrder
  <2>5. {due'[i] : i \in 1..Len(due')} = {due[i] : i \in 1..Len(due)} \cup {r}
    BY <2>2, <2>3
  <2>6. \A k \in Request : k \in Waiting \cup {r} <=>
           req'[k] # None /\ req'[k].status = "approved" /\ ~req'[k].redacted
    BY <1>3, <1>4, <1>8 DEF Waiting
  <2>7. {due'[i] : i \in 1..Len(due')} =
          {k \in Request : req'[k] # None /\ req'[k].status = "approved" /\ ~req'[k].redacted}
    BY <2>5, <2>6, Typed DEF Waiting
  <2> QED BY <1>1, <1>6, <1>7, <1>8, <2>2, <2>4, <2>7, Typed DEF TypeOK
<1>10. ASSUME NEW k \in Request PROVE RequestFits(k)'
  <2>1. CASE k = r
    <3>1. ASSUME q.target # OfSource PROVE Down(req[r].target)'
      <4>1. PICK a \in Article : a = q.target
        BY <1>3, <3>1 DEF TakedownRequest
      <4>2. Hideable(a) /\ a \in Targeted(r)
        BY <1>3, <3>1, <4>1 DEF Approve, Targeted
      <4>3. Down(a)' /\ req'[r].target = a
        BY <1>6, <1>8, <4>1, <4>2
      <4> QED BY <4>3 DEF Down
    <3>2. /\ req'[r].status = "approved" /\ ~req'[r].redacted
          /\ req'[r].target # OfSource => Down(req[r].target)'
      BY <1>3, <1>4, <1>8, <3>1
    <3> QED BY <2>1, <3>2 DEF RequestFits
  <2>2. CASE k # r
    BY <1>1, <1>6, <1>8, <2>2, KeptFits, SameCites DEF IInv
  <2> QED BY <2>1, <2>2
<1>11. Tombstones'
  BY <1>6 DEF Tombstones, IInv, ArticleKept
<1> QED BY <1>1, <1>6, <1>9, <1>10, <1>11, SameCites DEF IInv, Kept

-----------------------------------------------------------------------------
(* The cleanup *)

\* The queue without its first request, which may have gone to the end.
LEMMA QueueTurns ==
    ASSUME Constants, IInv, due # <<>>
    PROVE  /\ Head(due) \in Waiting
           /\ LET rest == Tail(due)
                  turned == Append(Tail(due), Head(due))
              IN  /\ rest \in Seq(Request) /\ InOrder(rest)
                  /\ {rest[i] : i \in 1..Len(rest)} = Waiting \ {Head(due)}
                  /\ turned \in Seq(Request) /\ InOrder(turned)
                  /\ {turned[i] : i \in 1..Len(turned)} = Waiting
<1> DEFINE r == Head(due)
           rest == Tail(due)
           turned == Append(rest, r)
<1>1. /\ Len(due) \in Nat \ {0} /\ r = due[1]
      /\ rest \in Seq(Request) /\ Len(rest) = Len(due) - 1
      /\ \A i \in 1..Len(rest) : rest[i] = due[i + 1]
  BY Typed
<1>2. r \in Request /\ r \in Waiting
  <2>1. 1 \in 1..Len(due)
    BY <1>1
  <2> QED BY <1>1, <2>1, Typed
<1>3. /\ turned \in Seq(Request) /\ Len(turned) = Len(due)
      /\ \A i \in 1..Len(turned) : turned[i] = IF i = Len(due) THEN r ELSE due[i + 1]
  <2> HIDE DEF r, rest
  <2>1. /\ turned \in Seq(Request) /\ Len(turned) = Len(rest) + 1
        /\ \A i \in 1..Len(turned) : turned[i] = IF i = Len(rest) + 1 THEN r ELSE rest[i]
    BY <1>1, <1>2
  <2> HIDE DEF turned
  <2>2. Len(turned) = Len(due) /\ Len(rest) + 1 = Len(due)
    BY <1>1, <2>1
  <2>3. ASSUME NEW i \in 1..Len(turned), i # Len(due)
        PROVE  turned[i] = due[i + 1]
    <3>1. i \in 1..Len(rest)
      BY <1>1, <2>2, <2>3
    <3> QED BY <1>1, <2>1, <2>2, <2>3, <3>1
  <2> QED BY <2>1, <2>2, <2>3
<1>4. \A i, j \in 1..Len(due) : i # j => due[i] # due[j]
  BY Typed DEF InOrder
<1>5. InOrder(rest)
  BY <1>1, <1>4 DEF InOrder
<1>6. InOrder(turned)
  <2> HIDE DEF turned, rest, r
  <2>1. ASSUME NEW i \in 1..Len(turned), NEW j \in 1..Len(turned), i # j
        PROVE  turned[i] # turned[j]
    <3>1. CASE i = Len(due)
      <4>1. j # Len(due) /\ j + 1 \in 1..Len(due) /\ j + 1 # 1 /\ 1 \in 1..Len(due)
        BY <1>1, <1>3, <2>1, <3>1
      <4> QED BY <1>1, <1>3, <1>4, <3>1, <4>1
    <3>2. CASE j = Len(due)
      <4>1. i # Len(due) /\ i + 1 \in 1..Len(due) /\ i + 1 # 1 /\ 1 \in 1..Len(due)
        BY <1>1, <1>3, <2>1, <3>2
      <4> QED BY <1>1, <1>3, <1>4, <3>2, <4>1
    <3>3. CASE i # Len(due) /\ j # Len(due)
      <4>1. i + 1 \in 1..Len(due) /\ j + 1 \in 1..Len(due) /\ i + 1 # j + 1
        BY <1>1, <1>3, <2>1, <3>3
      <4> QED BY <1>3, <1>4, <3>3, <4>1
    <3> QED BY <3>1, <3>2, <3>3
  <2> QED BY <2>1 DEF InOrder
<1>7. {rest[i] : i \in 1..Len(rest)} = Waiting \ {r}
  <2>1. ASSUME NEW k \in Waiting, k # r PROVE \E i \in 1..Len(rest) : rest[i] = k
    <3>1. PICK i \in 1..Len(due) : due[i] = k
      BY Typed
    <3>2. i - 1 \in 1..Len(rest) /\ (i - 1) + 1 = i
      BY <1>1, <2>1, <3>1
    <3> QED BY <1>1, <3>1, <3>2
  <2>2. ASSUME NEW i \in 1..Len(rest) PROVE rest[i] \in Waiting /\ rest[i] # r
    <3>1. i + 1 \in 1..Len(due) /\ 1 \in 1..Len(due) /\ i + 1 # 1
      BY <1>1
    <3> QED BY <1>1, <1>4, <3>1, Typed
  <2> QED BY <2>1, <2>2
<1>8. {turned[i] : i \in 1..Len(turned)} = Waiting
  <2>1. /\ \A i \in 1..Len(rest) : i \in 1..Len(turned) /\ turned[i] = rest[i]
        /\ Len(turned) \in 1..Len(turned) /\ turned[Len(turned)] = r
        /\ \A i \in 1..Len(turned) : i \in 1..Len(rest) \/ i = Len(turned)
    <3> HIDE DEF turned, rest
    <3> QED BY <1>1, <1>3
  <2> HIDE DEF turned, rest
  <2>2. {turned[i] : i \in 1..Len(turned)} = {rest[i] : i \in 1..Len(rest)} \cup {r}
    BY <2>1
  <2> QED BY <1>2, <1>7, <2>2
<1> QED BY <1>1, <1>2, <1>3, <1>5, <1>6, <1>7, <1>8

\* What a page takes hold of, and what it makes of it.
LEMMA PageIsCleanable ==
    ASSUME NEW r \in Request, NEW articles \in Cleaned(r)
    PROVE  \A a \in articles :
             /\ a \in Targeted(r) /\ ~art[a].eligible
             /\ "metadata" \notin req[r].scope => art[a].status = "hidden"
BY DEF Cleaned, Pages, Pending, Cleanable

LEMMA PageKeeps ==
    ASSUME Constants, IInv, NEW r \in Request, NEW articles \in Cleaned(r),
           art' = [a \in Article |->
                     IF a \notin articles THEN art[a]
                     ELSE IF "metadata" \in req[r].scope THEN Tombstone(a)
                          ELSE Strip(a, req[r].scope)]
    PROVE  /\ art' \in [Article -> ArticleDocument]
           /\ \A a \in Article : ArticleKept(a)
           /\ \A a \in Article :
                /\ a \notin articles => art'[a] = art[a]
                /\ a \in articles =>
                     /\ "metadata" \in req[r].scope => art'[a].status = "removed"
                     /\ "summary" \in req[r].scope => art'[a].summary = "removed"
<1>1. ASSUME NEW a \in Article
      PROVE  /\ art'[a] \in ArticleDocument
             /\ ArticleKept(a)
             /\ a \notin articles => art'[a] = art[a]
             /\ a \in articles =>
                  /\ "metadata" \in req[r].scope => art'[a].status = "removed"
                  /\ "summary" \in req[r].scope => art'[a].summary = "removed"
  <2>1. art[a] \in ArticleDocument
    BY Typed
  <2>2. CASE a \notin articles
    <3>1. art'[a] = art[a]
      BY <2>2
    <3> QED BY <2>1, <2>2, <3>1 DEF ArticleKept, Down
  <2>3. CASE a \in articles /\ "metadata" \in req[r].scope
    <3>1. art'[a] = Tombstone(a)
      BY <2>3
    <3>2. /\ Tombstone(a) \in ArticleDocument /\ Tombstone(a).status = "removed"
          /\ Tombstone(a).summary = "removed" /\ Tombstone(a).media = "none"
          /\ Tombstone(a).eligible = art[a].eligible
      BY <2>1 DEF Tombstone, ArticleDocument
    <3> QED BY <2>3, <3>1, <3>2 DEF ArticleKept, Down
  <2>4. CASE a \in articles /\ "metadata" \notin req[r].scope
    <3>1. art'[a] = Strip(a, req[r].scope)
      BY <2>4
    <3>2. /\ Strip(a, req[r].scope) \in ArticleDocument
          /\ Strip(a, req[r].scope).status = art[a].status
          /\ Strip(a, req[r].scope).summary =
               IF "summary" \in req[r].scope THEN "removed" ELSE art[a].summary
          /\ Strip(a, req[r].scope).media =
               IF "media" \in req[r].scope THEN "none" ELSE art[a].media
          /\ Strip(a, req[r].scope).eligible = art[a].eligible
      BY <2>1 DEF Strip, ArticleDocument
    <3>3. art[a].status = "hidden"
      BY <2>4, PageIsCleanable
    <3> QED BY <2>4, <3>1, <3>2, <3>3 DEF ArticleKept, Down
  <2> QED BY <2>2, <2>3, <2>4
<1> QED BY <1>1

\* A last page leaves nothing of the article that is in scope.
LEMMA LastPageCleans ==
    ASSUME Constants, IInv, NEW r \in Request, req[r] # None, req[r].target # OfSource,
           CleanupAllowed(r), NEW articles \in Cleaned(r), articles = Pending(r),
           art' = [a \in Article |->
                     IF a \notin articles THEN art[a]
                     ELSE IF "metadata" \in req[r].scope THEN Tombstone(a)
                          ELSE Strip(a, req[r].scope)],
           NEW a \in Article, a = req[r].target
    PROVE  /\ "metadata" \in req[r].scope => art'[a].status = "removed"
           /\ "summary" \in req[r].scope => art'[a].summary # "ready"
<1>1. Cleanable(a, req[r].scope) /\ a \in Targeted(r)
  BY DEF CleanupAllowed, Targeted
<1>2. art[a].status = "removed" => art[a].summary = "removed"
  BY DEF IInv, Tombstones
<1>3. CASE art[a].status = "removed"
  BY <1>2, <1>3, PageKeeps
<1>4. CASE art[a].status # "removed"
  BY <1>1, <1>4, PageKeeps DEF Pending
<1> QED BY <1>3, <1>4

LEMMA CleanupFits == ASSUME Constants, IInv, CleanupBatch PROVE IInv' /\ Kept
<1>1. PICK r \in Request : r = Head(due) /\ r \in Waiting
  BY QueueTurns DEF CleanupBatch, Waiting
<1>2. PICK articles \in Cleaned(r), chats \in Pages(Citing(r)) :
        CleanPage(r, articles, chats, chats = Citing(r))
  BY <1>1 DEF CleanupBatch
<1> DEFINE all == LastPage(r, articles)
           over == chats = Citing(r) /\ all
           q == [req[r] EXCEPT !.done = IF all THEN req[r].scope ELSE {}, !.redacted = over]
<1>3. /\ art' = [a \in Article |->
                   IF a \notin articles THEN art[a]
                   ELSE IF "metadata" \in req[r].scope THEN Tombstone(a)
                        ELSE Strip(a, req[r].scope)]
      /\ cites' = [c \in Chat |-> IF c \in chats THEN cites[c] \ Targeted(r) ELSE cites[c]]
      /\ req' = [req EXCEPT ![r] = q]
      /\ due' = IF over THEN Tail(due) ELSE Append(Tail(due), r)
      /\ due # <<>> /\ CleanupAllowed(r)
      /\ UNCHANGED <<src, answer, batch>>
  <2>1. req' = [req EXCEPT ![r] = q]
    BY <1>2, Typed DEF CleanPage
  <2> QED BY <1>1, <1>2, <2>1 DEF CleanPage, CleanupBatch
<1>4. req[r] # None /\ req[r] \in TakedownRequest /\ req[r].status = "approved"
      /\ ~req[r].redacted
  BY <1>1, Typed DEF Waiting
<1>5. all \in BOOLEAN /\ over \in BOOLEAN /\ (over => articles = Pending(r))
  BY DEF LastPage
<1> HIDE DEF all
<1>6. /\ q \in TakedownRequest /\ q.status = "approved" /\ q.target = req[r].target
      /\ q.scope = req[r].scope /\ (q.redacted <=> over)
  <2> HIDE DEF over
  <2> QED BY <1>4, <1>5 DEF TakedownRequest
<1>7. over => chats = Citing(r)
  OBVIOUS
<1> HIDE DEF q, over
<1>8. /\ req' \in [Request -> TakedownRequest \cup {None}] /\ req'[r] = q /\ q # None
      /\ \A k \in Request : k # r => req'[k] = req[k]
  BY <1>3, <1>6, Typed DEF Constants
<1>9. art' \in [Article -> ArticleDocument] /\ \A a \in Article : ArticleKept(a)
  BY <1>3, PageKeeps
<1>10. /\ cites' \in [Chat -> SUBSET Article]
       /\ \A c \in Chat : cites'[c] \subseteq cites[c]
       /\ over => \A c \in Chat, a \in Targeted(r) : a \notin cites'[c]
  BY <1>3, <1>7, Typed DEF Citing
<1>11. CitesKept
  BY <1>10 DEF CitesKept
<1>12. TypeOK' /\ (due \in Seq(Request))'
  <2>1. /\ due' \in Seq(Request) /\ InOrder(due')
        /\ {due'[i] : i \in 1..Len(due')} = IF over THEN Waiting \ {r} ELSE Waiting
    BY <1>1, <1>3, QueueTurns
  <2>2. \A k \in Request : k \in (IF over THEN Waiting \ {r} ELSE Waiting) <=>
           req'[k] # None /\ req'[k].status = "approved" /\ ~req'[k].redacted
    BY <1>1, <1>6, <1>8 DEF Waiting
  <2>3. {due'[i] : i \in 1..Len(due')} =
          {k \in Request : req'[k] # None /\ req'[k].status = "approved" /\ ~req'[k].redacted}
    BY <2>1, <2>2 DEF Waiting
  <2>4. \A i \in 1..Len(due') : due'[i] \in Request
    BY <2>1
  <2> QED BY <1>3, <1>8, <1>9, <1>10, <2>1, <2>3, <2>4, Typed DEF TypeOK
<1>13. ASSUME NEW k \in Request PROVE RequestFits(k)'
  <2>1. CASE k = r
    <3>1. ASSUME q.target # OfSource
          PROVE  /\ Down(req[r].target)'
                 /\ over => Gone(req[r].target, req[r].scope)' /\ Uncited(req[r].target)'
      <4>1. PICK a \in Article : a = req[r].target
        BY <1>4, <1>6, <3>1 DEF TakedownRequest
      <4>2. Down(a)
        BY <1>4, <1>6, <3>1, <4>1 DEF IInv, RequestFits, Effective
      <4>3. Down(a)' /\ req'[r].target = a /\ req'[r].scope = req[r].scope
        BY <1>6, <1>8, <1>9, <4>1, <4>2 DEF ArticleKept
      <4>4. ASSUME over
            PROVE  /\ "metadata" \in req[r].scope => art'[a].status = "removed"
                   /\ "summary" \in req[r].scope => art'[a].summary # "ready"
        BY <1>3, <1>4, <1>5, <1>6, <3>1, <4>1, <4>4, LastPageCleans
      <4>5. ASSUME over PROVE \A c \in Chat : a \notin cites'[c]
        BY <1>6, <1>10, <3>1, <4>1, <4>5 DEF Targeted
      <4>6. over => Gone(req[r].target, req[r].scope)' /\ Uncited(req[r].target)'
        BY <4>3, <4>4, <4>5 DEF Gone, Uncited
      <4> QED BY <4>3, <4>6 DEF Down
    <3>2. /\ req'[r].status = "approved" /\ (req'[r].redacted <=> over)
          /\ req'[r].target = q.target
      BY <1>6, <1>8
    <3> QED BY <2>1, <3>1, <3>2 DEF RequestFits, Effective
  <2>2. CASE k # r
    BY <1>8, <1>9, <1>11, <2>2, KeptFits DEF IInv
  <2> QED BY <2>1, <2>2
<1>14. Tombstones'
  BY <1>9 DEF Tombstones, IInv, ArticleKept
<1> QED BY <1>9, <1>11, <1>12, <1>13, <1>14 DEF IInv, Kept

-----------------------------------------------------------------------------
LEMMA NextFits == ASSUME Constants, IInv, [Next]_vars PROVE IInv' /\ Kept
<1>1. CASE UNCHANGED vars
  BY <1>1, Typed, SameFits, SameArticles, SameCites DEF vars, QueueKept, Kept
<1>2. ASSUME NEW r \in Request, Workflow(r) PROVE IInv' /\ Kept
  BY <1>2, CreateFits, MovesFits, ApproveFits, CompleteFits, PurgeFits DEF Workflow
<1>3. ASSUME NEW c \in Chat, Answering(c) PROVE IInv' /\ Kept
  BY <1>3, AnswerFits
<1>4. ASSUME NEW a \in Article, Summarise(a) \/ ReconcileVisibility(a) PROVE IInv' /\ Kept
  BY <1>4, SummariseFits, ReconcileFits
<1> QED BY <1>1, <1>2, <1>3, <1>4, SourceFits, BatchFits, CleanupFits DEF Next

\* The invariant of the argument holds of every reachable state.
THEOREM AlwaysFits == ASSUME Constants PROVE Spec => []IInv
<1>1. Init => IInv
  BY InitFits
<1>2. IInv /\ [Next]_vars => IInv'
  BY NextFits
<1> QED BY <1>1, <1>2, PTL DEF Spec

\* Every reachable state is well typed; among it the queue of the cleanup, which holds
\* each approved request that is not redacted once (materializeCleanupBatch).
THEOREM TypeCorrect == ASSUME Constants PROVE Spec => []TypeOK
<1>1. IInv => TypeOK
  BY DEF IInv
<1> QED BY <1>1, AlwaysFits, PTL

\* Neither ingestion nor reconciliation nor another request shows an article again
\* that an approved request hid (hideTargets), or makes it evidence.
THEOREM DownForGood == ASSUME Constants PROVE Spec => []TakenDownStaysDown
<1>1. ASSUME IInv PROVE TakenDownStaysDown
  <2> SUFFICES ASSUME NEW r \in Request, req[r] # None, req[r].target # OfSource,
                      req[r].status \in {"approved", "completed"}
               PROVE  Down(req[r].target)
    BY DEF TakenDownStaysDown, Down
  <2> QED BY <1>1 DEF IInv, RequestFits, Effective
<1> QED BY <1>1, AlwaysFits, PTL

\* No chat cites an article whose citations are recorded as redacted, also not one
\* whose answer was under way while the cleanup went through the chats page by page.
THEOREM RedactedForGood == ASSUME Constants PROVE Spec => []RedactionHolds
<1>1. ASSUME IInv PROVE RedactionHolds
  BY <1>1 DEF IInv, RequestFits, RedactionHolds, Uncited
<1> QED BY <1>1, AlwaysFits, PTL

\* A completed request is final: its article stays a tombstone, its summary removed,
\* if they were in scope.
THEOREM GoneForGood == ASSUME Constants PROVE Spec => []CompletedIsGone
<1>1. ASSUME IInv PROVE CompletedIsGone
  BY <1>1 DEF IInv, RequestFits, CompletedIsGone, Gone
<1> QED BY <1>1, AlwaysFits, PTL

\* The flags of a request (cleanupArtifacts) are proof before it is completed: once its
\* citations are redacted, what it asks to remove of its article is gone for good.
FlagsAreTrue ==
    \A r \in Request : (req[r] # None /\ req[r].target # OfSource /\ req[r].redacted) =>
        Gone(req[r].target, req[r].scope)

\* The last page of a cleanup has removed everything in scope, and nothing makes it
\* again before the request is completed or after.
THEOREM FlagsStayTrue == ASSUME Constants PROVE Spec => []FlagsAreTrue
<1>1. ASSUME IInv PROVE FlagsAreTrue
  BY <1>1 DEF IInv, RequestFits, FlagsAreTrue
<1> QED BY <1>1, AlwaysFits, PTL

\* No step brings an article back that is down, undoes a tombstone or makes a summary
\* again; no answer begins to cite it.
DownStep ==
    \A a \in Article : Down(a) =>
        /\ Down(a)'
        /\ art[a].status = "removed" => art'[a].status = "removed"
        /\ art[a].summary # "ready" => art'[a].summary # "ready"
        /\ \A c \in Chat : a \in cites'[c] => a \in cites[c]

NothingComesBack == [][DownStep]_vars

\* What was taken down stays down when its request has been purged (purgeWorkflows):
\* every writer of an article or a chat leaves it so, whoever asked for it.
THEOREM DownWithoutRequest == ASSUME Constants PROVE Spec => NothingComesBack
<1>1. ASSUME IInv, [Next]_vars PROVE [DownStep]_vars
  BY <1>1, NextFits DEF Kept, ArticleKept, CitesKept, DownStep
<1> QED BY <1>1, AlwaysFits, PTL DEF Spec, NothingComesBack
=============================================================================
