---------------------------- MODULE MCGovernance ----------------------------
(***************************************************************************)
(* What the service owes to its users and to publishers, in one run for    *)
(* TLC: account deletion, the sessions of a user, the receipts of          *)
(* questions and the page that asks them, takedowns and the reconciliation *)
(* of a source's policy, nine instances side by side.  They share no       *)
(* modelled state, so a behaviour is about the one instance that is        *)
(* `shown`: a variable of that name serves whichever has it and otherwise  *)
(* holds None.  The constants of AccountDeletion are those of the module   *)
(* itself; while another instance is shown its variables rest in one of    *)
(* its initial states.                                                     *)
(***************************************************************************)
EXTENDS AccountDeletion, TLC

CONSTANTS
    OneArticle, TwoArticles, Chats, OneRequest, TwoRequests, OfSource,  \* Takedown
    Admins, TwoAdmins, OneRunner, TwoRunners, Batches,        \* SourceReconciliation
    Askers, Keys, Questions, Conversations,                   \* AnswerAttempts
    Clients, SessionIds, SignedIn, Passwords,                 \* UserSessions
    Users, Calls, Clicks                                      \* QaConversation

VARIABLES
    shown,
    src, batch,                                        \* of a source, or of a takedown
    born, fanned, owner, admin, runner, stale, there,  \* SourceReconciliation
    req,                                               \* of a takedown, questions, sessions
    art, due, cites, answer,                           \* Takedown
    attempt, chat, actor, written,                     \* AnswerAttempts
    account, suspensions, session,                     \* UserSessions: account is its user
    me, asked, kept, ui, queue, list, get, gone, clicks  \* QaConversation: asked is its owner

ofSource == <<born, fanned, owner, admin, runner, stale, there>>
ofTakedown == <<art, due, cites, answer>>
ofAnswers == <<attempt, chat, actor, written>>
ofSessions == <<account, suspensions, session>>
ofBrowser == <<me, asked, kept, ui, queue, list, get, gone, clicks>>
all ==
    <<shown, vars, src, batch, req, ofSource, ofTakedown, ofAnswers, ofSessions, ofBrowser>>

\* Two requests, for an article and for its source.
Requests == INSTANCE Takedown WITH
    Article <- OneArticle, Chat <- Chats, Request <- TwoRequests, Page <- 1, MaxPolicy <- 2,
    Scopes <- {{"metadata"}, {"summary"}}, Targets <- OneArticle \cup {OfSource}

\* A request for a source of two articles, cleaned up a page at a time.
Paged == INSTANCE Takedown WITH
    Article <- TwoArticles, Chat <- Chats, Request <- OneRequest, Page <- 1, MaxPolicy <- 2,
    Scopes <- {{"metadata"}}, Targets <- {OfSource}

\* An administrator and an ingestion batch around one runner.
Policy == INSTANCE SourceReconciliation WITH
    Admin <- Admins, Runner <- OneRunner, Batch <- Batches, Page <- 1, MaxArticle <- 2,
    MaxPolicy <- 2, Takedowns <- FALSE

\* Two runners that race for the lease, a takedown, no administrator.
Runners == INSTANCE SourceReconciliation WITH
    Admin <- {}, Runner <- TwoRunners, Batch <- Batches, Page <- 1, MaxArticle <- 2,
    MaxPolicy <- 2, Takedowns <- TRUE

\* Two administrators and a takedown, before anything is reconciled.
Commands == INSTANCE SourceReconciliation WITH
    Admin <- TwoAdmins, Runner <- {}, Batch <- {}, Page <- 1, MaxArticle <- 1,
    MaxPolicy <- 2, Takedowns <- TRUE

\* Two requests under two idempotency keys, a budget shorter than the reservation.
Answers == INSTANCE AnswerAttempts WITH
    Request <- Askers, Key <- Keys, Body <- Questions, Chat <- Conversations, Capacity <- 3,
    BudgetTicks <- 1, LeaseTicks <- 2, MaxCalls <- 2

\* Three requests of a user who is signed in once.
Sessions == INSTANCE UserSessions WITH
    Request <- Clients, Session <- SessionIds, Password <- Passwords, user <- account,
    MaxVersion <- 2

\* Two users one after the other, as many conversations as calls in the queue.
Browser == INSTANCE QaConversation WITH
    owner <- asked, MaxUser <- Users, MaxSession <- Calls, MaxQueue <- Calls,
    MaxClicks <- Clicks

-----------------------------------------------------------------------------
\* The variables of the components that are not shown.
NotDeletion ==
    /\ user = "active" /\ data = {} /\ suppressed = 0
    /\ request = [status |-> "none", done |-> {}, owner |-> None, lease |-> 0, wait |-> 0]
    /\ worker = [w \in Worker |-> Idle]
    /\ writer = [x \in Writer |-> NoWrite]

NotSource ==
    /\ born = None /\ fanned = None /\ owner = None /\ admin = None /\ runner = None
    /\ stale = None /\ there = None

NotTakedown == art = None /\ due = None /\ cites = None /\ answer = None
NotAnswers == attempt = None /\ chat = None /\ actor = None /\ written = None
NotSessions == account = None /\ suspensions = None /\ session = None
NotBrowser ==
    /\ me = None /\ asked = None /\ kept = None /\ ui = None /\ queue = None
    /\ list = None /\ get = None /\ gone = None /\ clicks = None

InitShown ==
    \/ /\ shown = "deletion" /\ Init
       /\ src = None /\ batch = None /\ req = None
       /\ NotSource /\ NotTakedown /\ NotAnswers /\ NotSessions /\ NotBrowser
    \/ /\ \/ shown = "requests" /\ Requests!Init
          \/ shown = "paged" /\ Paged!Init
       /\ NotDeletion /\ NotSource /\ NotAnswers /\ NotSessions /\ NotBrowser
    \/ /\ \/ shown = "policy" /\ Policy!Init
          \/ shown = "runners" /\ Runners!Init
          \/ shown = "commands" /\ Commands!Init
       /\ req = None
       /\ NotDeletion /\ NotTakedown /\ NotAnswers /\ NotSessions /\ NotBrowser
    \/ /\ shown = "answers" /\ Answers!Init
       /\ src = None /\ batch = None
       /\ NotDeletion /\ NotSource /\ NotTakedown /\ NotSessions /\ NotBrowser
    \/ /\ shown = "sessions" /\ Sessions!Init
       /\ src = None /\ batch = None
       /\ NotDeletion /\ NotSource /\ NotTakedown /\ NotAnswers /\ NotBrowser
    \/ /\ shown = "browser" /\ Browser!Init
       /\ src = None /\ batch = None /\ req = None
       /\ NotDeletion /\ NotSource /\ NotTakedown /\ NotAnswers /\ NotSessions

NextShown ==
    /\ UNCHANGED shown
    /\ \/ /\ shown = "deletion" /\ Next
          /\ UNCHANGED <<src, batch, req, ofSource, ofTakedown, ofAnswers, ofSessions, ofBrowser>>
       \/ /\ \/ shown = "requests" /\ Requests!Next
             \/ shown = "paged" /\ Paged!Next
          /\ UNCHANGED <<vars, ofSource, ofAnswers, ofSessions, ofBrowser>>
       \/ /\ \/ shown = "policy" /\ Policy!Next
             \/ shown = "runners" /\ Runners!Next
             \/ shown = "commands" /\ Commands!Next
          /\ UNCHANGED <<vars, req, ofTakedown, ofAnswers, ofSessions, ofBrowser>>
       \/ /\ shown = "answers" /\ Answers!Next
          /\ UNCHANGED <<vars, src, batch, ofSource, ofTakedown, ofSessions, ofBrowser>>
       \/ /\ shown = "sessions" /\ Sessions!Next
          /\ UNCHANGED <<vars, src, batch, ofSource, ofTakedown, ofAnswers, ofBrowser>>
       \/ /\ shown = "browser" /\ Browser!Next
          /\ UNCHANGED <<vars, src, batch, req, ofSource, ofTakedown, ofAnswers, ofSessions>>

SpecShown == InitShown /\ [][NextShown]_all

-----------------------------------------------------------------------------
(* The properties of the modules, each of the instances it is about; those *)
(* of AccountDeletion are checked by their own names.                      *)

\* The types of the instance that is shown.
TypesHold ==
    /\ shown = "deletion" => TypeOK
    /\ shown = "requests" => Requests!TypeOK
    /\ shown = "paged" => Paged!TypeOK
    /\ shown = "policy" => Policy!TypeOK
    /\ shown = "runners" => Runners!TypeOK
    /\ shown = "commands" => Commands!TypeOK
    /\ shown = "answers" => Answers!TypeOK
    /\ shown = "sessions" => Sessions!TypeOK
    /\ shown = "browser" => Browser!TypeOK

\* Takedown: what a request took down is never shown again, once redacted it is
\* cited by no chat, and completion is final.
TakedownsHold ==
    Requests!TakenDownStaysDown /\ Requests!RedactionHolds /\ Requests!CompletedIsGone

\* Takedown and SourceReconciliation, the rights of publishers: the promises of the
\* requests; the marker is about the source's version, and a completed one, where no
\* takedown comes, covers every article the source had when that version began;
\* rights change only with a new version to reconcile, and within a version the
\* marker never goes back.
RightsHold ==
    /\ [](shown = "requests" => TakedownsHold)
    /\ [](shown = "policy" => Policy!MarkersAreTrue)
    /\ [](shown = "runners" => Runners!MarkersAreTrue)
    /\ [](shown = "commands" => Commands!MarkersAreTrue)
    /\ [][/\ shown = "policy" => Policy!VersionedStep /\ Policy!ProgressStep
          /\ shown = "runners" => Runners!VersionedStep /\ Runners!ProgressStep
          /\ shown = "commands" => Commands!VersionedStep /\ Commands!ProgressStep]_all

\* AnswerAttempts: a receipt tells what became of its question, and a conversation
\* never holds more than its bound.
ReceiptsAreTrue ==
    shown = "answers" => Answers!ReceiptsAreTrue /\ Answers!ConversationsFit

\* AnswerAttempts: a receipt that has ended does not change, and only the request
\* that reserved it asks providers: before it runs for the plan and the embedding,
\* then under its reservation for the answer.
EndsAreFinal == [][shown = "answers" => Answers!EndStep /\ Answers!AskStep]_all

\* UserSessions: what authenticates was opened with the password of now.
SessionsAreCurrent == shown = "sessions" => Sessions!SessionsAreCurrent

\* UserSessions: nothing that writes its user is done under a session that is no
\* longer usable, a command that only reads it at most beside the revocation; and a
\* change of the password leaves its new session alone.
OnlyLiveSessionsAct == [][shown = "sessions" => Sessions!ActStep /\ Sessions!ChangeStep]_all

\* QaConversation: the page shows and asks for the user who is signed in, one
\* conversation at a time, and never again lists what it knows to be deleted.
ScreenHolds ==
    shown = "browser" =>
        Browser!ShownIsMine /\ Browser!AskedByMe /\ Browser!DeletedStayGone /\ Browser!ThreadIsOne

\* Identities that the specifications only compare.  Instances use the same ones:
\* TLC applies every combination of the permutations to every state.
Symmetric == Permutations(Worker) \cup Permutations(Writer)
=============================================================================
