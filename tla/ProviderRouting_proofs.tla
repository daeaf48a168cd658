----------------------- MODULE ProviderRouting_proofs -----------------------
(***************************************************************************)
(* Proofs about ProviderRouting: its types, the limit of a pool, the       *)
(* probes, the circuits and the fallback.                                  *)
(***************************************************************************)
EXTENDS ProviderRouting, FiniteSetTheorems, TLAPS

Pcs == {"idle", "admit", "lateAdmit", "reserve", "lateReserve", "invoke", "settle", "late"}
Failures == {"none", "model", "provider", "final"}

\* What the phase of an execution says of the rest of its state.
PhaseOf(e) ==
    /\ e.pc = "idle" => e = Idle
    /\ e.pc \in {"idle", "admit", "lateAdmit", "reserve", "lateReserve", "invoke"} =>
         e.release = "none"
    /\ e.pc \in {"idle", "admit", "lateAdmit", "reserve", "invoke"} => e.report = "none"
    /\ e.pc \in {"admit", "reserve"} => e.attempts < MaxExternalAttempts
    /\ e.pc = "admit" /\ e.fallback = "none" => e.failure = "none"
    /\ e.fallback = "model" => ModelFallback # None
    /\ e.fallback = "provider" => ProviderFallback # None

Phases == \A x \in Execution : PhaseOf(execution[x])

-----------------------------------------------------------------------------
(* The state of one execution *)

LEMMA StateIsTyped ==
    ASSUME NEW pc \in Pcs, NEW f \in Fallback, NEW a \in 0..MaxExternalAttempts,
           NEW g \in 0..AttemptTicks, NEW rl \in Releases \cup {"none"},
           NEW rp \in Reports \cup {"none"}, NEW fl \in Failures, NEW b \in BOOLEAN
    PROVE  [pc |-> pc, fallback |-> f, attempts |-> a, age |-> g, release |-> rl,
            report |-> rp, failure |-> fl, probe |-> b] \in ExecutionState
BY DEF ExecutionState, Pcs, Failures

LEMMA StateFields ==
    ASSUME NEW e \in ExecutionState
    PROVE  /\ e.pc \in Pcs /\ e.fallback \in Fallback /\ e.attempts \in 0..MaxExternalAttempts
           /\ e.age \in 0..AttemptTicks /\ e.release \in Releases \cup {"none"}
           /\ e.report \in Reports \cup {"none"} /\ e.failure \in Failures
           /\ e.probe \in BOOLEAN
BY DEF ExecutionState, Pcs, Failures

LEMMA Numbers ==
    /\ 0 \in 0..AttemptTicks /\ 0 \in 0..MaxExternalAttempts /\ 0 \in 0..CooldownTicks
    /\ 0 \in 0..FailureThreshold
    /\ MaxExternalAttempts \in Nat /\ AttemptTicks \in Nat /\ ReservationTicks \in Nat
    /\ CooldownTicks \in Nat /\ FailureThreshold \in Nat /\ MaxConcurrency \in Nat
BY PolicyAssumption, TimingAssumption

LEMMA IdleIsFine == Idle \in ExecutionState /\ PhaseOf(Idle)
<1>1. Idle \in ExecutionState
  <2>1. /\ "idle" \in Pcs /\ "none" \in Fallback /\ "none" \in Releases \cup {"none"}
        /\ "none" \in Reports \cup {"none"} /\ "none" \in Failures
    BY DEF Pcs, Failures, Fallback
  <2>2. FALSE \in BOOLEAN
    OBVIOUS
  <2> QED BY <2>1, <2>2, Numbers, StateIsTyped DEF Idle
<1>2. PhaseOf(Idle)
  BY DEF PhaseOf, Idle
<1> QED BY <1>1, <1>2

\* The state that Try leaves.
LEMMA TriedState ==
    ASSUME NEW e \in ExecutionState, NEW f \in Fallback
    PROVE  LET s == [e EXCEPT !.pc = "admit", !.fallback = f, !.age = 0,
                              !.release = "none", !.report = "none", !.probe = FALSE] IN
           /\ s \in ExecutionState
           /\ s.pc = "admit" /\ s.fallback = f /\ s.attempts = e.attempts
           /\ s.release = "none" /\ s.report = "none" /\ s.failure = e.failure
<1>1. ASSUME NEW g \in 0..AttemptTicks, NEW b \in BOOLEAN
      PROVE  LET s == [e EXCEPT !.pc = "admit", !.fallback = f, !.age = g,
                                !.release = "none", !.report = "none", !.probe = b] IN
             /\ s \in ExecutionState
             /\ s.pc = "admit" /\ s.fallback = f /\ s.attempts = e.attempts
             /\ s.release = "none" /\ s.report = "none" /\ s.failure = e.failure
  <2> DEFINE s == [e EXCEPT !.pc = "admit", !.fallback = f, !.age = g,
                            !.release = "none", !.report = "none", !.probe = b]
  <2>1. s \in ExecutionState
    BY DEF ExecutionState
  <2>2. /\ s.pc = "admit" /\ s.fallback = f /\ s.attempts = e.attempts
        /\ s.release = "none" /\ s.report = "none" /\ s.failure = e.failure
    BY DEF ExecutionState
  <2> QED BY <2>1, <2>2
<1>2. FALSE \in BOOLEAN
  OBVIOUS
<1> QED BY <1>1, <1>2, Numbers

\* An execution whose pc, flag, report or release changes.
LEMMA FlaggedState ==
    ASSUME NEW e \in ExecutionState, NEW pc \in Pcs, NEW b \in BOOLEAN
    PROVE  [e EXCEPT !.pc = pc, !.probe = b] \in ExecutionState
BY DEF ExecutionState, Pcs

LEMMA ChangedState ==
    ASSUME NEW e \in ExecutionState, NEW pc \in Pcs,
           NEW rl \in Releases \cup {"none"}, NEW rp \in Reports \cup {"none"}
    PROVE  /\ [e EXCEPT !.pc = pc] \in ExecutionState
           /\ [e EXCEPT !.pc = pc, !.report = rp] \in ExecutionState
           /\ [e EXCEPT !.pc = pc, !.release = rl] \in ExecutionState
           /\ [e EXCEPT !.release = rl] \in ExecutionState
           /\ [e EXCEPT !.report = rp] \in ExecutionState
<1>1. [e EXCEPT !.pc = pc] \in ExecutionState
  BY DEF ExecutionState, Pcs
<1>2. /\ [e EXCEPT !.pc = pc, !.report = rp] \in ExecutionState
      /\ [e EXCEPT !.pc = pc, !.release = rl] \in ExecutionState
  BY DEF ExecutionState, Pcs
<1>3. /\ [e EXCEPT !.release = rl] \in ExecutionState
      /\ [e EXCEPT !.report = rp] \in ExecutionState
  BY DEF ExecutionState
<1> QED BY <1>1, <1>2, <1>3

LEMMA CountedState ==
    ASSUME NEW e \in ExecutionState, e.attempts < MaxExternalAttempts
    PROVE  [e EXCEPT !.pc = "invoke", !.attempts = @ + 1] \in ExecutionState
<1>1. e.attempts + 1 \in 0..MaxExternalAttempts
  BY Numbers, StateFields
<1> QED BY <1>1 DEF ExecutionState

-----------------------------------------------------------------------------
(* How an execution moves *)

\* What is known of the state s that follows the state of x in a step of x.
Follows(x, s) ==
    /\ PhaseOf(s)
    /\ s.pc = "reserve" =>
         /\ AdmitProviderDomain(x)
         /\ execution[x].pc = "admit" /\ s.fallback = execution[x].fallback
         /\ s.probe = (domain[DomainOf[Candidate(x)]].state # "closed")
    /\ s.pc = "invoke" =>
         /\ ReserveProviderCall(x)
         /\ execution[x].pc = "reserve" /\ s.fallback = execution[x].fallback
         /\ s.age = execution[x].age /\ s.probe = execution[x].probe
    /\ s.pc # "idle" /\ s.fallback # execution[x].fallback =>
         /\ execution[x].fallback = "none"
         /\ execution[x].attempts < MaxExternalAttempts
         /\ execution[x].failure \in {"none", s.fallback}

Moved(x) ==
    /\ execution' \in [Execution -> ExecutionState]
    /\ \A y \in Execution : y # x => execution'[y] = execution[y]
    /\ Follows(x, execution'[x])

LEMMA BecomeMoves ==
    ASSUME TypeOK, NEW x \in Execution, NEW s \in ExecutionState, Become(x, s), Follows(x, s)
    PROVE  Moved(x)
<1>1. Follows(x, Idle)
  BY IdleIsFine DEF Follows, Idle
<1> DEFINE n == IF s.pc = "late" /\ s.release = "none" /\ s.report = "none" THEN Idle ELSE s
<1>2. execution' = [execution EXCEPT ![x] = n]
  BY DEF Become
<1>3. n \in ExecutionState /\ Follows(x, n)
  BY <1>1, IdleIsFine
<1> HIDE DEF n
<1>4. execution \in [Execution -> ExecutionState]
  BY DEF TypeOK
<1> QED BY <1>2, <1>3, <1>4 DEF Moved

LEMMA TryMoves ==
    ASSUME TypeOK, Phases, NEW x \in Execution, NEW f \in Fallback, Try(x, f),
           execution[x].attempts < MaxExternalAttempts,
           f = "none" => execution[x].fallback = "none" /\ execution[x].failure = "none",
           f # "none" => execution[x].fallback = "none" /\ execution[x].failure \in {"none", f},
           f = "model" => ModelFallback # None,
           f = "provider" => ProviderFallback # None
    PROVE  Moved(x)
<1> DEFINE s == [execution[x] EXCEPT !.pc = "admit", !.fallback = f, !.age = 0,
                    !.release = "none", !.report = "none", !.probe = FALSE]
<1>1. execution[x] \in ExecutionState
  BY DEF TypeOK
<1>2. /\ s \in ExecutionState
      /\ s.pc = "admit" /\ s.fallback = f /\ s.attempts = execution[x].attempts
      /\ s.release = "none" /\ s.report = "none" /\ s.failure = execution[x].failure
  BY <1>1, TriedState
<1>3. Become(x, s)
  BY DEF Try
<1> HIDE DEF s
<1>4. Follows(x, s)
  BY <1>2 DEF Follows, PhaseOf
<1> QED BY <1>2, <1>3, <1>4, BecomeMoves

LEMMA SettleMoves ==
    ASSUME TypeOK, Phases, NEW x \in Execution, NEW rl \in Releases \cup {"none"},
           NEW rp \in Reports, NEW fl \in Failures, Settle(x, rl, rp, fl)
    PROVE  Moved(x)
<1> DEFINE s == [execution[x] EXCEPT !.pc = "settle", !.release = rl, !.report = rp,
                                     !.failure = fl]
<1>1. execution[x] \in ExecutionState
  BY DEF TypeOK
<1>2. /\ s \in ExecutionState
      /\ s.pc = "settle" /\ s.fallback = execution[x].fallback /\ s.report = rp
  BY <1>1 DEF ExecutionState, Failures
<1>3. Become(x, s)
  BY DEF Settle
<1> HIDE DEF s
<1>4. PhaseOf(s)
  <2>1. PhaseOf(execution[x])
    BY DEF Phases
  <2> QED BY <1>2, <2>1 DEF PhaseOf
<1>5. Follows(x, s)
  BY <1>2, <1>4 DEF Follows
<1> QED BY <1>2, <1>3, <1>5, BecomeMoves

LEMMA IdleMoves ==
    ASSUME TypeOK, NEW x \in Execution, Become(x, Idle)
    PROVE  Moved(x)
<1>1. Follows(x, Idle)
  BY IdleIsFine DEF Follows, Idle
<1> QED BY <1>1, IdleIsFine, BecomeMoves

\* A step of x that changes its pc, its release or its report, and neither its
\* fallback nor its failure.
LEMMA ChangeMoves ==
    ASSUME TypeOK, Phases, NEW x \in Execution, NEW s \in ExecutionState, Become(x, s),
           s.fallback = execution[x].fallback, s.failure = execution[x].failure,
           s.pc \in {"lateAdmit", "lateReserve", "settle", "late"},
           s.pc \in {"lateAdmit", "lateReserve"} => s.release = "none",
           s.pc = "lateAdmit" => s.report = "none"
    PROVE  Moved(x)
<1>1. PhaseOf(execution[x])
  BY DEF Phases
<1>2. PhaseOf(s)
  BY <1>1 DEF PhaseOf
<1>3. Follows(x, s)
  BY <1>2 DEF Follows
<1> QED BY <1>3, BecomeMoves

LEMMA ContinueMoves ==
    ASSUME TypeOK, Phases, NEW x \in Execution, MayReport(x), Continue(x)
    PROVE  Moved(x)
<1> DEFINE e == execution[x]
<1>1. e \in ExecutionState /\ PhaseOf(e)
  BY DEF TypeOK, Phases
<1>2. CASE e.pc # "settle"
  <2> DEFINE s == [e EXCEPT !.report = "none"]
  <2>1. Become(x, s)
    BY <1>2 DEF Continue
  <2>2. /\ s \in ExecutionState /\ s.pc = e.pc /\ s.fallback = e.fallback
        /\ s.failure = e.failure /\ s.release = e.release
    BY <1>1 DEF ExecutionState
  <2>3. e.pc \in {"lateReserve", "late"}
    BY <1>1, <1>2, StateFields DEF MayReport, PhaseOf, Pcs
  <2>4. e.pc = "lateReserve" => e.release = "none"
    BY <1>1 DEF PhaseOf
  <2> HIDE DEF s, e
  <2> QED BY <2>1, <2>2, <2>3, <2>4, ChangeMoves DEF e
<1>3. ASSUME NEW f \in {"model", "provider"}, FallsBack(x, f), Try(x, f)
      PROVE  Moved(x)
  BY <1>3, TryMoves DEF FallsBack, Fallback, Alternative
<1>4. CASE Become(x, Idle)
  BY <1>4, IdleMoves
<1> QED BY <1>2, <1>3, <1>4 DEF Continue

LEMMA StartMoves ==
    ASSUME TypeOK, Phases, NEW x \in Execution, Start(x)
    PROVE  Moved(x)
<1>1. execution[x] = Idle
  BY DEF Phases, PhaseOf, Start
<1>2. /\ execution[x].fallback = "none" /\ execution[x].failure = "none"
      /\ execution[x].attempts = 0
  BY <1>1 DEF Idle
<1>3. 0 < MaxExternalAttempts
  BY PolicyAssumption
<1>4. Try(x, "none")
  BY DEF Start
<1> QED BY <1>2, <1>3, <1>4, TryMoves DEF Fallback

\* A step that only changes the pc, and the report or the release with it.
LEMMA LateMoves ==
    ASSUME TypeOK, Phases, NEW x \in Execution,
           NEW pc \in {"lateAdmit", "lateReserve", "settle", "late"},
           NEW rp \in Reports, NEW rl \in Releases,
           \/ pc \in {"lateAdmit", "late"} /\ execution[x].report = "none"
                /\ execution[x].release = "none" /\ Become(x, [execution[x] EXCEPT !.pc = pc])
           \/ execution[x].release = "none" /\ pc # "lateAdmit"
                /\ Become(x, [execution[x] EXCEPT !.pc = pc, !.report = rp])
           \/ pc = "late" /\ Become(x, [execution[x] EXCEPT !.pc = pc, !.release = rl])
    PROVE  Moved(x)
<1> DEFINE e == execution[x]
           s1 == [e EXCEPT !.pc = pc]
           s2 == [e EXCEPT !.pc = pc, !.report = rp]
           s3 == [e EXCEPT !.pc = pc, !.release = rl]
<1>1. e \in ExecutionState /\ pc \in Pcs
  BY DEF TypeOK, Pcs
<1>2. s1 \in ExecutionState /\ s2 \in ExecutionState /\ s3 \in ExecutionState
  BY <1>1, ChangedState
<1>3. /\ s1.pc = pc /\ s1.fallback = e.fallback /\ s1.failure = e.failure
      /\ s1.release = e.release /\ s1.report = e.report
      /\ s2.pc = pc /\ s2.fallback = e.fallback /\ s2.failure = e.failure
      /\ s2.release = e.release
      /\ s3.pc = pc /\ s3.fallback = e.fallback /\ s3.failure = e.failure
  BY <1>1 DEF ExecutionState
<1>4. \/ Become(x, s1) /\ pc \in {"lateAdmit", "late"} /\ e.report = "none" /\ e.release = "none"
      \/ Become(x, s2) /\ e.release = "none" /\ pc # "lateAdmit"
      \/ Become(x, s3) /\ pc = "late"
  OBVIOUS
<1> HIDE DEF s1, s2, s3
<1>5. CASE Become(x, s1) /\ pc \in {"lateAdmit", "late"} /\ e.report = "none" /\ e.release = "none"
  BY <1>2, <1>3, <1>5, ChangeMoves
<1>6. CASE Become(x, s2) /\ e.release = "none" /\ pc # "lateAdmit"
  BY <1>2, <1>3, <1>6, ChangeMoves
<1>7. CASE Become(x, s3) /\ pc = "late"
  BY <1>2, <1>3, <1>7, ChangeMoves
<1> QED BY <1>4, <1>5, <1>6, <1>7

LEMMA AbortMoves ==
    ASSUME TypeOK, Phases, NEW x \in Execution, Abort(x)
    PROVE  Moved(x)
<1>1. PhaseOf(execution[x])
  BY DEF Phases
<1>2. CASE execution[x].pc = "admit" /\ Become(x, [execution[x] EXCEPT !.pc = "lateAdmit"])
  BY <1>1, <1>2, LateMoves DEF PhaseOf, Reports, Releases
<1>3. CASE /\ execution[x].pc = "reserve"
           /\ Become(x, [execution[x] EXCEPT !.pc = "lateReserve", !.report = "cancelled"])
  BY <1>1, <1>3, LateMoves DEF PhaseOf, Reports, Releases
<1>4. CASE Settle(x, "none", "cancelled", "final")
  BY <1>4, SettleMoves DEF Reports, Failures
<1> QED BY <1>2, <1>3, <1>4 DEF Abort

LEMMA AdmitMoves ==
    ASSUME TypeOK, Phases, NEW x \in Execution, AdmitProviderDomain(x)
    PROVE  Moved(x)
<1> DEFINE e == execution[x]
           b == domain[DomainOf[Candidate(x)]].state # "closed"
           s == [e EXCEPT !.pc = "reserve", !.probe = b]
<1>1. e \in ExecutionState /\ PhaseOf(e)
  BY DEF TypeOK, Phases
<1>2. CASE e.pc = "admit"
  <2>1. Become(x, s)
    BY <1>2 DEF AdmitProviderDomain
  <2>2. b \in BOOLEAN /\ "reserve" \in Pcs
    BY DEF Pcs
  <2> HIDE DEF b
  <2>3. s \in ExecutionState
    BY <1>1, <2>2, FlaggedState
  <2>4. /\ s.pc = "reserve" /\ s.fallback = e.fallback /\ s.failure = e.failure
        /\ s.release = e.release /\ s.report = e.report /\ s.attempts = e.attempts
        /\ s.probe = b
    BY <1>1 DEF ExecutionState
  <2> HIDE DEF s
  <2>5. PhaseOf(s)
    BY <1>1, <1>2, <2>4 DEF PhaseOf
  <2>6. s.probe = (domain[DomainOf[Candidate(x)]].state # "closed")
    BY <2>4 DEF b
  <2>7. Follows(x, s)
    BY <1>2, <2>4, <2>5, <2>6 DEF Follows
  <2> QED BY <2>1, <2>3, <2>7, BecomeMoves
<1>3. CASE e.pc # "admit"
  <2>1. e.pc = "lateAdmit"
    BY <1>3 DEF AdmitProviderDomain
  <2>2. Become(x, [execution[x] EXCEPT !.pc = "late", !.report = "cancelled"])
    BY <1>3 DEF AdmitProviderDomain
  <2>3. e.release = "none"
    BY <1>1, <2>1 DEF PhaseOf
  <2> QED BY <2>2, <2>3, LateMoves DEF Reports, Releases
<1> QED BY <1>2, <1>3

LEMMA DomainDeniesMoves ==
    ASSUME TypeOK, Phases, NEW x \in Execution, DomainDenies(x) \/ DomainFails(x)
    PROVE  Moved(x)
<1>1. CASE /\ execution[x].pc = "admit" /\ execution[x].fallback = "none"
           /\ ProviderFallback # None /\ Try(x, "provider")
  <2>1. PhaseOf(execution[x])
    BY DEF Phases
  <2>2. execution[x].attempts < MaxExternalAttempts /\ execution[x].failure = "none"
    BY <1>1, <2>1 DEF PhaseOf
  <2> QED BY <1>1, <2>2, TryMoves DEF Fallback
<1>2. CASE Become(x, Idle)
  BY <1>2, IdleMoves
<1> QED BY <1>1, <1>2 DEF DomainDenies, DomainFails

LEMMA ReserveMoves ==
    ASSUME TypeOK, Phases, NEW x \in Execution, ReserveProviderCall(x)
    PROVE  Moved(x)
<1> DEFINE e == execution[x]
           s == [e EXCEPT !.pc = "invoke", !.attempts = @ + 1]
<1>1. e \in ExecutionState /\ PhaseOf(e)
  BY DEF TypeOK, Phases
<1>2. CASE e.pc = "reserve"
  <2>1. Become(x, s)
    BY <1>2 DEF ReserveProviderCall
  <2>2. s \in ExecutionState
    BY <1>1, <1>2, CountedState DEF PhaseOf
  <2>3. /\ s.pc = "invoke" /\ s.fallback = e.fallback /\ s.failure = e.failure
        /\ s.release = e.release /\ s.report = e.report /\ s.age = e.age /\ s.probe = e.probe
    BY <1>1 DEF ExecutionState
  <2> HIDE DEF s
  <2>4. PhaseOf(s)
    BY <1>1, <1>2, <2>3 DEF PhaseOf
  <2>5. Follows(x, s)
    BY <1>2, <2>3, <2>4 DEF Follows
  <2> QED BY <2>1, <2>2, <2>5, BecomeMoves
<1>3. CASE e.pc # "reserve"
  <2>1. Become(x, [execution[x] EXCEPT !.pc = "late", !.release = "cancelled"])
    BY <1>3 DEF ReserveProviderCall
  <2> QED BY <2>1, LateMoves DEF Reports, Releases
<1> QED BY <1>2, <1>3

\* A step of an execution that waits for nobody any more.
LEMMA ToLate ==
    ASSUME TypeOK, Phases, NEW x \in Execution, execution[x].release = "none",
           Become(x, [execution[x] EXCEPT !.pc = "late"])
    PROVE  Moved(x)
<1> DEFINE e == execution[x]
           s == [e EXCEPT !.pc = "late"]
<1>1. e \in ExecutionState /\ s \in ExecutionState
  BY ChangedState DEF TypeOK, Pcs
<1>2. /\ s.pc = "late" /\ s.fallback = e.fallback /\ s.failure = e.failure
  BY <1>1 DEF ExecutionState
<1> HIDE DEF s
<1> QED BY <1>1, <1>2, ChangeMoves DEF s

LEMMA UnreservedMoves ==
    ASSUME TypeOK, Phases, NEW x \in Execution, ReservationDenied(x) \/ ReservationFails(x)
    PROVE  Moved(x)
<1>1. ASSUME NEW fl \in Failures, Settle(x, "none", "terminal-failure", fl)
      PROVE  Moved(x)
  BY <1>1, SettleMoves DEF Reports
<1>2. CASE /\ execution[x].pc = "lateReserve"
           /\ Become(x, [execution[x] EXCEPT !.pc = "late"])
  <2>1. PhaseOf(execution[x])
    BY DEF Phases
  <2>2. execution[x].release = "none"
    BY <1>2, <2>1 DEF PhaseOf
  <2> QED BY <1>2, <2>2, ToLate
<1> QED BY <1>1, <1>2 DEF ReservationDenied, ReservationFails, Failures

LEMMA CallEndsMoves ==
    ASSUME TypeOK, Phases, NEW x \in Execution, CallEnds(x)
    PROVE  Moved(x)
<1>1. PICK rl \in Releases, rp \in Reports, fl \in Failures : Settle(x, rl, rp, fl)
  BY DEF CallEnds, Releases, Reports, Failures
<1> QED BY <1>1, SettleMoves

LEMMA ReleaseMoves ==
    ASSUME TypeOK, Phases, NEW x \in Execution, ReleaseProviderCall(x) \/ ReleaseFails(x)
    PROVE  Moved(x)
<1> DEFINE e == execution[x]
           s == [e EXCEPT !.release = "none"]
<1>1. e \in ExecutionState /\ PhaseOf(e) /\ e.release # "none"
  BY DEF TypeOK, Phases, ReleaseProviderCall, ReleaseFails
<1>2. e.pc \in {"settle", "late"}
  BY <1>1, StateFields DEF PhaseOf, Pcs
<1>3. CASE Become(x, s)
  <2>1. /\ s \in ExecutionState /\ s.pc = e.pc /\ s.fallback = e.fallback
        /\ s.failure = e.failure
    BY <1>1 DEF ExecutionState
  <2> HIDE DEF s
  <2> QED BY <1>2, <1>3, <2>1, ChangeMoves
<1>4. CASE Settle(x, "none", "terminal-failure", "final")
  BY <1>4, SettleMoves DEF Reports, Failures
<1> QED BY <1>3, <1>4 DEF ReleaseProviderCall, ReleaseFails

LEMMA ReportMoves ==
    ASSUME TypeOK, Phases, NEW x \in Execution, ReportProviderDomain(x) \/ ReportFails(x)
    PROVE  Moved(x)
<1> DEFINE e == execution[x]
           s == [e EXCEPT !.report = "none"]
<1>1. e \in ExecutionState /\ PhaseOf(e) /\ MayReport(x)
  BY DEF TypeOK, Phases, ReportProviderDomain, ReportFails
<1>2. CASE Continue(x)
  BY <1>1, <1>2, ContinueMoves
<1>3. CASE e.pc # "settle" /\ Become(x, s)
  <2>1. /\ s \in ExecutionState /\ s.pc = e.pc /\ s.fallback = e.fallback
        /\ s.failure = e.failure /\ s.release = e.release
    BY <1>1 DEF ExecutionState
  <2>2. e.pc \in {"lateReserve", "late"}
    BY <1>1, <1>3, StateFields DEF MayReport, PhaseOf, Pcs
  <2>3. e.pc = "lateReserve" => e.release = "none"
    BY <1>1 DEF PhaseOf
  <2> HIDE DEF s
  <2> QED BY <1>3, <2>1, <2>2, <2>3, ChangeMoves
<1>4. CASE Become(x, Idle)
  BY <1>4, IdleMoves
<1>5. CASE Settle(x, "none", "cancelled", "final")
  BY <1>5, SettleMoves DEF Reports, Failures
<1> QED BY <1>2, <1>3, <1>4, <1>5 DEF ReportProviderDomain, ReportFails

\* Every step of an execution.
Steps(x) == Start(x) \/ Abort(x) \/ Advance(x) \/ Crash(x)

LEMMA Moves ==
    ASSUME TypeOK, Phases, NEW x \in Execution, Steps(x)
    PROVE  Moved(x)
BY StartMoves, AbortMoves, AdmitMoves, DomainDeniesMoves, ReserveMoves, UnreservedMoves,
   CallEndsMoves, ReleaseMoves, ReportMoves, IdleMoves
   DEF Steps, Advance, Crash

-----------------------------------------------------------------------------
(* What a step of an execution does to the documents *)

DomainMoved(x) ==
    \/ UNCHANGED domain
    \/ /\ execution[x].pc \in {"admit", "lateAdmit"}
       /\ DomainAdmits(DomainOf[Candidate(x)])
       /\ DomainAdmitted(DomainOf[Candidate(x)], IdOf(x))
    \/ /\ MayReport(x)
       /\ domain' = [domain EXCEPT ![DomainOf[Candidate(x)]] =
                       DomainOutcome(DomainOf[Candidate(x)], IdOf(x), execution[x].report)]

PoolMoved(x) ==
    \/ UNCHANGED <<circuit, reservation>>
    \/ Start(x)
    \/ /\ execution[x].pc \in {"reserve", "lateReserve"}
       /\ RouteAdmits(Candidate(x)) /\ HasRoom(Candidate(x))
       /\ Granted(Candidate(x), IdOf(x))
    \/ /\ execution[x].release # "none"
       /\ Released(IdOf(x), execution[x].release)

LEMMA DocumentsMove ==
    ASSUME NEW x \in Execution, Steps(x)
    PROVE  DomainMoved(x) /\ PoolMoved(x)
<1>1. CASE Start(x)
  BY <1>1 DEF Start, DomainMoved, PoolMoved
<1>2. CASE Abort(x) \/ Crash(x)
  BY <1>2 DEF Abort, Crash, DomainMoved, PoolMoved
<1>3. CASE AdmitProviderDomain(x) \/ DomainDenies(x) \/ DomainFails(x)
  BY <1>3 DEF AdmitProviderDomain, DomainDenies, DomainFails, DomainMoved, PoolMoved
<1>4. CASE ReserveProviderCall(x) \/ ReservationDenied(x) \/ ReservationFails(x)
  BY <1>4 DEF ReserveProviderCall, ReservationDenied, ReservationFails, DomainMoved, PoolMoved
<1>5. CASE CallEnds(x) \/ ReleaseProviderCall(x) \/ ReleaseFails(x)
  BY <1>5 DEF CallEnds, ReleaseProviderCall, ReleaseFails, DomainMoved, PoolMoved
<1>6. CASE ReportProviderDomain(x) \/ ReportFails(x)
  BY <1>6 DEF ReportProviderDomain, ReportFails, DomainMoved, PoolMoved
<1> QED BY <1>1, <1>2, <1>3, <1>4, <1>5, <1>6 DEF Steps, Advance

LEMMA NextSteps ==
    ASSUME [Next]_vars
    PROVE  (\E x \in Execution : Steps(x)) \/ Tick \/ UNCHANGED vars
BY TimingAssumption DEF Next, Steps

\* The candidate of an execution is a route, of a domain, and its id an id.
LEMMA Candidates ==
    ASSUME TypeOK, Phases, NEW x \in Execution
    PROVE  /\ Candidate(x) \in Route /\ DomainOf[Candidate(x)] \in Domain
           /\ PoolOf[Candidate(x)] \in Pool
           /\ IdOf(x) \in Id /\ IdOf(x) # None
<1>1. execution[x].fallback \in Fallback /\ PhaseOf(execution[x])
  BY StateFields DEF TypeOK, Phases
<1>2. Candidate(x) \in Route
  BY <1>1, PolicyAssumption DEF Candidate, Fallback, PhaseOf
<1>3. IdOf(x) \in Id
  BY <1>1 DEF IdOf, Id
<1>4. None \notin Id
  BY NoneAssumption DEF Id, Fallback
<1> QED BY <1>2, <1>3, <1>4, PolicyAssumption

LEMMA NoneIsNone == None \notin Id /\ None \notin Reservation
BY NoneAssumption DEF Id, Fallback, Reservation

-----------------------------------------------------------------------------
(* Circuits *)

LEMMA CircuitIsTyped ==
    ASSUME NEW st \in {"closed", "open", "half-open"}, NEW f \in 0..FailureThreshold,
           NEW l \in 0..CooldownTicks, NEW p \in Id \cup {None}
    PROVE  [state |-> st, failures |-> f, left |-> l, probe |-> p] \in Circuit
BY DEF Circuit

LEMMA ClosedIsTyped == Closed \in Circuit
BY Numbers DEF Closed, Circuit

\* What a failure more makes of a circuit.
LEMMA StruckCircuit ==
    ASSUME NEW c \in Circuit, NEW open \in BOOLEAN, NEW p \in Id \cup {None}
    PROVE  /\ Struck(c, open, p) \in Circuit
           /\ open => Struck(c, open, p).state = "open" /\ Struck(c, open, p).left = CooldownTicks
           /\ ~open => Struck(c, open, p).state = "closed"
           /\ Struck(c, open, p).probe = p
           /\ Struck(c, open, p).failures =
                IF c.failures < FailureThreshold THEN c.failures + 1 ELSE c.failures
<1> DEFINE st == IF open THEN "open" ELSE "closed"
           f == IF c.failures < FailureThreshold THEN c.failures + 1 ELSE c.failures
           l == IF open THEN CooldownTicks ELSE 0
           n == [state |-> st, failures |-> f, left |-> l, probe |-> p]
<1>1. Struck(c, open, p) = n
  BY DEF Struck
<1>2. st \in {"closed", "open", "half-open"}
  OBVIOUS
<1>3. c.failures \in 0..FailureThreshold
  BY DEF Circuit
<1>4. f \in 0..FailureThreshold
  BY <1>3, Numbers
<1>5. l \in 0..CooldownTicks
  BY Numbers
<1>6. n.state = st /\ n.left = l /\ n.probe = p /\ n.failures = f
  OBVIOUS
<1>7. n \in Circuit
  <2> HIDE DEF st, f, l
  <2> QED BY <1>2, <1>4, <1>5, CircuitIsTyped
<1>8. (open => st = "open" /\ l = CooldownTicks) /\ (~open => st = "closed")
  OBVIOUS
<1> HIDE DEF st, l, n
<1> QED BY <1>1, <1>6, <1>7, <1>8

\* A closed circuit is below the threshold, an open one has no probe.
ShapeOf(c) ==
    /\ c.state # "half-open" => c.probe = None
    /\ c.failures = FailureThreshold <=> c.state # "closed"

LEMMA ClosedShape == ShapeOf(Closed)
BY TimingAssumption DEF ShapeOf, Closed

\* A failure more opens a circuit exactly at the threshold.
LEMMA StruckShape ==
    ASSUME NEW c \in Circuit, ShapeOf(c), NEW p \in Id \cup {None}, p = None
    PROVE  /\ Struck(c, Opens(c), p) \in Circuit /\ ShapeOf(Struck(c, Opens(c), p))
           /\ Struck(c, Opens(c), p).state # "half-open"
           /\ Struck(c, Opens(c), p).state = "open" =>
                Struck(c, Opens(c), p).left = CooldownTicks
<1>1. Opens(c) \in BOOLEAN
  BY DEF Opens
<1>2. c.failures \in 0..FailureThreshold /\ FailureThreshold \in Nat
  BY Numbers DEF Circuit
<1>3. /\ Struck(c, Opens(c), p) \in Circuit
      /\ Opens(c) => Struck(c, Opens(c), p).state = "open"
                    /\ Struck(c, Opens(c), p).left = CooldownTicks
      /\ ~Opens(c) => Struck(c, Opens(c), p).state = "closed"
      /\ Struck(c, Opens(c), p).probe = p
      /\ Struck(c, Opens(c), p).failures =
           IF c.failures < FailureThreshold THEN c.failures + 1 ELSE c.failures
  BY <1>1, StruckCircuit
<1>4. Opens(c) <=> c.state = "half-open" \/ c.failures + 1 >= FailureThreshold
  BY DEF Opens
<1> QED BY <1>2, <1>3, <1>4 DEF ShapeOf

-----------------------------------------------------------------------------
(* The failure domains *)

DomainCircuits == \A d \in Domain : ShapeOf(domain[d])

LEMMA OutcomeOfDomain ==
    ASSUME TypeOK, DomainCircuits, NEW d \in Domain, NEW i \in Id, NEW outcome
    PROVE  LET c == domain[d]
               n == DomainOutcome(d, i, outcome) IN
           /\ n \in Circuit /\ ShapeOf(n)
           /\ c.state = "half-open" /\ c.probe \notin {None, i} => n = c
           /\ c.state # "open" /\ n.state = "open" => outcome = "provider-retryable-failure"
<1> DEFINE c == domain[d]
           n == DomainOutcome(d, i, outcome)
           k == [c EXCEPT !.probe = None, !.left = 0]
<1>1. c \in Circuit /\ ShapeOf(c)
  BY DEF TypeOK, DomainCircuits
<1>2. CASE c.state = "half-open" /\ c.probe \notin {None, i}
  <2>1. n = c
    BY <1>2 DEF DomainOutcome
  <2> QED BY <1>1, <1>2, <2>1
<1>3. CASE /\ ~(c.state = "half-open" /\ c.probe \notin {None, i})
           /\ outcome = "provider-retryable-failure"
  <2>1. n = Struck(c, Opens(c), None)
    BY <1>3 DEF DomainOutcome
  <2>2. n \in Circuit /\ ShapeOf(n)
    BY <1>1, <2>1, StruckShape
  <2> QED BY <1>3, <2>2
<1>4. CASE /\ ~(c.state = "half-open" /\ c.probe \notin {None, i})
           /\ outcome = "succeeded"
  <2>1. n = Closed
    BY <1>4 DEF DomainOutcome
  <2> QED BY <1>4, <2>1, ClosedIsTyped, ClosedShape DEF Closed
<1>5. CASE /\ ~(c.state = "half-open" /\ c.probe \notin {None, i})
           /\ outcome \notin {"provider-retryable-failure", "succeeded"}
  <2>1. n = IF c.probe = i THEN k ELSE c
    BY <1>5 DEF DomainOutcome
  <2>2. k \in Circuit
    BY <1>1, Numbers DEF Circuit
  <2>3. k.state = c.state /\ k.failures = c.failures /\ k.probe = None
    BY <1>1 DEF Circuit
  <2> HIDE DEF k
  <2>4. ShapeOf(k)
    BY <1>1, <2>3 DEF ShapeOf
  <2> QED BY <1>1, <1>5, <2>1, <2>2, <2>3, <2>4
<1> QED BY <1>2, <1>3, <1>4, <1>5

\* What an admission makes of the circuit of its domain.
LEMMA AdmissionOfDomain ==
    ASSUME TypeOK, DomainCircuits, NEW d \in Domain, NEW i \in Id, DomainAdmitted(d, i)
    PROVE  /\ domain' \in [Domain -> Circuit] /\ DomainCircuits'
           /\ \A q \in Domain : q # d => domain'[q] = domain[q]
           /\ domain[d].state = "closed" => domain'[d] = domain[d]
           /\ domain[d].state # "closed" =>
                /\ domain'[d].state = "half-open" /\ domain'[d].probe = i
                /\ domain'[d].left = CooldownTicks
<1> DEFINE c == domain[d]
           k == [c EXCEPT !.state = "half-open", !.probe = i, !.left = CooldownTicks]
<1>1. domain \in [Domain -> Circuit] /\ c \in Circuit /\ ShapeOf(c)
  BY DEF TypeOK, DomainCircuits
<1>2. CASE c.state = "closed"
  <2>1. domain' = domain
    BY <1>2 DEF DomainAdmitted
  <2> QED BY <1>1, <1>2, <2>1 DEF DomainCircuits
<1>3. CASE c.state # "closed"
  <2>1. domain' = [domain EXCEPT ![d] = k]
    BY <1>3 DEF DomainAdmitted
  <2>2. CooldownTicks \in 0..CooldownTicks
    BY Numbers
  <2>3. k \in Circuit
    BY <1>1, <2>2 DEF Circuit
  <2>4. /\ k.state = "half-open" /\ k.probe = i /\ k.left = CooldownTicks
        /\ k.failures = c.failures
    BY <1>1 DEF Circuit
  <2> HIDE DEF k
  <2>5. ShapeOf(k)
    BY <1>1, <1>3, <2>4 DEF ShapeOf
  <2>6. domain' \in [Domain -> Circuit]
    BY <1>1, <2>1, <2>3
  <2>7. \A q \in Domain : domain'[q] = IF q = d THEN k ELSE domain[q]
    BY <1>1, <2>1
  <2>8. DomainCircuits'
    BY <2>5, <2>7 DEF DomainCircuits
  <2> QED BY <1>3, <2>4, <2>6, <2>7, <2>8
<1> QED BY <1>2, <1>3

LEMMA DomainStep ==
    ASSUME TypeOK, Phases, DomainCircuits, NEW x \in Execution, DomainMoved(x)
    PROVE  domain' \in [Domain -> Circuit] /\ DomainCircuits'
<1> DEFINE d == DomainOf[Candidate(x)]
           n == DomainOutcome(d, IdOf(x), execution[x].report)
<1>1. d \in Domain /\ IdOf(x) \in Id
  BY Candidates
<1>2. domain \in [Domain -> Circuit]
  BY DEF TypeOK
<1>3. CASE UNCHANGED domain
  BY <1>2, <1>3 DEF DomainCircuits
<1>4. CASE DomainAdmitted(d, IdOf(x))
  BY <1>1, <1>4, AdmissionOfDomain
<1>5. CASE domain' = [domain EXCEPT ![d] = n]
  <2>1. n \in Circuit /\ ShapeOf(n)
    BY <1>1, OutcomeOfDomain
  <2> HIDE DEF n, d
  <2>2. \A q \in Domain : domain'[q] = IF q = d THEN n ELSE domain[q]
    BY <1>2, <1>5
  <2>3. domain' \in [Domain -> Circuit]
    BY <1>2, <1>5, <2>1
  <2> QED BY <2>1, <2>2, <2>3 DEF DomainCircuits
<1> QED BY <1>3, <1>4, <1>5 DEF DomainMoved

\* A probe that is under way holds the circuit of its domain, for as long as it
\* may last.
Probing(x) == Attempting(x) /\ execution[x].probe

ProbesAreHeld ==
    \A x \in Execution : Probing(x) =>
        LET c == domain[DomainOf[Candidate(x)]] IN
        /\ c.state = "half-open" /\ c.probe = IdOf(x)
        /\ c.left + execution[x].age >= CooldownTicks

\* Nobody else changes the circuit that a probe holds.
LEMMA HeldIsKept ==
    ASSUME TypeOK, Phases, DomainCircuits, ProbesAreHeld, NEW x \in Execution, DomainMoved(x),
           NEW y \in Execution, y # x, Probing(y)
    PROVE  domain'[DomainOf[Candidate(y)]] = domain[DomainOf[Candidate(y)]]
<1> DEFINE d == DomainOf[Candidate(x)]
           q == DomainOf[Candidate(y)]
           n == DomainOutcome(d, IdOf(x), execution[x].report)
<1>1. /\ d \in Domain /\ q \in Domain /\ IdOf(x) \in Id /\ IdOf(y) \in Id
      /\ IdOf(y) # None
  BY Candidates
<1>2. IdOf(y) # IdOf(x)
  BY DEF IdOf
<1>3. domain \in [Domain -> Circuit] /\ domain[q] \in Circuit /\ execution[y].age \in 0..AttemptTicks
  BY <1>1, StateFields DEF TypeOK
<1>4. /\ domain[q].state = "half-open" /\ domain[q].probe = IdOf(y)
      /\ domain[q].left + execution[y].age >= CooldownTicks
  BY DEF ProbesAreHeld
<1>5. domain[q].left \in 0..CooldownTicks
  BY <1>3 DEF Circuit
<1>6. domain[q].left # 0
  BY <1>3, <1>4, <1>5, TimingAssumption
<1>7. ~DomainAdmits(q)
  BY <1>1, <1>4, <1>6 DEF DomainAdmits, DomainProbe
<1>8. CASE UNCHANGED domain
  BY <1>8
<1>9. CASE DomainAdmits(d) /\ DomainAdmitted(d, IdOf(x))
  <2>1. q # d
    BY <1>7, <1>9
  <2> QED BY <1>1, <1>9, <2>1, AdmissionOfDomain
<1>10. CASE domain' = [domain EXCEPT ![d] = n]
  <2>1. q = d => n = domain[q]
    BY <1>1, <1>2, <1>4, OutcomeOfDomain
  <2>2. q # d => domain'[q] = domain[q]
    BY <1>1, <1>3, <1>10
  <2>3. q = d => domain'[q] = n
    BY <1>1, <1>3, <1>10
  <2> QED BY <2>1, <2>2, <2>3
<1> QED BY <1>8, <1>9, <1>10 DEF DomainMoved

LEMMA HeldStep ==
    ASSUME TypeOK, Phases, DomainCircuits, ProbesAreHeld, NEW x \in Execution, Steps(x)
    PROVE  ProbesAreHeld'
<1>1. Moved(x) /\ DomainMoved(x)
  BY Moves, DocumentsMove
<1>2. SUFFICES ASSUME NEW y \in Execution, Probing(y)'
               PROVE  LET c == domain'[DomainOf[Candidate(y)']] IN
                      /\ c.state = "half-open" /\ c.probe = IdOf(y)'
                      /\ c.left + execution'[y].age >= CooldownTicks
  BY DEF ProbesAreHeld
<1>3. CASE y # x
  <2>1. execution'[y] = execution[y]
    BY <1>1, <1>3 DEF Moved
  <2>2. /\ Candidate(y)' = Candidate(y) /\ IdOf(y)' = IdOf(y) /\ Probing(y)
    BY <1>2, <2>1 DEF Candidate, IdOf, Probing, Attempting
  <2>3. domain'[DomainOf[Candidate(y)]] = domain[DomainOf[Candidate(y)]]
    BY <1>1, <1>3, <2>2, HeldIsKept
  <2> QED BY <2>1, <2>2, <2>3 DEF ProbesAreHeld
<1>4. CASE y = x
  <2> DEFINE d == DomainOf[Candidate(x)]
  <2>1. Follows(x, execution'[x]) /\ execution'[x] \in ExecutionState
    BY <1>1 DEF Moved
  <2>2. execution'[x].pc \in {"reserve", "invoke"} /\ execution'[x].probe
    BY <1>2, <1>4 DEF Probing, Attempting
  <2>3. execution'[x].fallback = execution[x].fallback
    BY <2>1, <2>2 DEF Follows
  <2>4. Candidate(x)' = Candidate(x) /\ IdOf(x)' = IdOf(x)
    BY <2>3 DEF Candidate, IdOf
  <2>5. CASE execution'[x].pc = "reserve"
    <3>1. /\ AdmitProviderDomain(x)
          /\ execution'[x].probe = (domain[d].state # "closed")
      BY <2>1, <2>5 DEF Follows
    <3>2. domain[d].state # "closed"
      BY <2>2, <3>1
    <3>3. d \in Domain /\ IdOf(x) \in Id /\ DomainAdmitted(d, IdOf(x))
      BY <3>1, Candidates DEF AdmitProviderDomain
    <3>4. /\ domain'[d].state = "half-open" /\ domain'[d].probe = IdOf(x)
          /\ domain'[d].left = CooldownTicks
      BY <3>2, <3>3, AdmissionOfDomain
    <3>5. execution'[x].age \in 0..AttemptTicks
      BY <2>1, StateFields
    <3>6. domain'[d].left + execution'[x].age >= CooldownTicks
      BY <3>4, <3>5, Numbers
    <3> QED BY <1>4, <2>4, <3>4, <3>6
  <2>6. CASE execution'[x].pc = "invoke"
    <3>1. /\ ReserveProviderCall(x) /\ execution[x].pc = "reserve"
          /\ execution'[x].age = execution[x].age /\ execution'[x].probe = execution[x].probe
      BY <2>1, <2>6 DEF Follows
    <3>2. Probing(x) /\ domain' = domain
      BY <2>2, <3>1 DEF Probing, Attempting, ReserveProviderCall
    <3> QED BY <1>4, <2>4, <3>1, <3>2 DEF ProbesAreHeld
  <2> QED BY <2>2, <2>5, <2>6
<1> QED BY <1>3, <1>4

-----------------------------------------------------------------------------
(* A tick *)

LEMMA LessIsLess ==
    ASSUME NEW n \in Nat, NEW m \in Nat, n <= m
    PROVE  Less(n) \in 0..m /\ Less(n) <= Less(m) /\ Less(n) + 1 >= n
BY DEF Less

LEMMA TickTypes ==
    ASSUME TypeOK, Tick
    PROVE  TypeOK'
<1>1. domain' \in [Domain -> Circuit]
  <2>1. ASSUME NEW d \in Domain
        PROVE  [domain[d] EXCEPT !.left = Less(@)] \in Circuit
    <3>1. domain[d] \in Circuit /\ domain[d].left \in 0..CooldownTicks
      BY DEF TypeOK, Circuit
    <3>2. Less(domain[d].left) \in 0..CooldownTicks
      BY <3>1, Numbers, LessIsLess
    <3> QED BY <3>1, <3>2 DEF Circuit
  <2> QED BY <2>1 DEF Tick
<1>2. circuit' \in [Route -> Circuit]
  <2>1. ASSUME NEW r \in Route
        PROVE  [circuit[r] EXCEPT !.left = Less(@)] \in Circuit
    <3>1. circuit[r] \in Circuit /\ circuit[r].left \in 0..CooldownTicks
      BY DEF TypeOK, Circuit
    <3>2. Less(circuit[r].left) \in 0..CooldownTicks
      BY <3>1, Numbers, LessIsLess
    <3> QED BY <3>1, <3>2 DEF Circuit
  <2> QED BY <2>1 DEF Tick
<1>3. reservation' \in [Id -> Reservation \cup {None}]
  <2>1. ASSUME NEW i \in Id, reservation[i] # None
        PROVE  [reservation[i] EXCEPT !.left = Less(@)] \in Reservation
    <3>1. reservation[i] \in Reservation /\ reservation[i].left \in 0..ReservationTicks
      BY <2>1 DEF TypeOK, Reservation
    <3>2. Less(reservation[i].left) \in 0..ReservationTicks
      BY <3>1, Numbers, LessIsLess
    <3> QED BY <3>1, <3>2 DEF Reservation
  <2> QED BY <2>1 DEF Tick
<1>4. execution' \in [Execution -> ExecutionState]
  <2>1. ASSUME NEW x \in Execution, Attempting(x)
        PROVE  [execution[x] EXCEPT !.age = @ + 1] \in ExecutionState
    <3>1. execution[x] \in ExecutionState /\ execution[x].age \in 0..AttemptTicks
      BY StateFields DEF TypeOK
    <3>2. execution[x].age + 1 \in 0..AttemptTicks
      BY <2>1, <3>1, Numbers DEF Tick
    <3> QED BY <3>1, <3>2 DEF ExecutionState
  <2>2. \A x \in Execution : execution[x] \in ExecutionState
    BY DEF TypeOK
  <2> QED BY <2>1, <2>2 DEF Tick
<1> QED BY <1>1, <1>2, <1>3, <1>4 DEF TypeOK

\* What a tick leaves alone, and how far it goes.
LEMMA TickKeeps ==
    ASSUME TypeOK, Tick
    PROVE  /\ \A x \in Execution :
                /\ execution'[x].pc = execution[x].pc
                /\ execution'[x].fallback = execution[x].fallback
                /\ execution'[x].attempts = execution[x].attempts
                /\ execution'[x].release = execution[x].release
                /\ execution'[x].report = execution[x].report
                /\ execution'[x].failure = execution[x].failure
                /\ execution'[x].probe = execution[x].probe
                /\ ~Attempting(x) => execution'[x] = execution[x]
                /\ Attempting(x) => execution'[x].age = execution[x].age + 1
           /\ \A d \in Domain :
                /\ domain'[d].state = domain[d].state /\ domain'[d].probe = domain[d].probe
                /\ domain'[d].failures = domain[d].failures
                /\ domain'[d].left = Less(domain[d].left)
           /\ \A r \in Route :
                /\ circuit'[r].state = circuit[r].state /\ circuit'[r].probe = circuit[r].probe
                /\ circuit'[r].failures = circuit[r].failures
                /\ circuit'[r].left = Less(circuit[r].left)
           /\ \A i \in Id :
                /\ reservation'[i] = None <=> reservation[i] = None
                /\ reservation[i] # None =>
                     /\ reservation'[i].route = reservation[i].route
                     /\ reservation'[i].left = Less(reservation[i].left)
<1>1. ASSUME NEW x \in Execution
      PROVE  /\ execution'[x].pc = execution[x].pc
             /\ execution'[x].fallback = execution[x].fallback
             /\ execution'[x].attempts = execution[x].attempts
             /\ execution'[x].release = execution[x].release
             /\ execution'[x].report = execution[x].report
             /\ execution'[x].failure = execution[x].failure
             /\ execution'[x].probe = execution[x].probe
             /\ ~Attempting(x) => execution'[x] = execution[x]
             /\ Attempting(x) => execution'[x].age = execution[x].age + 1
  <2>1. execution[x] \in ExecutionState
    BY DEF TypeOK
  <2>2. execution'[x] = IF Attempting(x) THEN [execution[x] EXCEPT !.age = @ + 1]
                        ELSE execution[x]
    BY DEF Tick
  <2> QED BY <2>1, <2>2 DEF ExecutionState
<1>2. ASSUME NEW d \in Domain
      PROVE  /\ domain'[d].state = domain[d].state /\ domain'[d].probe = domain[d].probe
             /\ domain'[d].failures = domain[d].failures
             /\ domain'[d].left = Less(domain[d].left)
  <2>1. domain[d] \in Circuit /\ domain'[d] = [domain[d] EXCEPT !.left = Less(@)]
    BY DEF TypeOK, Tick
  <2> QED BY <2>1 DEF Circuit
<1>3. ASSUME NEW r \in Route
      PROVE  /\ circuit'[r].state = circuit[r].state /\ circuit'[r].probe = circuit[r].probe
             /\ circuit'[r].failures = circuit[r].failures
             /\ circuit'[r].left = Less(circuit[r].left)
  <2>1. circuit[r] \in Circuit /\ circuit'[r] = [circuit[r] EXCEPT !.left = Less(@)]
    BY DEF TypeOK, Tick
  <2> QED BY <2>1 DEF Circuit
<1>4. ASSUME NEW i \in Id
      PROVE  /\ reservation'[i] = None <=> reservation[i] = None
             /\ reservation[i] # None =>
                  /\ reservation'[i].route = reservation[i].route
                  /\ reservation'[i].left = Less(reservation[i].left)
  <2>1. reservation' \in [Id -> Reservation \cup {None}]
    BY TickTypes DEF TypeOK
  <2>2. CASE reservation[i] = None
    BY <2>2 DEF Tick
  <2>3. CASE reservation[i] # None
    <3>1. reservation[i] \in Reservation
      BY <2>3 DEF TypeOK
    <3>2. reservation'[i] = [reservation[i] EXCEPT !.left = Less(@)]
      BY <2>3 DEF Tick
    <3>3. /\ reservation'[i].route = reservation[i].route
          /\ reservation'[i].left = Less(reservation[i].left)
      BY <3>1, <3>2 DEF Reservation
    <3>4. [reservation[i] EXCEPT !.left = Less(@)] \in Reservation
      <4>1. reservation[i].left \in 0..ReservationTicks
        BY <3>1 DEF Reservation
      <4>2. Less(reservation[i].left) \in 0..ReservationTicks
        BY <4>1, Numbers, LessIsLess
      <4> QED BY <3>1, <4>2 DEF Reservation
    <3> QED BY <2>3, <3>2, <3>3, <3>4, NoneIsNone
  <2> QED BY <2>2, <2>3
<1> QED BY <1>1, <1>2, <1>3, <1>4

LEMMA TickPhases ==
    ASSUME TypeOK, Phases, Tick
    PROVE  Phases'
<1> SUFFICES ASSUME NEW x \in Execution PROVE PhaseOf(execution'[x])
  BY DEF Phases
<1>1. PhaseOf(execution[x])
  BY DEF Phases
<1>2. execution[x].pc = "idle" => execution'[x] = execution[x]
  BY TickKeeps DEF Attempting
<1> QED BY <1>1, <1>2, TickKeeps DEF PhaseOf

LEMMA TickHeld ==
    ASSUME TypeOK, Phases, ProbesAreHeld, Tick
    PROVE  ProbesAreHeld'
<1> SUFFICES ASSUME NEW x \in Execution, Probing(x)'
             PROVE  LET c == domain'[DomainOf[Candidate(x)']] IN
                    /\ c.state = "half-open" /\ c.probe = IdOf(x)'
                    /\ c.left + execution'[x].age >= CooldownTicks
  BY DEF ProbesAreHeld
<1> DEFINE d == DomainOf[Candidate(x)]
<1>1. /\ execution'[x].pc = execution[x].pc /\ execution'[x].fallback = execution[x].fallback
      /\ execution'[x].probe = execution[x].probe
      /\ Attempting(x) => execution'[x].age = execution[x].age + 1
  BY TickKeeps
<1>2. Probing(x) /\ Candidate(x)' = Candidate(x) /\ IdOf(x)' = IdOf(x)
  BY <1>1 DEF Probing, Attempting, Candidate, IdOf
<1>3. d \in Domain
  BY Candidates
<1>4. domain[d].left \in 0..CooldownTicks /\ execution[x].age \in 0..AttemptTicks
  BY <1>3, StateFields DEF TypeOK, Circuit
<1>5. /\ domain[d].state = "half-open" /\ domain[d].probe = IdOf(x)
      /\ domain[d].left + execution[x].age >= CooldownTicks
  BY <1>2 DEF ProbesAreHeld
<1>6. /\ domain'[d].state = domain[d].state /\ domain'[d].probe = domain[d].probe
      /\ domain'[d].left = Less(domain[d].left)
  BY <1>3, TickKeeps
<1>7. domain'[d].left + execution'[x].age >= CooldownTicks
  <2>1. Less(domain[d].left) + 1 >= domain[d].left /\ Less(domain[d].left) \in Nat
    BY <1>4, Numbers, LessIsLess
  <2>2. execution'[x].age = execution[x].age + 1
    BY <1>1, <1>2 DEF Probing
  <2> QED BY <1>4, <1>5, <1>6, <2>1, <2>2, Numbers
<1> QED BY <1>2, <1>5, <1>6, <1>7

-----------------------------------------------------------------------------
(* The pool: what a step does to its reservations and circuits *)

\* The circuit of a route, and the reservations that may still be released there:
\* none outlasts the cooldown of an open circuit, and of a half-open one there is
\* only that of its probe.
RouteFits(r) ==
    /\ ShapeOf(circuit[r])
    /\ circuit[r].state = "half-open" => circuit[r].left = 0
    /\ \A i \in Id : reservation[i] # None /\ reservation[i].route = r =>
         /\ circuit[r].state = "open" => reservation[i].left <= circuit[r].left
         /\ circuit[r].state = "half-open" => circuit[r].probe = i

RouteCircuits == \A r \in Route : RouteFits(r)

PoolTyped == circuit \in [Route -> Circuit] /\ reservation \in [Id -> Reservation \cup {None}]

\* A circuit that loses its probe.
LEMMA ProbeLost ==
    ASSUME NEW c \in Circuit, ShapeOf(c), NEW p \in Id \cup {None},
           c.state # "half-open" => p = None
    PROVE  LET n == [c EXCEPT !.probe = p] IN
           /\ n \in Circuit /\ ShapeOf(n)
           /\ n.state = c.state /\ n.left = c.left /\ n.failures = c.failures /\ n.probe = p
<1> DEFINE n == [c EXCEPT !.probe = p]
<1>1. n \in Circuit
  BY DEF Circuit
<1>2. n.state = c.state /\ n.left = c.left /\ n.failures = c.failures /\ n.probe = p
  BY DEF Circuit
<1> HIDE DEF n
<1>3. ShapeOf(n)
  BY <1>2 DEF ShapeOf
<1> QED BY <1>1, <1>2, <1>3 DEF n

LEMMA ReservationFields ==
    ASSUME TypeOK, NEW i \in Id, reservation[i] # None
    PROVE  /\ reservation[i] \in Reservation /\ reservation[i].route \in Route
           /\ reservation[i].left \in 0..ReservationTicks
BY DEF TypeOK, Reservation

LEMMA ReleasedStep ==
    ASSUME TypeOK, RouteCircuits, NEW i \in Id, NEW outcome, Released(i, outcome)
    PROVE  /\ PoolTyped' /\ RouteCircuits'
           /\ reservation'[i] = None
           /\ \A k \in Id : k # i => reservation'[k] = reservation[k]
           /\ \A q \in Route :
                \/ circuit'[q] = circuit[q]
                \/ circuit[q].state = "half-open" => circuit[q].probe = i
<1>1. circuit \in [Route -> Circuit] /\ reservation \in [Id -> Reservation \cup {None}]
  BY DEF TypeOK
<1>2. CASE reservation[i] = None
  <2>1. circuit' = circuit /\ reservation' = reservation
    BY <1>2 DEF Released
  <2>2. RouteCircuits'
    BY <2>1 DEF RouteCircuits, RouteFits
  <2> QED BY <1>1, <1>2, <2>1, <2>2 DEF PoolTyped
<1>3. CASE reservation[i] # None
  <2> DEFINE r == reservation[i].route
             c == circuit[r]
             probe == IF c.probe = i THEN None ELSE c.probe
             n == CASE outcome = "retryable-failure" -> Struck(c, Opens(c), probe)
                    [] outcome = "succeeded" -> [Closed EXCEPT !.probe = probe]
                    [] OTHER -> [c EXCEPT !.probe = probe]
  <2>1. r \in Route
    BY <1>3, ReservationFields
  <2>2. c \in Circuit /\ RouteFits(r) /\ ShapeOf(c)
    BY <1>1, <2>1 DEF RouteCircuits, RouteFits
  <2>3. c.state = "half-open" => c.probe = i
    BY <1>3, <2>2 DEF RouteFits
  <2>4. probe = None
    BY <2>2, <2>3 DEF ShapeOf
  <2>5. /\ reservation' = [reservation EXCEPT ![i] = None]
        /\ circuit' = [circuit EXCEPT ![r] = n]
    BY <1>3 DEF Released
  <2>0. /\ outcome = "retryable-failure" => n = Struck(c, Opens(c), None)
        /\ outcome = "succeeded" => n = [Closed EXCEPT !.probe = None]
        /\ outcome \notin {"retryable-failure", "succeeded"} => n = [c EXCEPT !.probe = None]
    BY <2>4
  <2> HIDE DEF n, c, probe
  <2>6. /\ n \in Circuit /\ ShapeOf(n)
        /\ n.state = "half-open" => c.state = "half-open" /\ n.left = c.left
        /\ n.state = "open" => n.left = CooldownTicks \/ (c.state = "open" /\ n.left = c.left)
    <3>1. CASE outcome = "retryable-failure"
      <4>1. n = Struck(c, Opens(c), None)
        BY <2>0, <3>1
      <4> QED BY <2>2, <4>1, StruckShape
    <3>2. CASE outcome = "succeeded"
      <4>1. n = Closed
        BY <2>0, <3>2 DEF Closed
      <4> QED BY <4>1, ClosedIsTyped, ClosedShape DEF Closed
    <3>3. CASE outcome \notin {"retryable-failure", "succeeded"}
      <4>1. n = [c EXCEPT !.probe = None]
        BY <2>0, <3>3
      <4>2. /\ n \in Circuit /\ ShapeOf(n) /\ n.state = c.state /\ n.left = c.left
        BY <2>2, <4>1, ProbeLost
      <4> QED BY <4>2
    <3> QED BY <3>1, <3>2, <3>3
  <2> USE DEF c
  <2>7. PoolTyped'
    BY <1>1, <2>1, <2>5, <2>6 DEF PoolTyped
  <2>8. reservation'[i] = None /\ \A k \in Id : k # i => reservation'[k] = reservation[k]
    BY <1>1, <2>5
  <2>9. circuit'[r] = n /\ \A q \in Route : q # r => circuit'[q] = circuit[q]
    BY <1>1, <2>1, <2>5
  <2>10. ASSUME NEW q \in Route
         PROVE  RouteFits(q)'
    <3>1. RouteFits(q)
      BY DEF RouteCircuits
    <3>2. ASSUME NEW k \in Id, reservation'[k] # None
          PROVE  k # i /\ reservation'[k] = reservation[k] /\ reservation[k] # None
      BY <2>8, <3>2
    <3>3. CASE q # r
      BY <2>9, <3>1, <3>2, <3>3 DEF RouteFits
    <3>4. CASE q = r
      <4>1. ASSUME NEW k \in Id, reservation'[k] # None, reservation'[k].route = r
            PROVE  /\ n.state = "open" => reservation'[k].left <= n.left
                   /\ n.state = "half-open" => n.probe = k
        <5>1. /\ k # i /\ reservation'[k] = reservation[k] /\ reservation[k] # None
              /\ reservation[k].route = r
          BY <3>2, <4>1
        <5>2. /\ c.state = "open" => reservation[k].left <= c.left
              /\ c.state = "half-open" => c.probe = k
          BY <2>2, <5>1 DEF RouteFits
        <5>3. reservation[k].left \in 0..ReservationTicks
          BY <5>1, ReservationFields
        <5>4. reservation[k].left <= CooldownTicks
          BY <5>3, TimingAssumption
        <5>5. n.state # "half-open"
          BY <2>3, <2>6, <5>1, <5>2
        <5> QED BY <2>6, <5>1, <5>2, <5>4, <5>5
      <4>2. n.state = "half-open" => n.left = 0
        BY <2>2, <2>6 DEF RouteFits
      <4> QED BY <2>6, <2>9, <3>4, <4>1, <4>2 DEF RouteFits
    <3> QED BY <3>3, <3>4
  <2>11. \A q \in Route : \/ circuit'[q] = circuit[q]
                          \/ circuit[q].state = "half-open" => circuit[q].probe = i
    BY <2>3, <2>9
  <2>12. RouteCircuits'
    BY <2>10 DEF RouteCircuits
  <2> QED BY <2>7, <2>8, <2>11, <2>12
<1> QED BY <1>2, <1>3

\* Half-open circuits of a pool keep a probe whose reservation is alive.
LEMMA GrantedStep ==
    ASSUME TypeOK, RouteCircuits, NEW r \in Route, NEW i \in Id, RouteAdmits(r), Granted(r, i)
    PROVE  /\ PoolTyped' /\ RouteCircuits'
           /\ reservation'[i] # None /\ reservation'[i].route = r
           /\ reservation'[i].left = ReservationTicks
           /\ \A k \in Id : k # i =>
                reservation'[k] = IF InPool(k, PoolOf[r]) /\ ~Live(k) THEN None ELSE reservation[k]
           /\ \A q \in Route :
                \/ circuit'[q] = circuit[q]
                \/ circuit[q].state = "half-open" => RouteProbe(q) # circuit[q].probe
                \/ circuit[q].probe = None
<1> DEFINE new == [route |-> r, left |-> ReservationTicks]
           half(q) == [circuit[q] EXCEPT !.state = "half-open", !.left = 0, !.probe = i]
           pruned(q) == [circuit[q] EXCEPT !.probe = RouteProbe(q)]
<1>1. circuit \in [Route -> Circuit] /\ reservation \in [Id -> Reservation \cup {None}]
  BY DEF TypeOK
<1>2. ReservationTicks \in 0..ReservationTicks
  BY Numbers
<1>3. /\ new \in Reservation /\ new # None
      /\ new.route = r /\ new.left = ReservationTicks
  <2>1. new \in Reservation
    BY <1>2 DEF Reservation
  <2> QED BY <2>1, NoneIsNone
<1>4. \A k \in Id : reservation'[k] =
        IF k = i THEN new
        ELSE IF InPool(k, PoolOf[r]) /\ ~Live(k) THEN None ELSE reservation[k]
  BY DEF Granted
<1>5. \A q \in Route : circuit'[q] =
        IF q = r /\ circuit[q].state # "closed" THEN half(q)
        ELSE IF PoolOf[q] = PoolOf[r] THEN pruned(q) ELSE circuit[q]
  BY DEF Granted
<1>6. ASSUME NEW q \in Route
      PROVE  /\ RouteProbe(q) \in Id \cup {None}
             /\ circuit[q].state # "half-open" => RouteProbe(q) = None
             /\ circuit[q] \in Circuit /\ RouteFits(q) /\ ShapeOf(circuit[q])
  <2>1. circuit[q] \in Circuit /\ RouteFits(q) /\ ShapeOf(circuit[q])
    BY <1>1 DEF RouteCircuits, RouteFits
  <2>2. circuit[q].probe \in Id \cup {None}
    BY <2>1 DEF Circuit
  <2>3. RouteProbe(q) \in {None, circuit[q].probe}
    BY DEF RouteProbe
  <2>4. circuit[q].state # "half-open" => circuit[q].probe = None
    BY <2>1 DEF ShapeOf
  <2> QED BY <2>1, <2>2, <2>3, <2>4
<1>7. ASSUME NEW q \in Route, circuit[q].state # "closed"
      PROVE  /\ half(q) \in Circuit /\ ShapeOf(half(q))
             /\ half(q).state = "half-open" /\ half(q).left = 0 /\ half(q).probe = i
  <2>1. circuit[q] \in Circuit /\ ShapeOf(circuit[q])
    BY <1>6
  <2>2. half(q) \in Circuit
    BY <2>1, Numbers DEF Circuit
  <2>3. /\ half(q).state = "half-open" /\ half(q).left = 0 /\ half(q).probe = i
        /\ half(q).failures = circuit[q].failures
    BY <2>1 DEF Circuit
  <2> HIDE DEF half
  <2>4. ShapeOf(half(q))
    BY <1>7, <2>1, <2>3 DEF ShapeOf
  <2> QED BY <2>2, <2>3, <2>4
<1>8. ASSUME NEW q \in Route
      PROVE  /\ pruned(q) \in Circuit /\ ShapeOf(pruned(q))
             /\ pruned(q).state = circuit[q].state /\ pruned(q).left = circuit[q].left
             /\ pruned(q).probe = RouteProbe(q)
  BY <1>6, ProbeLost
<1> HIDE DEF half, pruned, new
<1>9. PoolTyped'
  <2>1. circuit' \in [Route -> Circuit]
    <3>1. circuit' = [q \in Route |-> circuit'[q]]
      BY DEF Granted
    <3>2. \A q \in Route : circuit'[q] \in Circuit
      BY <1>5, <1>6, <1>7, <1>8
    <3> QED BY <3>1, <3>2
  <2>2. reservation' \in [Id -> Reservation \cup {None}]
    <3>1. reservation' = [k \in Id |-> reservation'[k]]
      BY DEF Granted
    <3>2. \A k \in Id : reservation'[k] \in Reservation \cup {None}
      BY <1>1, <1>3, <1>4
    <3> QED BY <3>1, <3>2
  <2> QED BY <2>1, <2>2 DEF PoolTyped
\* Another reservation that remains on a route of the pool is alive.
<1>10. ASSUME NEW k \in Id, k # i, reservation'[k] # None
       PROVE  /\ reservation'[k] = reservation[k] /\ reservation[k] # None
              /\ PoolOf[reservation[k].route] = PoolOf[r] => Live(k)
  BY <1>4, <1>10 DEF InPool
<1>11. ASSUME NEW q \in Route
       PROVE  RouteFits(q)'
  <2>1. CASE q = r /\ circuit[q].state # "closed"
    <3>1. circuit'[q] = half(q)
      BY <1>5, <2>1
    <3>2. ASSUME NEW k \in Id, reservation'[k] # None, reservation'[k].route = q
          PROVE  k = i
      <4> SUFFICES ASSUME k # i PROVE FALSE
        OBVIOUS
      <4>1. reservation[k] # None /\ reservation[k].route = r /\ Live(k)
        BY <1>10, <2>1, <3>2
      <4>2. circuit[r].left = 0 /\ RouteProbe(r) = None
        BY <2>1 DEF RouteAdmits
      <4>3. /\ circuit[r].state = "open" => reservation[k].left <= circuit[r].left
            /\ circuit[r].state = "half-open" => circuit[r].probe = k
        BY <1>6, <4>1 DEF RouteFits
      <4>4. reservation[k].left \in 0..ReservationTicks
        BY <4>1, ReservationFields
      <4>5. CASE circuit[r].state = "open"
        BY <4>1, <4>2, <4>3, <4>4, <4>5, Numbers DEF Live
      <4>6. CASE circuit[r].state = "half-open"
        <5>1. circuit[r].probe = k /\ k # None
          BY <4>3, <4>6, NoneIsNone
        <5>2. RouteProbe(r) = k
          BY <4>1, <5>1 DEF RouteProbe
        <5> QED BY <4>2, <5>1, <5>2
      <4>7. circuit[r].state \in {"open", "half-open"}
        BY <1>6, <2>1 DEF Circuit
      <4> QED BY <4>5, <4>6, <4>7
    <3> QED BY <1>7, <2>1, <3>1, <3>2 DEF RouteFits
  <2>2. CASE ~(q = r /\ circuit[q].state # "closed") /\ PoolOf[q] = PoolOf[r]
    <3>1. circuit'[q] = pruned(q)
      BY <1>5, <2>2
    <3>2. ASSUME NEW k \in Id, reservation'[k] # None, reservation'[k].route = q,
                 circuit[q].state # "closed"
          PROVE  /\ circuit[q].state = "open" => reservation'[k].left <= circuit[q].left
                 /\ circuit[q].state = "half-open" => RouteProbe(q) = k
      <4>1. k # i
        BY <1>3, <1>4, <2>2, <3>2
      <4>2. reservation'[k] = reservation[k] /\ reservation[k] # None /\ Live(k)
        BY <1>10, <2>2, <3>2, <4>1
      <4>3. /\ circuit[q].state = "open" => reservation[k].left <= circuit[q].left
            /\ circuit[q].state = "half-open" => circuit[q].probe = k
        BY <1>6, <3>2, <4>2 DEF RouteFits
      <4>4. circuit[q].state = "half-open" => RouteProbe(q) = k
        BY <4>2, <4>3 DEF RouteProbe
      <4> QED BY <4>2, <4>3, <4>4
    <3>3. circuit[q].state = "half-open" => circuit[q].left = 0
      BY <1>6 DEF RouteFits
    <3> QED BY <1>8, <3>1, <3>2, <3>3 DEF RouteFits
  <2>3. CASE q # r /\ PoolOf[q] # PoolOf[r]
    <3>1. circuit'[q] = circuit[q]
      BY <1>5, <2>3
    <3>2. ASSUME NEW k \in Id, reservation'[k] # None, reservation'[k].route = q
          PROVE  reservation'[k] = reservation[k] /\ reservation[k] # None
      BY <1>3, <1>4, <1>10, <2>3, <3>2
    <3> QED BY <1>6, <3>1, <3>2 DEF RouteFits
  <2> QED BY <2>1, <2>2, <2>3
<1>12. ASSUME NEW q \in Route
       PROVE  \/ circuit'[q] = circuit[q]
              \/ circuit[q].state = "half-open" => RouteProbe(q) # circuit[q].probe
              \/ circuit[q].probe = None
  <2> SUFFICES ASSUME circuit[q].state = "half-open", RouteProbe(q) = circuit[q].probe,
                      circuit[q].probe # None
               PROVE  circuit'[q] = circuit[q]
    OBVIOUS
  <2>1. q # r
    BY DEF RouteAdmits
  <2>2. pruned(q) = circuit[q]
    <3>1. circuit[q] = [circuit[q] EXCEPT !.probe = circuit[q].probe]
      BY <1>6 DEF Circuit
    <3> QED BY <3>1 DEF pruned
  <2> QED BY <1>5, <2>1, <2>2
<1> QED BY <1>3, <1>4, <1>9, <1>11, <1>12 DEF RouteCircuits

\* A new execution takes nothing away that is alive.
LEMMA StartStep ==
    ASSUME TypeOK, RouteCircuits, NEW x \in Execution, Start(x)
    PROVE  /\ PoolTyped' /\ RouteCircuits'
           /\ \A k \in Id :
                reservation'[k] = IF OfExecution(k, x) THEN None ELSE reservation[k]
           /\ \A q \in Route :
                \/ circuit'[q] = circuit[q]
                \/ circuit[q].probe # None /\ ~Live(circuit[q].probe)
<1> DEFINE forgotten(q) == [circuit[q] EXCEPT !.probe = None]
<1>1. circuit \in [Route -> Circuit] /\ reservation \in [Id -> Reservation \cup {None}]
  BY DEF TypeOK
<1>2. \A k \in Id : reservation'[k] = IF OfExecution(k, x) THEN None ELSE reservation[k]
  BY DEF Start
<1>3. \A q \in Route : circuit'[q] =
        IF OfExecution(circuit[q].probe, x) THEN forgotten(q) ELSE circuit[q]
  BY DEF Start
<1>4. ASSUME NEW q \in Route
      PROVE  /\ circuit[q] \in Circuit /\ RouteFits(q) /\ ShapeOf(circuit[q])
             /\ forgotten(q) \in Circuit /\ ShapeOf(forgotten(q))
             /\ forgotten(q).state = circuit[q].state /\ forgotten(q).left = circuit[q].left
  <2>1. circuit[q] \in Circuit /\ RouteFits(q) /\ ShapeOf(circuit[q])
    BY <1>1 DEF RouteCircuits, RouteFits
  <2> QED BY <2>1, ProbeLost
<1> HIDE DEF forgotten
<1>5. PoolTyped'
  <2>1. circuit' \in [Route -> Circuit]
    BY <1>3, <1>4 DEF Start
  <2>2. reservation' \in [Id -> Reservation \cup {None}]
    BY <1>1 DEF Start
  <2> QED BY <2>1, <2>2 DEF PoolTyped
<1>6. ASSUME NEW q \in Route
      PROVE  RouteFits(q)'
  <2>1. ASSUME NEW k \in Id, reservation'[k] # None
        PROVE  ~OfExecution(k, x) /\ reservation'[k] = reservation[k] /\ reservation[k] # None
    BY <1>2, <2>1
  <2>2. CASE OfExecution(circuit[q].probe, x)
    <3>1. circuit'[q] = forgotten(q)
      BY <1>3, <2>2
    <3>2. circuit[q].state = "half-open"
      BY <2>2 DEF Start
    <3>3. ASSUME NEW k \in Id, reservation'[k] # None, reservation'[k].route = q
          PROVE  FALSE
      <4>1. reservation[k] # None /\ reservation[k].route = q /\ ~OfExecution(k, x)
        BY <2>1, <3>3
      <4>2. circuit[q].probe = k
        BY <1>4, <3>2, <4>1 DEF RouteFits
      <4> QED BY <2>2, <4>1, <4>2
    <3> QED BY <1>4, <3>1, <3>2, <3>3 DEF RouteFits
  <2>3. CASE ~OfExecution(circuit[q].probe, x)
    <3>1. circuit'[q] = circuit[q]
      BY <1>3, <2>3
    <3> QED BY <1>4, <2>1, <3>1 DEF RouteFits
  <2> QED BY <2>2, <2>3
<1>7. ASSUME NEW q \in Route, OfExecution(circuit[q].probe, x)
      PROVE  circuit[q].probe # None /\ ~Live(circuit[q].probe)
  BY <1>7 DEF OfExecution, Start
<1> QED BY <1>2, <1>3, <1>5, <1>6, <1>7 DEF RouteCircuits

LEMMA PoolStep ==
    ASSUME TypeOK, Phases, RouteCircuits, NEW x \in Execution, PoolMoved(x)
    PROVE  PoolTyped' /\ RouteCircuits'
<1>1. IdOf(x) \in Id /\ Candidate(x) \in Route
  BY Candidates
<1>2. CASE UNCHANGED <<circuit, reservation>>
  BY <1>2 DEF TypeOK, PoolTyped, RouteCircuits, RouteFits
<1>3. CASE Start(x)
  BY <1>3, StartStep
<1>4. CASE RouteAdmits(Candidate(x)) /\ Granted(Candidate(x), IdOf(x))
  BY <1>1, <1>4, GrantedStep
<1>5. CASE Released(IdOf(x), execution[x].release)
  BY <1>1, <1>5, ReleasedStep
<1> QED BY <1>2, <1>3, <1>4, <1>5 DEF PoolMoved

LEMMA TickCircuits ==
    ASSUME TypeOK, DomainCircuits, RouteCircuits, Tick
    PROVE  DomainCircuits' /\ RouteCircuits'
<1>1. DomainCircuits'
  BY TickKeeps DEF DomainCircuits, ShapeOf
<1>2. ASSUME NEW r \in Route
      PROVE  RouteFits(r)'
  <2>1. RouteFits(r) /\ circuit[r] \in Circuit
    BY DEF RouteCircuits, TypeOK
  <2>2. /\ circuit'[r].state = circuit[r].state /\ circuit'[r].probe = circuit[r].probe
        /\ circuit'[r].failures = circuit[r].failures
        /\ circuit'[r].left = Less(circuit[r].left)
    BY TickKeeps
  <2>3. ShapeOf(circuit'[r])
    BY <2>1, <2>2 DEF RouteFits, ShapeOf
  <2>4. circuit[r].left = 0 => circuit'[r].left = 0
    BY <2>2 DEF Less
  <2>5. ASSUME NEW i \in Id, reservation'[i] # None, reservation'[i].route = r
        PROVE  /\ circuit'[r].state = "open" => reservation'[i].left <= circuit'[r].left
               /\ circuit'[r].state = "half-open" => circuit'[r].probe = i
    <3>1. /\ reservation[i] # None /\ reservation[i].route = r
          /\ reservation'[i].left = Less(reservation[i].left)
      BY <2>5, TickKeeps
    <3>2. /\ circuit[r].state = "open" => reservation[i].left <= circuit[r].left
          /\ circuit[r].state = "half-open" => circuit[r].probe = i
      BY <2>1, <3>1 DEF RouteFits
    <3>3. reservation[i].left \in Nat /\ circuit[r].left \in Nat
      BY <2>1, <3>1, ReservationFields, Numbers DEF Circuit
    <3> QED BY <2>2, <3>1, <3>2, <3>3, LessIsLess
  <2> QED BY <2>1, <2>2, <2>3, <2>4, <2>5 DEF RouteFits
<1> QED BY <1>1, <1>2 DEF RouteCircuits

-----------------------------------------------------------------------------
(* The limit of a pool *)

\* The reservations that count in a pool.
InUse(p) == {i \in Id : Live(i) /\ InPool(i, p)}

PoolsFit ==
    \A p \in Pool : IsFiniteSet(InUse(p)) /\ Cardinality(InUse(p)) <= MaxConcurrency

LEMMA FewerFit ==
    ASSUME NEW S, IsFiniteSet(S), Cardinality(S) <= MaxConcurrency, NEW T, T \subseteq S
    PROVE  IsFiniteSet(T) /\ Cardinality(T) <= MaxConcurrency
<1>1. IsFiniteSet(T) /\ Cardinality(T) <= Cardinality(S)
  BY FS_Subset
<1>2. Cardinality(T) \in Nat /\ Cardinality(S) \in Nat
  BY <1>1, FS_CardinalityType
<1> QED BY <1>1, <1>2, Numbers

LEMMA OneMoreFits ==
    ASSUME NEW S, IsFiniteSet(S), Cardinality(S) < MaxConcurrency, NEW i,
           NEW T, T \subseteq S \cup {i}
    PROVE  IsFiniteSet(T) /\ Cardinality(T) <= MaxConcurrency
<1>1. IsFiniteSet(S \cup {i}) /\ Cardinality(S \cup {i}) <= Cardinality(S) + 1
  <2>1. /\ IsFiniteSet(S \cup {i})
        /\ Cardinality(S \cup {i}) = IF i \in S THEN Cardinality(S) ELSE Cardinality(S) + 1
    BY FS_AddElement
  <2>2. Cardinality(S) \in Nat
    BY FS_CardinalityType
  <2> QED BY <2>1, <2>2
<1>2. Cardinality(S \cup {i}) <= MaxConcurrency
  <2>1. Cardinality(S \cup {i}) \in Nat /\ Cardinality(S) \in Nat
    BY <1>1, FS_CardinalityType
  <2> QED BY <1>1, <2>1, Numbers
<1> QED BY <1>1, <1>2, FewerFit

LEMMA FitsStep ==
    ASSUME TypeOK, Phases, RouteCircuits, PoolsFit, NEW x \in Execution, PoolMoved(x)
    PROVE  PoolsFit'
<1>1. IdOf(x) \in Id /\ Candidate(x) \in Route
  BY Candidates
<1>2. ASSUME \A k \in Id : reservation'[k] \in {None, reservation[k]}
      PROVE  PoolsFit'
  <2>1. ASSUME NEW p \in Pool
        PROVE  InUse(p)' \subseteq InUse(p)
    BY <1>2 DEF InUse, Live, InPool
  <2> QED BY <2>1, FewerFit DEF PoolsFit
<1>3. CASE UNCHANGED <<circuit, reservation>>
  BY <1>2, <1>3
<1>4. CASE Start(x)
  BY <1>2, <1>4, StartStep
<1>5. CASE /\ RouteAdmits(Candidate(x)) /\ HasRoom(Candidate(x))
           /\ Granted(Candidate(x), IdOf(x))
  <2> DEFINE i == IdOf(x)
             r == Candidate(x)
  <2>1. /\ reservation'[i] # None /\ reservation'[i].route = r
        /\ \A k \in Id : k # i => reservation'[k] \in {None, reservation[k]}
    BY <1>1, <1>5, GrantedStep
  <2>2. Cardinality(InUse(PoolOf[r])) < MaxConcurrency
    BY <1>5 DEF HasRoom, InUse
  <2> HIDE DEF i, r
  <2>3. ASSUME NEW p \in Pool, p = PoolOf[r]
        PROVE  IsFiniteSet(InUse(p)') /\ Cardinality(InUse(p)') <= MaxConcurrency
    <3>1. InUse(p)' \subseteq InUse(p) \cup {i}
      BY <2>1 DEF InUse, Live, InPool
    <3> QED BY <2>2, <2>3, <3>1, OneMoreFits DEF PoolsFit
  <2>4. ASSUME NEW p \in Pool, p # PoolOf[r]
        PROVE  IsFiniteSet(InUse(p)') /\ Cardinality(InUse(p)') <= MaxConcurrency
    <3>1. InUse(p)' \subseteq InUse(p)
      BY <2>1, <2>4 DEF InUse, Live, InPool
    <3> QED BY <3>1, FewerFit DEF PoolsFit
  <2> QED BY <2>3, <2>4 DEF PoolsFit
<1>6. CASE Released(IdOf(x), execution[x].release)
  <2>1. \A k \in Id : reservation'[k] \in {None, reservation[k]}
    BY <1>1, <1>6, ReleasedStep
  <2> QED BY <1>2, <2>1
<1> QED BY <1>3, <1>4, <1>5, <1>6 DEF PoolMoved

\* A call in flight has its reservation, for as long as it may last.
CallsAreReserved ==
    \A x \in Execution : execution[x].pc = "invoke" =>
        /\ reservation[IdOf(x)] # None
        /\ reservation[IdOf(x)].route = Candidate(x)
        /\ reservation[IdOf(x)].left + execution[x].age >= ReservationTicks

LEMMA CallsAreLive ==
    ASSUME TypeOK, Phases, CallsAreReserved, NEW x \in Execution, execution[x].pc = "invoke"
    PROVE  Live(IdOf(x)) /\ reservation[IdOf(x)].left \in Nat
<1>1. IdOf(x) \in Id
  BY Candidates
<1>2. /\ reservation[IdOf(x)] # None
      /\ reservation[IdOf(x)].left + execution[x].age >= ReservationTicks
  BY DEF CallsAreReserved
<1>3. reservation[IdOf(x)].left \in 0..ReservationTicks /\ execution[x].age \in 0..AttemptTicks
  BY <1>1, <1>2, ReservationFields, StateFields DEF TypeOK
<1> QED BY <1>2, <1>3, TimingAssumption DEF Live

LEMMA CallsStep ==
    ASSUME TypeOK, Phases, RouteCircuits, CallsAreReserved, NEW x \in Execution, Steps(x)
    PROVE  CallsAreReserved'
<1>1. Moved(x) /\ PoolMoved(x)
  BY Moves, DocumentsMove
<1>2. SUFFICES ASSUME NEW y \in Execution, execution'[y].pc = "invoke"
               PROVE  /\ reservation'[IdOf(y)'] # None
                      /\ reservation'[IdOf(y)'].route = Candidate(y)'
                      /\ reservation'[IdOf(y)'].left + execution'[y].age >= ReservationTicks
  BY DEF CallsAreReserved
<1>3. IdOf(x) \in Id /\ Candidate(x) \in Route
  BY Candidates
<1>4. CASE y # x
  <2>1. execution'[y] = execution[y]
    BY <1>1, <1>4 DEF Moved
  <2>2. Candidate(y)' = Candidate(y) /\ IdOf(y)' = IdOf(y) /\ execution[y].pc = "invoke"
    BY <1>2, <2>1 DEF Candidate, IdOf
  <2>3. IdOf(y) \in Id /\ IdOf(y) # IdOf(x) /\ ~OfExecution(IdOf(y), x)
    BY <1>4, Candidates DEF IdOf, OfExecution
  <2>4. Live(IdOf(y))
    BY <2>2, CallsAreLive
  <2>5. reservation'[IdOf(y)] = reservation[IdOf(y)]
    <3>1. CASE UNCHANGED <<circuit, reservation>>
      BY <3>1
    <3>2. CASE Start(x)
      BY <2>3, <3>2, StartStep
    <3>3. CASE RouteAdmits(Candidate(x)) /\ Granted(Candidate(x), IdOf(x))
      BY <1>3, <2>3, <2>4, <3>3, GrantedStep
    <3>4. CASE Released(IdOf(x), execution[x].release)
      BY <1>3, <2>3, <3>4, ReleasedStep
    <3> QED BY <1>1, <3>1, <3>2, <3>3, <3>4 DEF PoolMoved
  <2> QED BY <2>1, <2>2, <2>5 DEF CallsAreReserved
<1>5. CASE y = x
  <2>1. Follows(x, execution'[x]) /\ execution'[x] \in ExecutionState
    BY <1>1 DEF Moved
  <2>2. ReserveProviderCall(x) /\ execution'[x].fallback = execution[x].fallback
    BY <1>2, <1>5, <2>1 DEF Follows
  <2>3. Candidate(x)' = Candidate(x) /\ IdOf(x)' = IdOf(x)
    BY <2>2 DEF Candidate, IdOf
  <2>4. /\ reservation'[IdOf(x)] # None /\ reservation'[IdOf(x)].route = Candidate(x)
        /\ reservation'[IdOf(x)].left = ReservationTicks
    BY <1>3, <2>2, GrantedStep DEF ReserveProviderCall
  <2>5. execution'[x].age \in 0..AttemptTicks
    BY <2>1, StateFields
  <2>6. reservation'[IdOf(x)].left + execution'[x].age >= ReservationTicks
    BY <2>4, <2>5, Numbers
  <2> QED BY <1>5, <2>3, <2>4, <2>6
<1> QED BY <1>4, <1>5

LEMMA TickPools ==
    ASSUME TypeOK, Phases, PoolsFit, CallsAreReserved, Tick
    PROVE  PoolsFit' /\ CallsAreReserved'
<1>1. PoolsFit'
  <2>1. ASSUME NEW p \in Pool
        PROVE  InUse(p)' \subseteq InUse(p)
    <3> SUFFICES ASSUME NEW i \in Id, Live(i)', InPool(i, p)'
                 PROVE  Live(i) /\ InPool(i, p)
      BY DEF InUse
    <3>1. /\ reservation[i] # None
          /\ reservation'[i].route = reservation[i].route
          /\ reservation'[i].left = Less(reservation[i].left)
      BY TickKeeps DEF Live
    <3>2. reservation[i].left \in 0..ReservationTicks
      BY <3>1, ReservationFields
    <3>3. reservation[i].left > 0
      BY <3>1, <3>2, Numbers DEF Live, Less
    <3> QED BY <3>1, <3>3 DEF Live, InPool
  <2> QED BY <2>1, FewerFit DEF PoolsFit
<1>2. ASSUME NEW x \in Execution, execution'[x].pc = "invoke"
      PROVE  /\ reservation'[IdOf(x)'] # None
             /\ reservation'[IdOf(x)'].route = Candidate(x)'
             /\ reservation'[IdOf(x)'].left + execution'[x].age >= ReservationTicks
  <2> DEFINE i == IdOf(x)
  <2>1. /\ execution[x].pc = "invoke" /\ execution'[x].fallback = execution[x].fallback
        /\ execution'[x].age = execution[x].age + 1
    BY <1>2, TickKeeps DEF Attempting
  <2>2. Candidate(x)' = Candidate(x) /\ IdOf(x)' = IdOf(x)
    BY <2>1 DEF Candidate, IdOf
  <2>3. i \in Id
    BY Candidates
  <2>4. /\ reservation[i] # None /\ reservation[i].route = Candidate(x)
        /\ reservation[i].left + execution[x].age >= ReservationTicks
    BY <2>1 DEF CallsAreReserved
  <2>5. /\ reservation'[i] # None /\ reservation'[i].route = reservation[i].route
        /\ reservation'[i].left = Less(reservation[i].left)
    BY <2>3, <2>4, TickKeeps
  <2>6. reservation[i].left \in 0..ReservationTicks /\ execution[x].age \in 0..AttemptTicks
    BY <2>3, <2>4, ReservationFields, StateFields DEF TypeOK
  <2>7. Less(reservation[i].left) + 1 >= reservation[i].left /\ Less(reservation[i].left) \in Nat
    BY <2>6, Numbers, LessIsLess
  <2>8. reservation'[i].left + execution'[x].age >= ReservationTicks
    BY <2>1, <2>4, <2>5, <2>6, <2>7, Numbers
  <2> QED BY <2>2, <2>4, <2>5, <2>8
<1> QED BY <1>1, <1>2 DEF CallsAreReserved

-----------------------------------------------------------------------------
(* The invariant *)

IInv ==
    /\ TypeOK
    /\ Phases
    /\ DomainCircuits
    /\ ProbesAreHeld
    /\ RouteCircuits
    /\ PoolsFit
    /\ CallsAreReserved

LEMMA IInvInit ==
    ASSUME Init
    PROVE  IInv
<1>1. TypeOK
  <2>1. domain \in [Domain -> Circuit] /\ circuit \in [Route -> Circuit]
    BY ClosedIsTyped DEF Init
  <2>2. execution \in [Execution -> ExecutionState]
    BY IdleIsFine DEF Init
  <2>3. reservation \in [Id -> Reservation \cup {None}]
    BY DEF Init
  <2> QED BY <2>1, <2>2, <2>3 DEF TypeOK
<1>2. Phases
  BY IdleIsFine DEF Init, Phases
<1>3. DomainCircuits
  BY ClosedShape DEF Init, DomainCircuits
<1>4. ProbesAreHeld /\ CallsAreReserved
  BY DEF Init, ProbesAreHeld, Probing, Attempting, CallsAreReserved, Idle
<1>5. RouteCircuits
  BY ClosedShape DEF Init, RouteCircuits, RouteFits, Closed
<1>6. PoolsFit
  <2>1. ASSUME NEW p \in Pool
        PROVE  InUse(p) = {}
    BY DEF Init, InUse, Live
  <2>2. IsFiniteSet({}) /\ Cardinality({}) = 0
    BY FS_EmptySet
  <2> QED BY <2>1, <2>2, Numbers DEF PoolsFit
<1> QED BY <1>1, <1>2, <1>3, <1>4, <1>5, <1>6 DEF IInv

LEMMA IInvNext ==
    ASSUME IInv, [Next]_vars
    PROVE  IInv'
<1>1. TypeOK /\ Phases /\ DomainCircuits /\ ProbesAreHeld /\ RouteCircuits /\ PoolsFit
      /\ CallsAreReserved
  BY DEF IInv
<1>2. ASSUME NEW x \in Execution, Steps(x)
      PROVE  IInv'
  <2>1. Moved(x) /\ DomainMoved(x) /\ PoolMoved(x)
    BY <1>1, <1>2, Moves, DocumentsMove
  <2>2. domain' \in [Domain -> Circuit] /\ DomainCircuits'
    BY <1>1, <2>1, DomainStep
  <2>3. PoolTyped' /\ RouteCircuits'
    BY <1>1, <2>1, PoolStep
  <2>4. TypeOK'
    BY <2>1, <2>2, <2>3 DEF TypeOK, PoolTyped, Moved
  <2>5. Phases'
    <3>1. ASSUME NEW y \in Execution
          PROVE  PhaseOf(execution'[y])
      BY <1>1, <2>1 DEF Moved, Follows, Phases
    <3> QED BY <3>1 DEF Phases
  <2> QED BY <1>1, <1>2, <2>1, <2>2, <2>3, <2>4, <2>5, HeldStep, FitsStep, CallsStep DEF IInv
<1>3. CASE Tick
  BY <1>1, <1>3, TickTypes, TickPhases, TickHeld, TickCircuits, TickPools DEF IInv
<1>4. CASE UNCHANGED vars
  <2>1. /\ domain' = domain /\ circuit' = circuit /\ reservation' = reservation
        /\ execution' = execution
    BY <1>4 DEF vars
  <2>2. TypeOK' /\ Phases' /\ DomainCircuits'
    BY <1>1, <2>1 DEF TypeOK, Phases, DomainCircuits
  <2>3. ProbesAreHeld' /\ CallsAreReserved'
    BY <1>1, <2>1
       DEF ProbesAreHeld, CallsAreReserved, Probing, Attempting, Candidate, IdOf
  <2>4. RouteCircuits'
    BY <1>1, <2>1 DEF RouteCircuits, RouteFits
  <2>5. PoolsFit'
    BY <1>1, <2>1 DEF PoolsFit, InUse, Live, InPool
  <2> QED BY <2>2, <2>3, <2>4, <2>5 DEF IInv
<1> QED BY <1>2, <1>3, <1>4, NextSteps

LEMMA IInvAlways == Spec => []IInv
BY IInvInit, IInvNext, PTL DEF Spec

-----------------------------------------------------------------------------
(* The theorems *)

\* Documents and executions keep their types: no counter of a circuit grows past
\* its threshold, whatever outcomes arrive late.
THEOREM TypeCorrect == Spec => []TypeOK
<1>1. IInv => TypeOK
  BY DEF IInv
<1> QED BY <1>1, IInvAlways, PTL

\* The calls of a pool that are really in flight never exceed its limit: each has
\* a reservation of its own that is still alive.
THEOREM PoolLimit == Spec => []ConcurrencyHolds
<1>1. IInv => ConcurrencyHolds
  <2> SUFFICES ASSUME IInv, NEW p \in Pool
               PROVE  Cardinality({x \in Execution : execution[x].pc = "invoke"
                                      /\ PoolOf[Candidate(x)] = p}) <= MaxConcurrency
    BY DEF ConcurrencyHolds
  <2> DEFINE S == {x \in Execution : execution[x].pc = "invoke" /\ PoolOf[Candidate(x)] = p}
             f == [x \in S |-> IdOf(x)]
  <2>1. ASSUME NEW x \in S
        PROVE  IdOf(x) \in InUse(p)
    <3>1. IdOf(x) \in Id /\ Live(IdOf(x)) /\ reservation[IdOf(x)].route = Candidate(x)
      BY Candidates, CallsAreLive DEF IInv, CallsAreReserved
    <3> QED BY <3>1 DEF InUse, InPool, Live
  <2>2. \A x, y \in S : IdOf(x) = IdOf(y) => x = y
    BY DEF IdOf
  <2>3. f \in Injection(S, InUse(p))
    <3>1. f \in [S -> InUse(p)]
      BY <2>1
    <3>2. \A x, y \in S : f[x] = f[y] => x = y
      BY <2>2
    <3> QED BY <3>1, <3>2 DEF Injection, IsInjective
  <2>4. IsFiniteSet(InUse(p)) /\ Cardinality(InUse(p)) <= MaxConcurrency
    BY DEF IInv, PoolsFit
  <2>5. IsFiniteSet(S) /\ Cardinality(S) <= Cardinality(InUse(p))
    BY <2>3, <2>4, FS_Injection
  <2>6. Cardinality(S) \in Nat /\ Cardinality(InUse(p)) \in Nat
    BY <2>4, <2>5, FS_CardinalityType
  <2> QED BY <2>4, <2>5, <2>6, Numbers
<1> QED BY <1>1, IInvAlways, PTL

\* A failing provider is probed by one execution at a time, and no circuit is left
\* in a state that nothing can close again.
THEOREM CircuitsAreSound == Spec => []CircuitsHold
<1>1. IInv => CircuitsHold
  <2> SUFFICES ASSUME IInv PROVE CircuitsHold
    OBVIOUS
  <2>1. ASSUME NEW x \in Execution, NEW y \in Execution, Probing(x), Probing(y),
               DomainOf[Candidate(x)] = DomainOf[Candidate(y)]
        PROVE  x = y
    <3>1. IdOf(x) = IdOf(y)
      BY <2>1 DEF IInv, ProbesAreHeld
    <3> QED BY <3>1 DEF IdOf
  <2>2. OneProbe
    BY <2>1 DEF OneProbe, Probing
  <2>3. CircuitShape
    BY DEF IInv, DomainCircuits, RouteCircuits, RouteFits, ShapeOf, CircuitShape
  <2> QED BY <2>2, <2>3 DEF CircuitsHold
<1> QED BY <1>1, IInvAlways, PTL

\* Telling an outcome changes what an execution has to tell.
LEMMA ReportsOnce ==
    ASSUME TypeOK, NEW x \in Execution, ReportProviderDomain(x) \/ ReportFails(x)
    PROVE  execution'[x] # execution[x]
<1> DEFINE e == execution[x]
           s == [e EXCEPT !.report = "none"]
<1>1. e.report # "none" /\ e \in ExecutionState /\ execution \in [Execution -> ExecutionState]
  BY DEF ReportProviderDomain, ReportFails, MayReport, TypeOK
<1>2. ASSUME NEW t \in ExecutionState, t.report # e.report, Become(x, t)
      PROVE  execution'[x] # execution[x]
  <2> DEFINE n == IF t.pc = "late" /\ t.release = "none" /\ t.report = "none" THEN Idle ELSE t
  <2>1. execution' = [execution EXCEPT ![x] = n]
    BY <1>2 DEF Become
  <2>2. n.report # e.report
    BY <1>1, <1>2 DEF Idle
  <2> HIDE DEF n
  <2> QED BY <1>1, <2>1, <2>2
<1>3. CASE Become(x, s)
  <2>1. s \in ExecutionState /\ s.report = "none"
    BY <1>1 DEF ExecutionState
  <2> QED BY <1>1, <1>2, <1>3, <2>1
<1>4. CASE Become(x, Idle)
  <2>1. Idle.report = "none"
    BY DEF Idle
  <2> QED BY <1>1, <1>2, <1>4, <2>1, IdleIsFine
<1>5. ASSUME NEW f \in Fallback, Try(x, f)
      PROVE  execution'[x] # execution[x]
  <2> DEFINE t == [e EXCEPT !.pc = "admit", !.fallback = f, !.age = 0,
                            !.release = "none", !.report = "none", !.probe = FALSE]
  <2>1. Become(x, t)
    BY <1>5 DEF Try
  <2>2. t \in ExecutionState /\ t.report = "none"
    BY <1>1, TriedState
  <2> HIDE DEF t
  <2> QED BY <1>1, <1>2, <2>1, <2>2
<1>6. CASE e.report = "succeeded" /\ Settle(x, "none", "cancelled", "final")
  <2> DEFINE t == [e EXCEPT !.pc = "settle", !.release = "none", !.report = "cancelled",
                            !.failure = "final"]
  <2>1. Become(x, t)
    BY <1>6 DEF Settle
  <2>2. t \in ExecutionState /\ t.report = "cancelled"
    BY <1>1 DEF ExecutionState, Reports
  <2> HIDE DEF t
  <2> QED BY <1>2, <1>6, <2>1, <2>2
<1> QED BY <1>3, <1>4, <1>5, <1>6
       DEF ReportProviderDomain, ReportFails, Continue, Fallback

\* How a step of x changes the circuit of a domain.
LEMMA DomainChanges ==
    ASSUME TypeOK, Phases, DomainCircuits, NEW x \in Execution, Steps(x),
           NEW d \in Domain, domain'[d] # domain[d]
    PROVE  /\ d = DomainOf[Candidate(x)]
           /\ \/ DomainAdmits(d) /\ DomainAdmitted(d, IdOf(x))
              \/ /\ domain'[d] = DomainOutcome(d, IdOf(x), execution[x].report)
                 /\ execution'[x] # execution[x]
<1> DEFINE q == DomainOf[Candidate(x)]
           n == DomainOutcome(q, IdOf(x), execution[x].report)
<1>1. q \in Domain /\ IdOf(x) \in Id /\ domain \in [Domain -> Circuit]
  BY Candidates DEF TypeOK
<1>2. domain' # domain
  OBVIOUS
<1>3. CASE DomainAdmits(q) /\ DomainAdmitted(q, IdOf(x))
  <2>1. d = q
    BY <1>1, <1>3, AdmissionOfDomain
  <2> QED BY <1>3, <2>1
<1>4. CASE domain' = [domain EXCEPT ![q] = n] /\ (ReportProviderDomain(x) \/ ReportFails(x))
  <2>1. execution'[x] # execution[x]
    BY <1>4, ReportsOnce
  <2>2. d = q /\ domain'[q] = n
    <3> HIDE DEF q, n
    <3> QED BY <1>1, <1>4
  <2> QED BY <2>1, <2>2
<1>5. CASE AdmitProviderDomain(x) \/ DomainFails(x)
  BY <1>2, <1>3, <1>5 DEF AdmitProviderDomain, DomainFails
<1>6. CASE ReportProviderDomain(x) \/ ReportFails(x)
  BY <1>2, <1>4, <1>6 DEF ReportProviderDomain, ReportFails
<1>7. AdmitProviderDomain(x) \/ DomainFails(x) \/ ReportProviderDomain(x) \/ ReportFails(x)
  BY <1>2
     DEF Steps, Advance, Start, Abort, Crash, DomainDenies, ReserveProviderCall,
         ReservationDenied, ReservationFails, CallEnds, ReleaseProviderCall, ReleaseFails
<1> QED BY <1>5, <1>6, <1>7

LEMMA DomainProbeDecides ==
    ASSUME TypeOK, Phases, DomainCircuits, NEW x \in Execution, Steps(x), NEW d \in Domain,
           domain[d].state = "half-open", domain[d].probe # None, domain[d].left > 0,
           domain'[d] # domain[d]
    PROVE  domain[d].probe[1] = x /\ execution'[x] # execution[x]
<1>1. d = DomainOf[Candidate(x)] /\ IdOf(x) \in Id
  BY DomainChanges, Candidates
<1>2. domain[d].left # 0
  <2>1. domain[d].left \in 0..CooldownTicks
    BY DEF TypeOK, Circuit
  <2> QED BY <2>1
<1>3. ~DomainAdmits(d)
  BY <1>2 DEF DomainAdmits, DomainProbe
<1>4. /\ domain'[d] = DomainOutcome(d, IdOf(x), execution[x].report)
      /\ execution'[x] # execution[x]
  BY <1>3, DomainChanges
<1>5. domain[d].probe = IdOf(x)
  BY <1>1, <1>4, OutcomeOfDomain
<1> QED BY <1>4, <1>5 DEF IdOf

LEMMA RouteProbeDecides ==
    ASSUME TypeOK, Phases, RouteCircuits, NEW x \in Execution, Steps(x), NEW r \in Route,
           circuit[r].state = "half-open", circuit[r].probe # None, Live(circuit[r].probe),
           circuit'[r] # circuit[r]
    PROVE  reservation'[circuit[r].probe] = None
<1>1. IdOf(x) \in Id /\ Candidate(x) \in Route /\ PoolMoved(x)
  BY Candidates, DocumentsMove
<1>2. RouteProbe(r) = circuit[r].probe
  BY DEF RouteProbe
<1>3. CASE UNCHANGED <<circuit, reservation>>
  BY <1>3
<1>4. CASE Start(x)
  BY <1>4, StartStep
<1>5. CASE RouteAdmits(Candidate(x)) /\ Granted(Candidate(x), IdOf(x))
  BY <1>1, <1>2, <1>5, GrantedStep
<1>6. CASE Released(IdOf(x), execution[x].release)
  BY <1>1, <1>6, ReleasedStep
<1> QED BY <1>1, <1>3, <1>4, <1>5, <1>6 DEF PoolMoved

\* A half-open circuit is decided by its probe alone, and a provider's circuit opens
\* only when one of its calls failed as a provider.
THEOREM ProbesDecide == Spec => OutcomesDecide
<1>1. ASSUME IInv, Next
      PROVE  ProbeStep /\ OpeningStep
  <2>1. /\ TypeOK /\ Phases /\ DomainCircuits /\ RouteCircuits
        /\ domain \in [Domain -> Circuit] /\ circuit \in [Route -> Circuit]
    BY <1>1 DEF IInv, TypeOK
  <2>2. CASE \E x \in Execution : Steps(x)
    <3>1. PICK x \in Execution : Steps(x)
      BY <2>2
    <3>2. ASSUME NEW d \in Domain, domain[d].state = "half-open", domain[d].probe # None,
                 domain[d].left > 0,
                 domain'[d].state # "half-open" \/ domain'[d].probe # domain[d].probe
          PROVE  execution'[domain[d].probe[1]] # execution[domain[d].probe[1]]
      <4>1. domain'[d] # domain[d]
        BY <3>2
      <4> QED BY <2>1, <3>1, <3>2, <4>1, DomainProbeDecides
    <3>3. ASSUME NEW r \in Route, circuit[r].state = "half-open", circuit[r].probe # None,
                 Live(circuit[r].probe), circuit'[r] # circuit[r]
          PROVE  reservation'[circuit[r].probe] = None
      BY <2>1, <3>1, <3>3, RouteProbeDecides
    <3>4. ASSUME NEW d \in Domain, domain[d].state # "open", domain'[d].state = "open"
          PROVE  /\ execution[x].report = "provider-retryable-failure"
                 /\ DomainOf[Candidate(x)] = d /\ execution'[x] # execution[x]
      <4>1. domain'[d] # domain[d]
        BY <3>4
      <4>2. /\ d = DomainOf[Candidate(x)]
            /\ \/ DomainAdmits(d) /\ DomainAdmitted(d, IdOf(x))
               \/ /\ domain'[d] = DomainOutcome(d, IdOf(x), execution[x].report)
                  /\ execution'[x] # execution[x]
        BY <2>1, <3>1, <4>1, DomainChanges
      <4>3. IdOf(x) \in Id
        BY <2>1, Candidates
      <4>4. ~DomainAdmitted(d, IdOf(x))
        BY <2>1, <3>4, <4>3, AdmissionOfDomain
      <4> QED BY <2>1, <3>4, <4>2, <4>3, <4>4, OutcomeOfDomain
    <3> QED BY <3>2, <3>3, <3>4 DEF ProbeStep, OpeningStep
  <2>3. CASE Tick
    <3>1. ASSUME NEW r \in Route, circuit[r].state = "half-open"
          PROVE  circuit'[r] = circuit[r]
      <4>1. circuit[r].left = 0 /\ circuit[r] \in Circuit
        BY <2>1, <3>1 DEF RouteCircuits, RouteFits
      <4>2. circuit'[r] = [circuit[r] EXCEPT !.left = 0]
        BY <2>3, <4>1 DEF Tick, Less
      <4> QED BY <4>1, <4>2 DEF Circuit
    <3>2. \A d \in Domain : /\ domain'[d].state = domain[d].state
                            /\ domain'[d].probe = domain[d].probe
      BY <2>1, <2>3, TickKeeps
    <3> QED BY <3>1, <3>2 DEF ProbeStep, OpeningStep
  <2>4. CASE UNCHANGED vars
    BY <2>4 DEF vars, ProbeStep, OpeningStep
  <2> QED BY <1>1, <2>2, <2>3, <2>4, NextSteps
<1>2. IInv /\ [Next]_vars => [ProbeStep /\ OpeningStep]_vars
  BY <1>1
<1> QED BY <1>2, IInvAlways, PTL DEF Spec, OutcomesDecide

\* An execution moves to a fallback at most once, of the kind of its failure and
\* while it has calls left: never after an ambiguous outcome.
THEOREM FallsBackOnce == Spec => OneFallback
<1>1. ASSUME IInv, Next
      PROVE  FallbackStep
  <2>1. TypeOK /\ Phases
    BY <1>1 DEF IInv
  <2>2. CASE \E x \in Execution : Steps(x)
    <3>1. PICK x \in Execution : Steps(x)
      BY <2>2
    <3>2. Moved(x)
      BY <2>1, <3>1, Moves
    <3> QED BY <3>2 DEF Moved, Follows, FallbackStep
  <2>3. CASE Tick
    BY <2>1, <2>3, TickKeeps DEF FallbackStep
  <2>4. CASE UNCHANGED vars
    BY <2>4 DEF vars, FallbackStep
  <2> QED BY <1>1, <2>2, <2>3, <2>4, NextSteps
<1>2. IInv /\ [Next]_vars => [FallbackStep]_vars
  BY <1>1
<1> QED BY <1>2, IInvAlways, PTL DEF Spec, OneFallback
=============================================================================
