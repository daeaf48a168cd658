--------------------- MODULE SourceReconciliation_proofs ---------------------
(***************************************************************************)
(* The markers of a source are true, for any number of administrators,     *)
(* runners, batches and articles and any page size.  The argument is that  *)
(* of copies: a copy of the source nobody has written over IS the source,  *)
(* so what a command or a page makes of it is made of the source; and that *)
(* of the cursor: the articles a version began with that lie before it     *)
(* have the jobs of that version, because a page ends at its last article  *)
(* and its snapshot holds every one of them.                               *)
(***************************************************************************)
EXTENDS SourceReconciliation, FiniteSetTheorems, WellFoundedInduction, TLAPS

\* A command's copy is the source, unless it is outdated.
CommandFits(a) == admin[a] # None /\ a \notin stale => admin[a] = src

\* So is a page's, which is one of a marker to be reconciled and holds every
\* article the version began with.
PageFits(r) ==
    /\ runner[r].pc = "page" =>
         runner[r].read \in SourceDocument /\ runner[r].read.marker.status # "completed"
    /\ runner[r].read # None /\ r \notin stale =>
         runner[r].read = src /\ there \subseteq runner[r].seen

Copies == (\A a \in Admin : CommandFits(a)) /\ (\A r \in Runner : PageFits(r))

\* The articles of a version's beginning stay, and those the cursor has passed
\* have its jobs.
Passed(x) == src.marker.status = "completed" \/ x <= src.marker.cursor
Covered ==
    /\ there \subseteq Present
    /\ ~Takedowns => \A x \in there : Passed(x) => src.policy \in fanned[x]

IInv == TypeOK /\ MarkerIsCurrent /\ Copies /\ Covered

-----------------------------------------------------------------------------
(* Operators on source documents *)

\* What a command may make of a source: a source of the same version, marker and
\* rights, or one of the next version that is to be reconciled.
SameVersion(s, n) == n.policy = s.policy /\ n.license = s.license /\ n.marker = s.marker
NextVersion(s, n) == n.policy = s.policy + 1 /\ n.marker = PendingMarker(n.policy)

LEMMA ChangesAreVersioned ==
    ASSUME NEW s \in SourceDocument, NEW n \in Changes(s)
    PROVE  n \in SourceDocument /\ (SameVersion(s, n) \/ NextVersion(s, n))
<1> DEFINE Status == {"draft", "testing", "active", "paused", "archived"}
           License == {"review-needed", "permitted", "blocked"}
<1>1. s.policy \in Nat /\ s.license \in License /\ s.checked \in BOOLEAN /\ s.status \in Status
  BY ReconciliationAssumption DEF SourceDocument, Version
<1>2. n.policy <= MaxPolicy
  BY DEF Changes
<1>3. NewVersion(s).policy = s.policy + 1
  BY DEF NewVersion, SourceDocument
<1>4. ASSUME s.policy + 1 <= MaxPolicy
      PROVE  /\ NewVersion(s) \in SourceDocument
             /\ NewVersion(s).marker = PendingMarker(NewVersion(s).policy)
  <2>1. s.policy + 1 \in Version
    BY <1>1, <1>4 DEF Version
  <2>2. PendingMarker(s.policy + 1) \in Marker
    BY <2>1, ReconciliationAssumption DEF PendingMarker, Marker, Cursor
  <2> QED
    BY <2>1, <2>2 DEF NewVersion, SourceDocument
<1> DEFINE Keeps(d, x) == x \in SourceDocument /\ x.policy = d.policy /\ x.marker = d.marker
\* Rights, checks and states of a source, old or new, are its own.
<1>5. ASSUME NEW d \in SourceDocument, NEW x, NEW c \in BOOLEAN, x = [d EXCEPT !.checked = c]
      PROVE  Keeps(d, x) /\ x.license = d.license
  BY <1>5 DEF SourceDocument
<1>6. ASSUME NEW d \in SourceDocument, NEW x, NEW st \in Status, x = [d EXCEPT !.status = st]
      PROVE  Keeps(d, x) /\ x.license = d.license
  BY <1>6 DEF SourceDocument
<1>7. ASSUME NEW d \in SourceDocument, NEW x, NEW l \in License, x = [d EXCEPT !.license = l]
      PROVE  Keeps(d, x)
  BY <1>7 DEF SourceDocument
<1>8. ASSUME NEW d \in SourceDocument, NEW x, NEW l \in License, NEW st \in Status,
             x = [d EXCEPT !.license = l, !.status = st]
      PROVE  Keeps(d, x)
  BY <1>8 DEF SourceDocument
\* What is in reach is within the bound on versions.
<1>9. ASSUME NEW d, NEW x, NEW c, NEW l, NEW st,
             d = NewVersion(s) \/ d = [NewVersion(s) EXCEPT !.checked = c],
             \/ x = d
             \/ x = [d EXCEPT !.status = st]
             \/ x = [d EXCEPT !.license = l]
             \/ x = [d EXCEPT !.license = l, !.status = st]
      PROVE  x.policy = s.policy + 1
  BY <1>1, <1>9 DEF NewVersion, SourceDocument
<1> HIDE DEF Keeps
<1>10. CASE n \in Updates(s)
  <2>1. PICK d \in Configurations(s) :
          n = d \/ (\E st \in Status : n = [d EXCEPT !.status = st])
    <3>1. PICK d \in Configurations(s) : n = d \/ n \in Transitions(d)
      BY <1>10 DEF Updates
    <3>2. CASE n \in Transitions(d)
      <4>1. d.status = s.status
        BY <1>1 DEF Configurations, NewVersion, SourceDocument
      <4>2. Successors(s.status) \subseteq Status
        BY <1>1 DEF Successors
      <4>3. \E to \in Successors(d.status) : n = [d EXCEPT !.status = to]
        BY <3>2 DEF Transitions
      <4> QED
        BY <4>1, <4>2, <4>3
    <3> QED
      BY <3>1, <3>2
  <2>2. CASE d = s
    <3>1. CASE n = d
      BY <2>2, <3>1 DEF SameVersion
    <3>2. ASSUME NEW st \in Status, n = [d EXCEPT !.status = st]
          PROVE  SameVersion(s, n) /\ n \in SourceDocument
      BY <1>6, <2>2, <3>2 DEF SameVersion, Keeps
    <3> QED
      BY <2>1, <3>1, <3>2
  <2>3. CASE d # s
    <3>1. PICK c \in BOOLEAN : d = [NewVersion(s) EXCEPT !.checked = c]
      BY <1>1, <2>3 DEF Configurations
    <3>2. d.policy = s.policy + 1
      BY <3>1, <1>9
    <3>3. n.policy = s.policy + 1
      <4>1. ASSUME NEW st \in Status, n = [d EXCEPT !.status = st]
            PROVE  n.policy = s.policy + 1
        BY <3>1, <4>1, <1>9
      <4> QED
        BY <2>1, <3>2, <4>1
    <3>4. Keeps(NewVersion(s), d)
      BY <3>1, <3>3, <1>2, <1>4, <1>5
    <3>5. CASE n = d
      BY <1>2, <1>3, <1>4, <3>3, <3>4, <3>5 DEF Keeps, NextVersion
    <3>6. ASSUME NEW st \in Status, n = [d EXCEPT !.status = st]
          PROVE  n \in SourceDocument /\ NextVersion(s, n)
      <4>1. Keeps(d, n)
        BY <1>6, <3>4, <3>6 DEF Keeps
      <4> QED
        BY <1>2, <1>3, <1>4, <3>3, <3>4, <4>1 DEF Keeps, NextVersion
    <3> QED
      BY <2>1, <3>5, <3>6
  <2> QED
    BY <2>2, <2>3
<1>11. CASE n \in Reviews(s)
  <2>1. PICK l \in License : n = [NewVersion(s) EXCEPT !.license = l]
    BY <1>11 DEF Reviews
  <2>2. n.policy = s.policy + 1
    BY <2>1, <1>9
  <2>3. Keeps(NewVersion(s), n)
    BY <2>1, <2>2, <1>2, <1>4, <1>7
  <2> QED
    BY <1>2, <1>3, <1>4, <2>2, <2>3 DEF Keeps, NextVersion
<1>12. CASE n \in ReReviews(s)
  <2>1. PICK l \in License, st \in Status :
          n = [NewVersion(s) EXCEPT !.license = l, !.status = st]
    BY <1>12, <1>1 DEF ReReviews
  <2>2. n.policy = s.policy + 1
    BY <2>1, <1>9
  <2>3. Keeps(NewVersion(s), n)
    BY <2>1, <2>2, <1>2, <1>4, <1>8
  <2> QED
    BY <1>2, <1>3, <1>4, <2>2, <2>3 DEF Keeps, NextVersion
<1>13. CASE n \in Checks(s)
  <2>1. PICK c \in BOOLEAN : n = [s EXCEPT !.checked = c]
    BY <1>13 DEF Checks
  <2> QED
    BY <2>1, <1>5 DEF Keeps, SameVersion
<1> QED
  BY <1>10, <1>11, <1>12, <1>13 DEF Changes

-----------------------------------------------------------------------------
(* The pages of a snapshot *)

\* A set of numbers with a bound has a least one and a last one.
LEMMA HasFirst ==
    ASSUME NEW T \in SUBSET Nat, T # {}
    PROVE  \E x \in T : \A y \in T : x <= y
<1>1. PICK x \in T : \A y \in T : <<y, x>> \notin OpToRel(<, Nat)
  BY WFMin, NatLessThanWellFounded, Zenon
<1>2. \A y \in T : ~(y < x)
  BY <1>1, Zenon DEF OpToRel
<1>3. \A y \in T : x \in Nat /\ y \in Nat
  OBVIOUS
<1> QED
  BY <1>2, <1>3

LEMMA HasLast ==
    ASSUME NEW N \in Nat, NEW T \in SUBSET (0..N), T # {}
    PROVE  \E x \in T : \A y \in T : y <= x
<1> DEFINE U == {N - x : x \in T}
<1>1. U \in SUBSET Nat /\ U # {}
  <2>1. \A x \in T : N - x \in Nat
    OBVIOUS
  <2>2. PICK x \in T : TRUE
    OBVIOUS
  <2>3. N - x \in U
    OBVIOUS
  <2> QED
    BY <2>1, <2>3
<1>2. PICK u \in U : \A v \in U : u <= v
  BY <1>1, HasFirst
<1>3. PICK x \in T : u = N - x
  OBVIOUS
<1>4. ASSUME NEW y \in T
      PROVE  y <= x
  <2>1. u <= N - y
    BY <1>2
  <2> QED
    BY <2>1, <1>3
<1> QED
  BY <1>4

\* What one page takes: it is the front of what is left, and ends at NextCursor.
LEMMA PagesAreFronts ==
    ASSUME TypeOK, NEW r \in Runner, runner[r].read \in SourceDocument
    PROVE  /\ FirstOf(r, Page) \subseteq Todo(r)
           /\ Todo(r) # {} => FirstOf(r, Page) # {}
           /\ \A x \in Todo(r), y \in FirstOf(r, Page) : x <= y => x \in FirstOf(r, Page)
           /\ Todo(r) # {} =>
                /\ NextCursor(r) \in FirstOf(r, Page)
                /\ \A y \in FirstOf(r, Page) : y <= NextCursor(r)
<1> DEFINE Before(x) == {y \in Todo(r) : y < x}
<1>1. Todo(r) \subseteq Article /\ Article \subseteq Nat /\ IsFiniteSet(Article)
  <2>1. runner[r].seen \subseteq Article
    BY DEF TypeOK, Invocation
  <2> QED
    BY <2>1, FS_Interval, ReconciliationAssumption DEF Todo, Article
<1>2. \A x : IsFiniteSet(Before(x))
  BY <1>1, FS_Subset
<1>3. FirstOf(r, Page) = {x \in Todo(r) : Cardinality(Before(x)) < Page}
  BY DEF FirstOf
<1> HIDE DEF Before
<1>4. ASSUME Todo(r) # {}
      PROVE  FirstOf(r, Page) # {}
  <2>1. PICK x \in Todo(r) : \A y \in Todo(r) : x <= y
    BY <1>1, <1>4, HasFirst
  <2>2. Before(x) = {}
    <3>1. \A y \in Todo(r) : y \in Nat /\ x \in Nat /\ x <= y
      BY <1>1, <2>1
    <3> QED
      BY <3>1 DEF Before
  <2> QED
    BY <1>3, <2>2, FS_EmptySet, ReconciliationAssumption
<1>5. ASSUME NEW x \in Todo(r), NEW y \in FirstOf(r, Page), x <= y
      PROVE  x \in FirstOf(r, Page)
  <2>1. Before(x) \subseteq Before(y)
    <3>1. x \in Nat /\ y \in Nat /\ \A z \in Todo(r) : z \in Nat
      BY <1>1, <1>3
    <3>2. \A z \in Todo(r) : z < x => z < y
      BY <3>1, <1>5
    <3> QED
      BY <3>2 DEF Before
  <2>2. Cardinality(Before(x)) <= Cardinality(Before(y))
    BY <1>2, <2>1, FS_Subset
  <2>3. Cardinality(Before(x)) \in Nat /\ Cardinality(Before(y)) \in Nat
    BY <1>2, FS_CardinalityType
  <2> QED
    BY <1>3, <2>2, <2>3, ReconciliationAssumption
<1>6. FirstOf(r, Page) \subseteq Todo(r)
  BY <1>3
<1>7. ASSUME Todo(r) # {}
      PROVE  /\ NextCursor(r) \in FirstOf(r, Page)
             /\ \A y \in FirstOf(r, Page) : y <= NextCursor(r)
  <2>1. FirstOf(r, Page) \in SUBSET (0..MaxArticle)
    BY <1>1, <1>6 DEF Article
  <2>2. \E x \in FirstOf(r, Page) : \A y \in FirstOf(r, Page) : y <= x
    BY <1>4, <1>7, <2>1, HasLast, ReconciliationAssumption
  <2> QED
    BY <2>2 DEF NextCursor
<1> QED
  BY <1>4, <1>5, <1>6, <1>7

-----------------------------------------------------------------------------
(* Invocations *)

Point == {"idle", "selected", "cleared", "leased", "page", "failing", "releasing"}

\* An invocation that goes on keeps its page; one that drops it has none.
LEMMA GoesOn ==
    ASSUME TypeOK, NEW r \in Runner, NEW pc \in Point, GoTo(r, pc)
    PROVE  /\ runner' \in [Runner -> Invocation]
           /\ runner'[r].pc = pc /\ runner'[r].read = runner[r].read
           /\ runner'[r].seen = runner[r].seen
           /\ \A q \in Runner : q # r => runner'[q] = runner[q]
BY DEF TypeOK, GoTo, Invocation, Point

LEMMA Drops ==
    ASSUME TypeOK, NEW r \in Runner, NEW pc \in Point,
           runner' = [runner EXCEPT ![r] = [Idle EXCEPT !.pc = pc]]
    PROVE  /\ runner' \in [Runner -> Invocation]
           /\ runner'[r].pc = pc /\ runner'[r].read = None
           /\ \A q \in Runner : q # r => runner'[q] = runner[q]
BY DEF TypeOK, Idle, Invocation, Point

-----------------------------------------------------------------------------
(* Copies: a step that leaves the source, and one that writes it *)

LEMMA CommandStays ==
    ASSUME NEW a \in Admin, CommandFits(a), src' = src,
           admin'[a] = None \/ (admin'[a] = admin[a] /\ (a \in stale => a \in stale'))
    PROVE  CommandFits(a)'
BY DEF CommandFits

LEMMA PageStays ==
    ASSUME NEW r \in Runner, PageFits(r), src' = src, there' = there,
           \/ runner'[r] = runner[r] /\ (r \in stale => r \in stale')
           \/ /\ runner'[r].pc # "page"
              /\ \/ runner'[r].read = None
                 \/ /\ runner'[r].read = runner[r].read /\ runner'[r].seen = runner[r].seen
                    /\ r \in stale => r \in stale'
    PROVE  PageFits(r)'
BY DEF PageFits

\* After a write every copy that is left is outdated, except the writer's.
LEMMA CommandOutdates ==
    ASSUME NEW a \in Admin, admin'[a] = None \/ (admin'[a] = admin[a] /\
                              (admin[a] # None => a \in stale'))
    PROVE  CommandFits(a)'
BY DEF CommandFits

LEMMA PageOutdates ==
    ASSUME NEW r \in Runner, PageFits(r),
           \/ runner'[r] = runner[r] /\ (runner[r].read # None => r \in stale')
           \/ /\ runner'[r].pc # "page"
              /\ \/ runner'[r].read = None
                 \/ runner'[r].read = runner[r].read /\ (runner[r].read # None => r \in stale')
    PROVE  PageFits(r)'
BY DEF PageFits

\* What the source promises does not change with what others do.
LEMMA SourceStays ==
    ASSUME IInv, src' = src, there' = there, Present \subseteq Present',
           \A x \in Article : fanned'[x] = fanned[x]
    PROVE  MarkerIsCurrent' /\ Covered'
<1>1. there \subseteq Article
  BY DEF IInv, TypeOK
<1> QED
  BY <1>1 DEF IInv, MarkerIsCurrent, Covered, Passed

\* A new version has no articles behind it.
LEMMA VersionBegins ==
    ASSUME IInv, src' \in SourceDocument, src'.policy = src.policy + 1,
           src'.marker.status = "pending", src'.marker.required = src'.policy,
           src'.marker.completed = 0, ~Takedowns => src'.marker.cursor = 0,
           born' = born, there' = Present
    PROVE  MarkerIsCurrent' /\ Covered'
<1>1. src.policy \in Nat /\ src'.policy > 0
  BY ReconciliationAssumption DEF IInv, TypeOK, SourceDocument, Version
<1>2. MarkerIsCurrent'
  BY <1>1 DEF MarkerIsCurrent
<1>3. \A x \in Article : ~(x <= 0)
  BY ReconciliationAssumption DEF Article
<1>4. Present \subseteq Article /\ Present' = Present
  BY DEF Present
<1> QED
  BY <1>2, <1>3, <1>4 DEF Covered, Passed

-----------------------------------------------------------------------------
(* The four steps that write the source *)

LEMMA Commits ==
    ASSUME IInv, NEW a \in Admin, CommitReplacement(a)
    PROVE  IInv'
<1>1. PICK next \in Changes(admin[a]) : Replaces(a, next)
  BY DEF CommitReplacement
<1>2. admin[a] = src /\ src \in SourceDocument
  BY NoneAssumption DEF CommitReplacement, IInv, Copies, CommandFits, TypeOK
<1>3. src' \in SourceDocument /\ (SameVersion(src, src') \/ NextVersion(src, src'))
  BY <1>1, <1>2, ChangesAreVersioned DEF Replaces
<1>4. UNCHANGED <<born, fanned, owner, runner, batch>> /\ stale' = Outdated \ {a}
  BY <1>1 DEF Replaces
<1>5. admin' = [admin EXCEPT ![a] = None]
      /\ there' = IF src'.policy = src.policy THEN there ELSE Present
  BY <1>1 DEF Replaces
<1>6. TypeOK'
  <2>1. admin' \in [Admin -> SourceDocument \cup {None}]
    BY <1>5 DEF IInv, TypeOK
  <2>2. stale' \subseteq Admin \cup Runner /\ there' \subseteq Article
    BY <1>4, <1>5 DEF IInv, TypeOK, Outdated, Present
  <2> QED
    BY <1>3, <1>4, <2>1, <2>2 DEF IInv, TypeOK
<1>7. Copies'
  <2>1. ASSUME NEW b \in Admin
        PROVE  CommandFits(b)'
    <3>1. admin'[b] = None \/ (admin'[b] = admin[b] /\ (admin[b] # None => b \in stale'))
      BY <1>4, <1>5 DEF IInv, TypeOK, Outdated
    <3> QED
      BY <3>1, CommandOutdates
  <2>2. ASSUME NEW r \in Runner
        PROVE  PageFits(r)'
    <3>1. r # a
      BY ReconciliationAssumption
    <3>2. runner'[r] = runner[r] /\ (runner[r].read # None => r \in stale')
      BY <1>4, <3>1 DEF Outdated
    <3> QED
      BY <3>2, PageOutdates DEF IInv, Copies
  <2> QED
    BY <2>1, <2>2 DEF Copies
<1>8. MarkerIsCurrent' /\ Covered'
  <2>1. CASE SameVersion(src, src')
    <3>1. src'.policy = src.policy /\ src'.marker = src.marker /\ there' = there
      BY <1>5, <2>1 DEF SameVersion
    <3>2. Present' = Present
      BY <1>4 DEF Present
    <3> QED
      BY <1>4, <3>1, <3>2 DEF IInv, MarkerIsCurrent, Covered, Passed
  <2>2. CASE NextVersion(src, src')
    <3>1. src.policy \in Nat
      BY <1>2, ReconciliationAssumption DEF SourceDocument, Version
    <3>2. src'.policy = src.policy + 1 /\ src'.policy # src.policy
      BY <2>2, <3>1 DEF NextVersion
    <3>3. /\ src'.marker.status = "pending" /\ src'.marker.required = src'.policy
          /\ src'.marker.completed = 0 /\ src'.marker.cursor = 0
      BY <2>2 DEF NextVersion, PendingMarker
    <3> QED
      BY <1>3, <1>4, <1>5, <3>2, <3>3, VersionBegins
  <2> QED
    BY <1>3, <2>1, <2>2
<1> QED
  BY <1>6, <1>7, <1>8 DEF IInv

\* A takedown begins a version that is to be reconciled; its cursor is the old one's.
LEMMA Pauses ==
    ASSUME TypeOK, HideTargets
    PROVE  /\ Takedowns /\ src' \in SourceDocument
           /\ src'.policy = src.policy + 1 /\ src'.policy # src.policy
           /\ src'.marker.status = "pending" /\ src'.marker.required = src'.policy
           /\ src'.marker.completed = 0
<1> DEFINE v == src.policy + 1
           m == [PendingMarker(v) EXCEPT !.cursor = src.marker.cursor]
<1>1. src \in SourceDocument /\ src.policy \in Nat /\ v \in Version
  BY ReconciliationAssumption DEF TypeOK, HideTargets, SourceDocument, Version
<1>2. src.marker.cursor \in Cursor
  BY <1>1 DEF SourceDocument, Marker
<1>3. m \in Marker /\ m.status = "pending" /\ m.required = v /\ m.completed = 0
  BY <1>1, <1>2, ReconciliationAssumption DEF PendingMarker, Marker
<1>4. src' = [NewVersion(src) EXCEPT !.status = "paused", !.marker.cursor = src.marker.cursor]
  BY DEF HideTargets, Write
<1>5. src'.policy = v /\ src'.marker = m
  BY <1>1, <1>4 DEF NewVersion, SourceDocument, PendingMarker
<1>6. src' \in SourceDocument
  <2>1. [[src EXCEPT !.policy = v, !.marker = m] EXCEPT !.status = "paused"] \in SourceDocument
    BY <1>1, <1>3 DEF SourceDocument
  <2>2. src' = [[src EXCEPT !.policy = v, !.marker = m] EXCEPT !.status = "paused"]
    BY <1>1, <1>4 DEF NewVersion, SourceDocument, PendingMarker
  <2> QED
    BY <2>1, <2>2
<1> QED
  BY <1>1, <1>3, <1>5, <1>6 DEF HideTargets

LEMMA TakesDown ==
    ASSUME IInv, HideTargets
    PROVE  IInv'
<1>1. /\ Takedowns /\ src' \in SourceDocument
      /\ src'.policy = src.policy + 1 /\ src'.policy # src.policy
      /\ src'.marker.status = "pending" /\ src'.marker.required = src'.policy
      /\ src'.marker.completed = 0
  BY Pauses DEF IInv
<1>2. UNCHANGED <<born, fanned, owner, admin, runner, batch>>
      /\ stale' = Outdated /\ there' = Present
  BY <1>1 DEF HideTargets, Write
<1>3. TypeOK'
  BY <1>1, <1>2 DEF IInv, TypeOK, Outdated, Present
<1>4. Copies'
  <2>1. \A a \in Admin : CommandFits(a)'
    BY <1>2, CommandOutdates DEF Outdated
  <2>2. \A r \in Runner : PageFits(r)'
    BY <1>2, PageOutdates DEF Outdated, IInv, Copies
  <2> QED
    BY <2>1, <2>2 DEF Copies
<1>5. MarkerIsCurrent' /\ Covered'
  BY <1>1, <1>2, VersionBegins
<1> QED
  BY <1>3, <1>4, <1>5 DEF IInv

\* A failure changes the marker's status alone, and only one that is not completed.
LEMMA Fails ==
    ASSUME IInv, NEW r \in Runner, MarkFailure(r)
    PROVE  IInv' /\ src'.policy = src.policy /\ src'.license = src.license
           /\ src'.marker.completed = src.marker.completed
           /\ src'.marker.cursor = src.marker.cursor
<1>1. /\ runner' \in [Runner -> Invocation]
      /\ runner'[r].pc = "releasing" /\ runner'[r].read = runner[r].read
      /\ runner'[r].seen = runner[r].seen
      /\ \A q \in Runner : q # r => runner'[q] = runner[q]
  BY GoesOn DEF MarkFailure, IInv, Point
<1>2. UNCHANGED <<born, fanned, owner, admin, batch>>
  BY DEF MarkFailure
<1>3. CASE UNCHANGED <<src, stale, there>>
  <2>1. TypeOK'
    BY <1>1, <1>2, <1>3 DEF IInv, TypeOK
  <2>2. Copies'
    BY <1>1, <1>2, <1>3, CommandStays, PageStays DEF IInv, Copies
  <2>3. MarkerIsCurrent' /\ Covered'
    BY <1>2, <1>3, SourceStays DEF Present
  <2> QED
    BY <1>3, <2>1, <2>2, <2>3 DEF IInv
<1>4. CASE /\ src.marker.status \in {"pending", "processing", "failed"}
           /\ Write([src EXCEPT !.marker.status = "failed"])
  <2>1. /\ src' = [src EXCEPT !.marker.status = "failed"]
        /\ src \in SourceDocument /\ src.marker \in Marker
    BY <1>4 DEF Write, IInv, TypeOK, SourceDocument
  <2>2. /\ src'.policy = src.policy /\ src'.license = src.license
        /\ src'.marker = [src.marker EXCEPT !.status = "failed"]
    BY <2>1 DEF SourceDocument
  <2>3. src' \in SourceDocument
    BY <2>1 DEF SourceDocument, Marker
  <2>4. /\ src'.marker.status = "failed" /\ src'.marker.required = src.marker.required
        /\ src'.marker.completed = src.marker.completed
        /\ src'.marker.cursor = src.marker.cursor
    BY <2>1, <2>2 DEF Marker
  <2>5. stale' = Outdated /\ there' = there
    BY <1>4, <2>1, <2>2 DEF Write
  <2>6. TypeOK'
    BY <1>1, <1>2, <2>3, <2>5 DEF IInv, TypeOK, Outdated
  <2>7. Copies'
    <3>1. \A a \in Admin : CommandFits(a)'
      BY <1>2, <2>5, CommandOutdates DEF Outdated
    <3>2. \A q \in Runner : PageFits(q)'
      BY <1>1, <2>5, PageOutdates DEF Outdated, IInv, Copies
    <3> QED
      BY <3>1, <3>2 DEF Copies
  <2>8. MarkerIsCurrent' /\ Covered'
    BY <1>2, <1>4, <2>2, <2>4, <2>5 DEF IInv, MarkerIsCurrent, Covered, Passed, Present
  <2> QED
    BY <2>2, <2>4, <2>6, <2>7, <2>8 DEF IInv
<1> QED
  BY <1>3, <1>4 DEF MarkFailure

\* A page that commits moves the cursor to its last article, or completes the marker;
\* either way the articles the cursor has passed have the version's jobs.
LEMMA Materializes ==
    ASSUME IInv, NEW r \in Runner, MaterializePage(r)
    PROVE  /\ IInv' /\ src'.policy = src.policy /\ src'.license = src.license
           /\ src.marker.completed # 0 => src'.marker.completed = src.marker.completed
           /\ src'.marker.cursor >= src.marker.cursor \/ src'.marker.status = "completed"
<1> DEFINE page == FirstOf(r, Page)
<1>1. /\ runner[r].read \in SourceDocument /\ runner[r].read = src
      /\ src.marker.status # "completed" /\ there \subseteq runner[r].seen
  BY NoneAssumption DEF MaterializePage, IInv, Copies, PageFits
<1>2. src \in SourceDocument /\ src.marker \in Marker /\ src.policy \in Version
  BY <1>1 DEF SourceDocument
<1>3. /\ page \subseteq Todo(r)
      /\ Todo(r) # {} => page # {}
      /\ \A x \in Todo(r), y \in page : x <= y => x \in page
      /\ Todo(r) # {} => NextCursor(r) \in page
  BY <1>1, PagesAreFronts DEF IInv
<1>4. Todo(r) = {x \in runner[r].seen : x > src.marker.cursor} /\ Todo(r) \subseteq Article
  BY <1>1 DEF Todo, IInv, TypeOK, Invocation
<1> HIDE DEF page
<1>5. PICK m :
        /\ m = IF page # Todo(r)
               THEN [src.marker EXCEPT !.status = "processing", !.cursor = NextCursor(r)]
               ELSE [src.marker EXCEPT !.status = "completed", !.cursor = 0,
                                       !.completed = src.policy]
        /\ src' = [src EXCEPT !.marker = m]
        /\ fanned' = [x \in Article |->
                        IF x \in page THEN fanned[x] \cup {src.policy} ELSE fanned[x]]
  BY <1>1 DEF MaterializePage, Materialize, page
<1>6. PICK pc \in Point : /\ pc # "page"
                          /\ runner' = [runner EXCEPT ![r] = [Idle EXCEPT !.pc = pc]]
  BY DEF MaterializePage, Materialize, Point
<1>7. /\ runner' \in [Runner -> Invocation]
      /\ runner'[r].pc = pc /\ runner'[r].read = None
      /\ \A q \in Runner : q # r => runner'[q] = runner[q]
  BY <1>6, Drops DEF IInv
<1>8. UNCHANGED <<born, owner, admin, batch, there>> /\ stale' = Outdated \ {r}
  BY DEF MaterializePage, Materialize
\* The marker
<1>9. /\ m \in Marker /\ m.required = src.marker.required
      /\ \/ /\ page # Todo(r) /\ m.status = "processing" /\ m.cursor = NextCursor(r)
            /\ m.completed = src.marker.completed /\ NextCursor(r) \in page
            /\ m.cursor > src.marker.cursor
         \/ /\ page = Todo(r) /\ m.status = "completed" /\ m.cursor = 0
            /\ m.completed = src.policy
  <2>1. CASE page # Todo(r)
    <3>1. NextCursor(r) \in page /\ NextCursor(r) \in Todo(r)
      BY <1>3, <2>1
    <3>2. NextCursor(r) \in Cursor /\ NextCursor(r) > src.marker.cursor
      BY <1>4, <3>1, ReconciliationAssumption DEF Article, Cursor
    <3> QED
      BY <1>2, <1>5, <2>1, <3>1, <3>2 DEF Marker
  <2>2. CASE page = Todo(r)
    <3>1. 0 \in Cursor /\ src.policy \in 0..MaxPolicy
      BY <1>2, ReconciliationAssumption DEF Cursor, Version
    <3> QED
      BY <1>2, <1>5, <2>2, <3>1 DEF Marker
  <2> QED
    BY <2>1, <2>2
<1>10. /\ src' \in SourceDocument /\ src'.policy = src.policy /\ src'.license = src.license
       /\ src'.marker = m
  BY <1>2, <1>5, <1>9 DEF SourceDocument
<1>11. src.policy > 0 /\ src.marker.completed = 0 /\ src.marker.required = src.policy
  BY <1>1, <1>2, ReconciliationAssumption DEF IInv, MarkerIsCurrent, Version
<1>12. MarkerIsCurrent'
  BY <1>2, <1>9, <1>10, <1>11, ReconciliationAssumption DEF MarkerIsCurrent, Version
\* The articles
<1>13. ASSUME NEW x \in there, Passed(x)', ~Takedowns
       PROVE  src.policy \in fanned'[x]
  <2>1. x \in runner[r].seen /\ x \in Article /\ x \in Nat /\ src.marker.cursor \in Nat
    BY <1>1, <1>2, ReconciliationAssumption DEF IInv, TypeOK, Article, Marker, Cursor
  <2>2. CASE x <= src.marker.cursor
    <3>1. src.policy \in fanned[x]
      BY <1>13, <2>2 DEF IInv, Covered, Passed
    <3> QED
      BY <1>5, <2>1, <3>1
  <2>3. CASE x > src.marker.cursor
    <3>1. x \in Todo(r)
      BY <1>4, <2>1, <2>3
    <3>2. x \in page
      BY <1>3, <1>8, <1>9, <1>10, <1>13, <3>1 DEF Passed
    <3> QED
      BY <1>5, <2>1, <3>2
  <2> QED
    BY <2>1, <2>2, <2>3
<1>14. Covered'
  <2>1. Present' = Present
    BY <1>8 DEF Present
  <2> QED
    BY <1>8, <1>10, <1>13, <2>1 DEF IInv, Covered
<1>15. Copies'
  <2>1. ASSUME NEW a \in Admin
        PROVE  CommandFits(a)'
    <3>1. a # r
      BY ReconciliationAssumption
    <3> QED
      BY <1>8, <3>1, CommandOutdates DEF Outdated
  <2>2. ASSUME NEW q \in Runner
        PROVE  PageFits(q)'
    BY <1>6, <1>7, <1>8, PageOutdates DEF Outdated, IInv, Copies
  <2> QED
    BY <2>1, <2>2 DEF Copies
<1>16. TypeOK'
  <2>1. fanned' \in [Article -> SUBSET Version]
    BY <1>2, <1>5 DEF IInv, TypeOK
  <2> QED
    BY <1>7, <1>8, <1>10, <2>1 DEF IInv, TypeOK, Outdated
<1> QED
  <2>1. m.status = "completed" \/ m.cursor >= src.marker.cursor
    BY <1>2, <1>9 DEF Marker, Cursor
  <2> QED
    BY <1>10, <1>11, <1>12, <1>14, <1>15, <1>16, <2>1 DEF IInv

-----------------------------------------------------------------------------
(* The steps that leave the source alone *)

\* A command reads or ends.
LEMMA CommandMoves ==
    ASSUME IInv, NEW a \in Admin, ReadSource(a) \/ ReplacementRefused(a)
    PROVE  IInv'
<1>1. UNCHANGED <<src, born, fanned, owner, runner, batch, there>>
      /\ admin' = [admin EXCEPT ![a] = IF admin[a] = None THEN src ELSE None]
      /\ stale' \subseteq stale /\ \A q : q # a /\ q \in stale => q \in stale'
  BY DEF ReadSource, ReplacementRefused
<1>2. TypeOK'
  BY <1>1 DEF IInv, TypeOK
<1>3. ASSUME NEW b \in Admin
      PROVE  CommandFits(b)'
  <2>1. CASE b # a
    BY <1>1, <2>1, CommandStays DEF IInv, TypeOK, Copies
  <2>2. CASE b = a
    BY <1>1, <2>2 DEF IInv, TypeOK, CommandFits
  <2> QED
    BY <2>1, <2>2
<1>4. ASSUME NEW r \in Runner
      PROVE  PageFits(r)'
  <2>1. r # a
    BY ReconciliationAssumption
  <2> QED
    BY <1>1, <2>1, PageStays DEF IInv, Copies
<1>5. MarkerIsCurrent' /\ Covered'
  BY <1>1, SourceStays DEF Present
<1> QED
  BY <1>2, <1>3, <1>4, <1>5 DEF IInv, Copies

\* A runner goes on, takes or gives back the lease, or drops its page.
LEMMA RunnerMoves ==
    ASSUME IInv, NEW r \in Runner, NEW pc \in Point \ {"page"},
           UNCHANGED <<src, born, fanned, admin, batch, there>>,
           owner' \in {owner, None, [by |-> r, live |-> TRUE]},
           (GoTo(r, pc) /\ stale' = stale) \/ Drop(r, pc)
    PROVE  IInv'
<1>1. /\ runner' \in [Runner -> Invocation] /\ runner'[r].pc = pc
      /\ \/ runner'[r].read = None
         \/ runner'[r].read = runner[r].read /\ runner'[r].seen = runner[r].seen /\ stale' = stale
      /\ \A q \in Runner : q # r => runner'[q] = runner[q]
      /\ stale' \subseteq stale /\ \A q : q # r /\ q \in stale => q \in stale'
  <2>1. CASE GoTo(r, pc) /\ stale' = stale
    BY <2>1, GoesOn DEF IInv
  <2>2. CASE Drop(r, pc)
    BY <2>2, Drops DEF IInv, Drop
  <2> QED
    BY <2>1, <2>2
<1>2. TypeOK'
  <2>1. owner' \in [by: Runner, live: BOOLEAN] \cup {None}
    <3>1. [by |-> r, live |-> TRUE] \in [by: Runner, live: BOOLEAN]
      OBVIOUS
    <3> QED
      BY <3>1, Zenon DEF IInv, TypeOK
  <2> QED
    BY <1>1, <2>1 DEF IInv, TypeOK
<1>3. ASSUME NEW a \in Admin
      PROVE  CommandFits(a)'
  <2>1. a # r
    BY ReconciliationAssumption
  <2> QED
    BY <1>1, <2>1, CommandStays DEF IInv, Copies
<1>4. ASSUME NEW q \in Runner
      PROVE  PageFits(q)'
  BY <1>1, PageStays DEF IInv, Copies
<1>5. MarkerIsCurrent' /\ Covered'
  BY SourceStays DEF Present
<1> QED
  BY <1>2, <1>3, <1>4, <1>5 DEF IInv, Copies

\* A snapshot is the source as it is, with every article there is.
LEMMA PageOpens ==
    ASSUME IInv, NEW r \in Runner, OpenPage(r)
    PROVE  IInv'
<1>1. UNCHANGED <<src, born, fanned, owner, admin, batch, stale, there>>
      /\ runner' = [runner EXCEPT ![r] = [pc |-> "page", read |-> src, seen |-> Present]]
      /\ src.marker.status # "completed"
  BY DEF OpenPage, Due
<1>2. runner' \in [Runner -> Invocation]
  BY <1>1 DEF IInv, TypeOK, Invocation, Present
<1>3. TypeOK'
  BY <1>1, <1>2 DEF IInv, TypeOK
<1>4. ASSUME NEW q \in Runner
      PROVE  PageFits(q)'
  <2>1. CASE q # r
    BY <1>1, <2>1, PageStays DEF IInv, TypeOK, Copies
  <2>2. CASE q = r
    BY <1>1, <2>2 DEF IInv, TypeOK, Covered, PageFits
  <2> QED
    BY <2>1, <2>2
<1>5. \A a \in Admin : CommandFits(a)'
  BY <1>1, CommandStays DEF IInv, Copies
<1>6. MarkerIsCurrent' /\ Covered'
  BY <1>1, SourceStays DEF Present
<1> QED
  BY <1>3, <1>4, <1>5, <1>6 DEF IInv, Copies

\* A lease expires, a batch begins, adds an article or ends.
LEMMA OthersMove ==
    ASSUME IInv, UNCHANGED <<src, fanned, admin, runner, stale, there>>, TypeOK',
           \A x \in Present : born'[x] # 0
    PROVE  IInv'
<1>1. Copies'
  BY CommandStays, PageStays DEF IInv, Copies
<1>2. Present \subseteq Present'
  BY DEF Present
<1> QED
  BY <1>1, <1>2, SourceStays DEF IInv

LEMMA BatchMoves ==
    ASSUME IInv, NEW b \in Batch, Ingest(b)
    PROVE  IInv'
<1>1. CASE OpenBatch(b)
  <2>1. src.policy \in 0..MaxPolicy
    BY ReconciliationAssumption DEF IInv, TypeOK, SourceDocument, Version
  <2>2. TypeOK'
    BY <1>1, <2>1 DEF OpenBatch, IInv, TypeOK
  <2> QED
    BY <1>1, <2>2, OthersMove DEF OpenBatch, Present
<1>2. CASE CommitBatch(b)
  <2>1. PICK x \in Article \ Present : born' = [born EXCEPT ![x] = batch[b]]
    BY <1>2 DEF CommitBatch
  <2>2. batch[b] \in 0..MaxPolicy /\ batch[b] # 0
    BY <1>2 DEF CommitBatch, IInv, TypeOK
  <2>3. TypeOK'
    BY <1>2, <2>1, <2>2, ReconciliationAssumption DEF CommitBatch, IInv, TypeOK
  <2> QED
    BY <1>2, <2>1, <2>2, <2>3, OthersMove DEF CommitBatch, Present, IInv, TypeOK
<1>3. CASE EndBatch(b)
  <2>1. TypeOK'
    BY <1>3, ReconciliationAssumption DEF EndBatch, IInv, TypeOK
  <2> QED
    BY <1>3, <2>1, OthersMove DEF EndBatch, Present
<1> QED
  BY <1>1, <1>2, <1>3 DEF Ingest

-----------------------------------------------------------------------------
(* The invariant *)

LEMMA IInvInit ==
    ASSUME Init
    PROVE  IInv
<1>1. 1 \in Version /\ 0 \in Cursor /\ 0 \in 0..MaxPolicy
  BY ReconciliationAssumption DEF Version, Cursor
<1>2. PendingMarker(1) \in Marker
  BY <1>1 DEF PendingMarker, Marker
<1>3. TypeOK
  BY <1>1, <1>2 DEF Init, TypeOK, SourceDocument, Idle, Invocation
<1>4. MarkerIsCurrent
  BY DEF Init, MarkerIsCurrent, PendingMarker
<1>5. Copies /\ Covered
  BY DEF Init, Copies, CommandFits, PageFits, Idle, Covered
<1> QED
  BY <1>3, <1>4, <1>5 DEF IInv

\* A step leaves the source's rights, version and marker alone or moves the marker of
\* its version on; or it begins the next version.
Proceeds ==
    /\ src'.policy = src.policy /\ src'.license = src.license
    /\ src.marker.completed # 0 => src'.marker.completed = src.marker.completed
    /\ src'.marker.cursor >= src.marker.cursor \/ src'.marker.status = "completed"

Begins ==
    /\ src'.policy = src.policy + 1 /\ src'.policy # src.policy
    /\ src'.marker.status = "pending" /\ src'.marker.required = src'.policy

LEMMA IInvNext ==
    ASSUME IInv, [Next]_vars
    PROVE  IInv' /\ (Proceeds \/ Begins)
<1>1. src.policy \in Nat /\ src.marker.cursor \in Nat
  BY ReconciliationAssumption DEF IInv, TypeOK, SourceDocument, Version, Marker, Cursor
<1>2. src' = src => Proceeds
  BY <1>1 DEF Proceeds
<1>3. ASSUME NEW a \in Admin, Command(a)
      PROVE  IInv' /\ (Proceeds \/ Begins)
  <2>1. CASE CommitReplacement(a)
    <3>1. IInv'
      BY <2>1, Commits
    <3>2. PICK next \in Changes(admin[a]) : src' = next
      BY <2>1 DEF CommitReplacement, Replaces
    <3>3. admin[a] = src /\ src \in SourceDocument
      BY <2>1, NoneAssumption DEF CommitReplacement, IInv, Copies, CommandFits, TypeOK
    <3>4. SameVersion(src, src') \/ NextVersion(src, src')
      BY <3>2, <3>3, ChangesAreVersioned
    <3>5. SameVersion(src, src') => Proceeds
      BY <1>1 DEF SameVersion, Proceeds
    <3>6. NextVersion(src, src') => Begins
      BY <1>1 DEF NextVersion, PendingMarker, Begins
    <3> QED
      BY <3>1, <3>4, <3>5, <3>6
  <2>2. CASE ReadSource(a) \/ ReplacementRefused(a)
    BY <1>2, <2>2, CommandMoves DEF ReadSource, ReplacementRefused
  <2> QED
    BY <1>3, <2>1, <2>2 DEF Command
<1>4. ASSUME NEW r \in Runner, Reconcile(r) \/ Crash(r)
      PROVE  IInv' /\ (Proceeds \/ Begins)
  <2>1. CASE SelectSource(r)
    BY <1>2, <2>1, RunnerMoves DEF SelectSource, Point
  <2>2. CASE ClearExpired(r)
    BY <1>2, <2>2, RunnerMoves DEF ClearExpired, Point
  <2>3. CASE Acquire(r)
    BY <1>2, <2>3, RunnerMoves DEF Acquire, Point
  <2>4. CASE OpenPage(r)
    BY <1>2, <2>4, PageOpens DEF OpenPage
  <2>5. CASE MaterializePage(r)
    BY <2>5, Materializes DEF Proceeds
  <2>6. CASE PageFails(r)
    BY <1>2, <2>6, RunnerMoves DEF PageFails, Point
  <2>7. CASE MarkFailure(r)
    BY <1>1, <2>7, Fails DEF Proceeds
  <2>8. CASE Release(r)
    BY <1>2, <2>8, RunnerMoves DEF Release, Point
  <2>9. CASE Crash(r)
    BY <1>2, <2>9, RunnerMoves DEF Crash, Point
  <2> QED
    BY <1>4, <2>1, <2>2, <2>3, <2>4, <2>5, <2>6, <2>7, <2>8, <2>9 DEF Reconcile
<1>5. ASSUME NEW b \in Batch, Ingest(b)
      PROVE  IInv' /\ (Proceeds \/ Begins)
  BY <1>2, <1>5, BatchMoves DEF Ingest, OpenBatch, CommitBatch, EndBatch
<1>6. CASE HideTargets
  BY <1>6, TakesDown, Pauses DEF IInv, Begins
<1>7. CASE Expire
  <2>1. TypeOK'
    BY <1>7 DEF Expire, IInv, TypeOK
  <2> QED
    BY <1>2, <1>7, <2>1, OthersMove DEF Expire, Present
<1>8. CASE UNCHANGED vars
  <2>1. TypeOK'
    BY <1>8 DEF vars, IInv, TypeOK
  <2> QED
    BY <1>2, <1>8, <2>1, OthersMove DEF vars, Present
<1> QED
  BY <1>3, <1>4, <1>5, <1>6, <1>7, <1>8 DEF Next

LEMMA IInvAlways == Spec => []IInv
<1>1. IInv /\ [Next]_vars => IInv'
  BY IInvNext
<1> QED
  BY IInvInit, <1>1, PTL DEF Spec

(***************************************************************************)
(* Every reachable state of a source and its reconciliation is well typed. *)
(***************************************************************************)
THEOREM TypeCorrect == Spec => []TypeOK
<1>1. IInv => TypeOK
  BY DEF IInv
<1> QED
  BY IInvAlways, <1>1, PTL

(***************************************************************************)
(* A marker is always about the source's own version, no late page writes  *)
(* an old version's outcome over it, and where no takedown comes between   *)
(* two pages a completed one covers every article its version began with.  *)
(***************************************************************************)
THEOREM MarkersStayTrue == Spec => []MarkersAreTrue
<1>1. IInv => MarkersAreTrue
  <2> SUFFICES ASSUME IInv
               PROVE  MarkersAreTrue
    OBVIOUS
  <2> QED
    BY DEF IInv, MarkersAreTrue, CompletedIsComplete, Covered, Passed
<1> QED
  BY IInvAlways, <1>1, PTL

(***************************************************************************)
(* Rights never change without a new version that is to be reconciled, no  *)
(* late command brings an older one back, and within a version nothing     *)
(* takes the marker back (source-repository.js, commitReplacement).        *)
(***************************************************************************)
THEOREM VersionsAreMonotonic == Spec => RightsAreVersioned
<1>1. IInv /\ [Next]_vars => [VersionedStep /\ ProgressStep]_vars
  <2> SUFFICES ASSUME IInv, [Next]_vars
               PROVE  VersionedStep /\ ProgressStep
    OBVIOUS
  <2>1. Proceeds \/ Begins
    BY IInvNext
  <2> QED
    BY <2>1 DEF Proceeds, Begins, VersionedStep, ProgressStep
<1> QED
  BY IInvAlways, <1>1, PTL DEF Spec, RightsAreVersioned
=============================================================================
