--------------------- MODULE InvestigationReaders_proofs ---------------------
(***************************************************************************)
(* What the two cursors of an investigation keep, for any page size and    *)
(* any number of handlers, clients and messages: a cursor that moves to    *)
(* the last element of a page has passed nothing but what was in the page. *)
(***************************************************************************)
EXTENDS InvestigationStream, InvestigationChat, FiniteSetTheorems, TLAPS


-----------------------------------------------------------------------------
(* Finite sets of numbers, and the first elements of one                    *)

Below(S, n) == {s \in S : s < n}
Above(S, n) == {s \in S : s > n}

LEMMA BelowIs == \A S, n, s : s \in Below(S, n) <=> s \in S /\ s < n
  BY DEF Below

LEMMA AboveIs == \A S, n, s : s \in Above(S, n) <=> s \in S /\ s > n
  BY DEF Above

\* A set of finite sets has a member that contains no other.
LEMMA MinimalSet ==
    ASSUME NEW S, IsFiniteSet(S), NEW T \in SUBSET (SUBSET S), T # {}
    PROVE  \E x \in T : \A y \in T : y \subseteq x => y = x
<1>1. IsWellFoundedOn(StrictSubsetOrdering(S), SUBSET S)
  BY FS_StrictSubsetOrderingWellFounded, FS_FiniteSubsetsOfFinite
<1>2. PICK x \in T : \A y \in T : ~ (<<y, x>> \in StrictSubsetOrdering(S))
  BY <1>1, WFMin, Zenon
<1>3. ASSUME NEW y \in T, y \subseteq x, y # x PROVE FALSE
  <2>1. <<y, x>> \in (SUBSET S) \X (SUBSET S)
    BY Zenon
  <2>2. <<y, x>> \in StrictSubsetOrdering(S)
    BY <1>3, <2>1 DEF StrictSubsetOrdering
  <2> QED BY <1>2, <2>2
<1> QED BY <1>3

LEMMA BelowShrinks ==
    ASSUME NEW S \in SUBSET Nat, NEW m \in S, NEW s \in S, s <= m
    PROVE  Below(S, s) \subseteq Below(S, m) /\ Below(S, m) \in SUBSET S
<1>1. m \in Nat /\ s \in Nat /\ \A t \in S : t \in Nat
  OBVIOUS
<1>2. ASSUME NEW t \in Below(S, s) PROVE t \in Below(S, m)
  <2>1. t \in S /\ t < s
    BY BelowIs
  <2>2. t < m
    BY <1>1, <2>1
  <2> QED BY <2>1, <2>2, BelowIs
<1> QED BY <1>2 DEF Below

LEMMA MinimalBelow ==
    ASSUME NEW S, IsFiniteSet(S), S # {}
    PROVE  \E m \in S : \A s \in S : Below(S, s) \subseteq Below(S, m) => Below(S, s) = Below(S, m)
<1> DEFINE T == {Below(S, n) : n \in S}
<1>1. T \in SUBSET (SUBSET S) /\ T # {}
  BY DEF Below
<1>2. /\ \A n \in S : Below(S, n) \in T
      /\ \A x \in T : \E n \in S : x = Below(S, n)
  OBVIOUS
<1> HIDE DEF T
<1>3. PICK x \in T : \A y \in T : y \subseteq x => y = x
  BY <1>1, MinimalSet, SMT
<1> QED BY <1>2, <1>3

LEMMA MinimalAbove ==
    ASSUME NEW S, IsFiniteSet(S), S # {}
    PROVE  \E m \in S : \A s \in S : Above(S, s) \subseteq Above(S, m) => Above(S, s) = Above(S, m)
<1> DEFINE T == {Above(S, n) : n \in S}
<1>1. T \in SUBSET (SUBSET S) /\ T # {}
  BY DEF Above
<1>2. /\ \A n \in S : Above(S, n) \in T
      /\ \A x \in T : \E n \in S : x = Above(S, n)
  OBVIOUS
<1> HIDE DEF T
<1>3. PICK x \in T : \A y \in T : y \subseteq x => y = x
  BY <1>1, MinimalSet, SMT
<1> QED BY <1>2, <1>3

LEMMA Least ==
    ASSUME NEW S \in SUBSET Nat, IsFiniteSet(S), S # {}
    PROVE  \E m \in S : \A s \in S : m <= s
<1>1. PICK m \in S : \A s \in S : Below(S, s) \subseteq Below(S, m) => Below(S, s) = Below(S, m)
  BY MinimalBelow
<1>2. ASSUME NEW s \in S, s < m PROVE FALSE
  <2>1. m \in Nat /\ s \in Nat /\ \A t \in S : t \in Nat
    OBVIOUS
  <2>2. ASSUME NEW t \in Below(S, s) PROVE t \in Below(S, m)
    <3>1. t \in S /\ t < s
      BY BelowIs
    <3>2. t < m
      BY <1>2, <2>1, <3>1
    <3> QED BY <3>1, <3>2, BelowIs
  <2>3. s \in Below(S, m) /\ s \notin Below(S, s)
    BY <1>2, <2>1, BelowIs
  <2>4. Below(S, s) \subseteq Below(S, m)
    BY <2>2
  <2> QED BY <1>1, <2>3, <2>4
<1> QED BY <1>2

LEMMA Greatest ==
    ASSUME NEW S \in SUBSET Nat, IsFiniteSet(S), S # {}
    PROVE  Max(S) \in S /\ \A s \in S : s <= Max(S)
<1>1. PICK m \in S : \A s \in S : Above(S, s) \subseteq Above(S, m) => Above(S, s) = Above(S, m)
  BY MinimalAbove
<1>2. ASSUME NEW s \in S, s > m PROVE FALSE
  <2>1. m \in Nat /\ s \in Nat /\ \A t \in S : t \in Nat
    OBVIOUS
  <2>2. ASSUME NEW t \in Above(S, s) PROVE t \in Above(S, m)
    <3>1. t \in S /\ t > s
      BY AboveIs
    <3>2. t > m
      BY <1>2, <2>1, <3>1
    <3> QED BY <3>1, <3>2, AboveIs
  <2>3. s \in Above(S, m) /\ s \notin Above(S, s)
    BY <1>2, <2>1, AboveIs
  <2>4. Above(S, s) \subseteq Above(S, m)
    BY <2>2
  <2> QED BY <1>1, <2>3, <2>4
<1>3. \A s \in S : m >= s
  BY <1>2
<1> QED BY <1>3 DEF Max

LEMMA OneMore ==
    ASSUME NEW S, IsFiniteSet(S), NEW x
    PROVE  IsFiniteSet(S \cup {x}) /\ Cardinality(S \cup {x}) <= Cardinality(S) + 1
<1>1. Cardinality(S) \in Nat
  BY FS_CardinalityType
<1> QED BY <1>1, FS_AddElement

\* The first N elements of a set: they are downward closed in it, and all of it
\* where they are not N.
FirstOf(S, N) == {s \in S : Cardinality({t \in S : t < s}) < N}

LEMMA FirstIsClosed ==
    ASSUME NEW S \in SUBSET Nat, IsFiniteSet(S), NEW N \in Nat,
           NEW s \in S, NEW t \in FirstOf(S, N), s <= t
    PROVE  s \in FirstOf(S, N)
<1>1. t \in S /\ Cardinality(Below(S, t)) < N
  BY DEF FirstOf, Below
<1>2. IsFiniteSet(Below(S, t)) /\ Below(S, s) \in SUBSET Below(S, t)
  <2>1. Below(S, t) \in SUBSET S /\ Below(S, s) \in SUBSET Below(S, t)
    BY <1>1, BelowShrinks
  <2> QED BY <2>1, FS_Subset
<1>3. /\ Cardinality(Below(S, s)) <= Cardinality(Below(S, t))
      /\ Cardinality(Below(S, s)) \in Nat /\ Cardinality(Below(S, t)) \in Nat
  BY <1>2, FS_Subset, FS_CardinalityType
<1> QED BY <1>1, <1>3 DEF FirstOf, Below

LEMMA FirstIsAll ==
    ASSUME NEW S \in SUBSET Nat, IsFiniteSet(S), NEW N \in Nat,
           Cardinality(FirstOf(S, N)) # N
    PROVE  FirstOf(S, N) = S
<1> DEFINE F == FirstOf(S, N)
<1>1. F \in SUBSET S /\ IsFiniteSet(F) /\ IsFiniteSet(S \ F) /\ Cardinality(F) \in Nat
  <2>1. F \in SUBSET S /\ S \ F \in SUBSET S
    BY DEF FirstOf
  <2> QED BY <2>1, FS_Subset, FS_CardinalityType
<1>b. \A s \in S : s \in F <=> Cardinality(Below(S, s)) < N
  BY DEF FirstOf, Below
<1>c. Cardinality(F) # N
  OBVIOUS
<1>d. \A s \in S : s \in Nat
  OBVIOUS
<1> HIDE DEF F
<1>e. S \ F = {} => F = S
  BY <1>1
<1>2. SUFFICES ASSUME S \ F # {} PROVE FALSE
  BY <1>e DEF F
<1>3. PICK s \in S \ F : \A t \in S \ F : s <= t
  BY <1>1, <1>2, Least
<1>4. IsFiniteSet(Below(S, s)) /\ Cardinality(Below(S, s)) \in Nat
      /\ N <= Cardinality(Below(S, s))
  <2>1. IsFiniteSet(Below(S, s)) /\ Cardinality(Below(S, s)) \in Nat
    BY FS_Subset, FS_CardinalityType DEF Below
  <2> QED BY <1>b, <1>3, <2>1
<1>5. Below(S, s) \in SUBSET F
  <2>1. ASSUME NEW t \in Below(S, s) PROVE t \in F
    <3>1. t \in S /\ t < s
      BY BelowIs
    <3>2. t \in Nat /\ s \in Nat
      BY <1>d, <1>3, <3>1
    <3> QED BY <1>3, <3>1, <3>2
  <2> QED BY <2>1
<1>6. N <= Cardinality(F)
  BY <1>1, <1>4, <1>5, FS_Subset
<1>7. Cardinality(F) <= N
  <2>1. CASE F = {}
    BY <2>1, FS_EmptySet
  <2>2. CASE F # {}
    <3>1. Max(F) \in F /\ \A t \in F : t <= Max(F)
      BY <1>1, <2>2, Greatest
    <3>2. /\ IsFiniteSet(Below(S, Max(F))) /\ Cardinality(Below(S, Max(F))) \in Nat
          /\ Cardinality(Below(S, Max(F))) < N
      <4>1. IsFiniteSet(Below(S, Max(F))) /\ Cardinality(Below(S, Max(F))) \in Nat
        BY FS_Subset, FS_CardinalityType DEF Below
      <4> QED BY <1>1, <1>b, <3>1, <4>1
    <3>3. F \in SUBSET (Below(S, Max(F)) \cup {Max(F)})
      <4>1. ASSUME NEW t \in F, t # Max(F) PROVE t \in Below(S, Max(F))
        <5>1. t \in S /\ t \in Nat /\ Max(F) \in Nat /\ t <= Max(F)
          BY <1>1, <1>d, <3>1
        <5>2. t < Max(F)
          BY <4>1, <5>1
        <5> QED BY <5>1, <5>2, BelowIs
      <4> QED BY <4>1
    <3>4. /\ IsFiniteSet(Below(S, Max(F)) \cup {Max(F)})
          /\ Cardinality(Below(S, Max(F)) \cup {Max(F)}) <= Cardinality(Below(S, Max(F))) + 1
      BY <3>2, OneMore
    <3>5. /\ Cardinality(F) <= Cardinality(Below(S, Max(F)) \cup {Max(F)})
          /\ Cardinality(Below(S, Max(F)) \cup {Max(F)}) \in Nat
      BY <3>3, <3>4, FS_Subset, FS_CardinalityType
    <3> QED BY <1>1, <3>2, <3>4, <3>5
  <2> QED BY <2>1, <2>2
<1> QED BY <1>1, <1>c, <1>6, <1>7
-----------------------------------------------------------------------------
(* The event stream                                                         *)

WriterRecords == [batch : SUBSET Nat, does : {"nothing", "ends"}]
ViewerRecords == [pc : {"away", "read", "check", "trailing", "closed"}, cursor : Nat,
                  got : SUBSET Nat, full : BOOLEAN]

\* What a handler has inserted.
Holding(w) ==
    /\ writer[w].batch \in SUBSET (1 .. recorded)
    /\ writer[w].does = "ends" => writer[w].batch # {}

\* What handlers hold and what is committed.
WritersInv ==
    /\ recorded \in 0 .. MaxSeq /\ shown \in SUBSET (1 .. recorded) /\ over \in BOOLEAN
    /\ ending = 0 \/ (ending \in shown /\ over)
    /\ writer \in [Writers -> WriterRecords]
    /\ \A w \in Writers : Holding(w)

\* Behind a cursor everything was sent or came too late.
Accounted(v) ==
    \A s \in shown : s <= viewer[v].cursor => s \in viewer[v].got \cup overtaken[v]

\* A stream closes after the end, and has sent it.
ClosedWell(v) ==
    /\ viewer[v].pc \in {"trailing", "closed"} => over
    /\ viewer[v].pc = "closed" /\ ending # 0 /\ ~viewer[v].full
       => ending \in viewer[v].got \cup overtaken[v]

ViewersInv ==
    /\ viewer \in [Viewers -> ViewerRecords] /\ overtaken \in [Viewers -> SUBSET Nat]
    /\ \A v \in Viewers : viewer[v].got \in SUBSET shown /\ Accounted(v) /\ ClosedWell(v)

StreamInv == WritersInv /\ ViewersInv

LEMMA StreamInitInv == StreamInit => StreamInv
<1> SUFFICES ASSUME StreamInit PROVE StreamInv
  OBVIOUS
<1>1. WritersInv
  <2>1. Free \in WriterRecords /\ Free.batch = {} /\ Free.does # "ends"
    BY DEF Free, WriterRecords
  <2>2. /\ recorded = 0 /\ shown = {} /\ over = FALSE /\ ending = 0
        /\ writer = [w \in Writers |-> Free]
    BY DEF StreamInit
  <2>3. 0 \in 0 .. MaxSeq
    BY StreamAssumption
  <2>4. \A w \in Writers : writer[w] = Free
    BY <2>2
  <2>5. writer \in [Writers -> WriterRecords]
    BY <2>1, <2>2
  <2> QED BY <2>1, <2>2, <2>3, <2>4, <2>5 DEF WritersInv, Holding
<1>2. ViewersInv
  BY DEF StreamInit, ViewersInv, ViewerRecords, Absent, Accounted, ClosedWell
<1> QED BY <1>1, <1>2 DEF StreamInv

\* What is committed is a finite set of numbers, and so is what lies beyond a cursor.
LEMMA ShownIsFinite ==
    ASSUME WritersInv, NEW c \in Nat
    PROVE  /\ shown \in SUBSET Nat /\ \A s \in shown : s # 0
           /\ Beyond(c) \in SUBSET Nat /\ IsFiniteSet(Beyond(c))
<1>1. recorded \in Nat /\ shown \in SUBSET (1 .. recorded)
  BY StreamAssumption DEF WritersInv
<1>2. IsFiniteSet(1 .. recorded)
  BY <1>1, FS_Interval
<1>3. Beyond(c) \in SUBSET (1 .. recorded)
  BY <1>1 DEF Beyond
<1> QED BY <1>1, <1>2, <1>3, FS_Subset

\* A page is the start of what lies beyond the cursor.
LEMMA PageStarts ==
    ASSUME WritersInv, NEW c \in Nat
    PROVE  /\ Page(c) \in SUBSET Nat /\ IsFiniteSet(Page(c)) /\ Page(c) \in SUBSET shown
           /\ \A t \in Page(c) : \A s \in shown : c < s /\ s <= t => s \in Page(c)
           /\ \A t \in Page(c) : c < t
           /\ Cardinality(Page(c)) # StreamPage => \A s \in shown : c < s => s \in Page(c)
<1>1. /\ shown \in SUBSET Nat
      /\ Beyond(c) \in SUBSET Nat /\ IsFiniteSet(Beyond(c))
  BY ShownIsFinite
<1>2. \A s : s \in Beyond(c) <=> s \in shown /\ c < s
  BY <1>1 DEF Beyond
<1>3. Page(c) = FirstOf(Beyond(c), StreamPage)
  BY DEF Page, FirstOf
<1>4. StreamPage \in Nat
  BY StreamAssumption
<1>5. Page(c) \in SUBSET Beyond(c)
  BY DEF Page
<1>6. IsFiniteSet(Page(c)) /\ Page(c) \in SUBSET Nat /\ Page(c) \in SUBSET shown
  BY <1>1, <1>2, <1>5, FS_Subset
<1>7. ASSUME NEW t \in Page(c), NEW s \in shown, c < s, s <= t PROVE s \in Page(c)
  <2>1. s \in Beyond(c)
    BY <1>2, <1>7
  <2> QED BY <1>1, <1>3, <1>4, <1>7, <2>1, FirstIsClosed
<1>8. \A t \in Page(c) : c < t
  BY <1>2, <1>5
<1>9. ASSUME Cardinality(Page(c)) # StreamPage PROVE Page(c) = Beyond(c)
  BY <1>1, <1>3, <1>4, <1>9, FirstIsAll
<1> QED BY <1>2, <1>6, <1>7, <1>8, <1>9

\* A viewer whose cursor goes to `last` and who gets what lies between misses nothing.
LEMMA AccountedAdvances ==
    ASSUME StreamInv, UNCHANGED <<shown, overtaken>>, NEW v \in Viewers,
           viewer'[v].cursor \in Nat, viewer[v].got \in SUBSET viewer'[v].got,
           \A s \in shown : viewer[v].cursor < s /\ s <= viewer'[v].cursor => s \in viewer'[v].got
    PROVE  Accounted(v)'
<1>1. /\ shown \in SUBSET Nat /\ viewer[v].cursor \in Nat /\ Accounted(v)
  BY ShownIsFinite DEF StreamInv, ViewersInv, ViewerRecords
<1> SUFFICES ASSUME NEW s \in shown, s <= viewer'[v].cursor
             PROVE  s \in viewer'[v].got \cup overtaken[v]
  BY DEF Accounted
<1>2. CASE s <= viewer[v].cursor
  BY <1>1, <1>2 DEF Accounted
<1>3. CASE viewer[v].cursor < s
  BY <1>3
<1> QED BY <1>1, <1>2, <1>3

\* A step of one viewer.
LEMMA ViewerStep ==
    ASSUME StreamInv, UNCHANGED <<recorded, shown, over, ending, writer, overtaken>>,
           NEW v \in Viewers, NEW r \in ViewerRecords, viewer' = [viewer EXCEPT ![v] = r],
           r.got \in SUBSET shown, Accounted(v)', ClosedWell(v)'
    PROVE  StreamInv'
<1>1. WritersInv'
  BY DEF StreamInv, WritersInv, Holding
<1>2. viewer \in [Viewers -> ViewerRecords]
  BY DEF StreamInv, ViewersInv
<1>3. viewer' \in [Viewers -> ViewerRecords] /\ viewer'[v] = r
  BY <1>2
<1>4. ASSUME NEW u \in Viewers, u # v
      PROVE  viewer'[u].got \in SUBSET shown /\ Accounted(u)' /\ ClosedWell(u)'
  <2>1. viewer'[u] = viewer[u]
    BY <1>2, <1>4
  <2> QED BY <2>1 DEF StreamInv, ViewersInv, Accounted, ClosedWell
<1>5. ViewersInv'
  BY <1>3, <1>4 DEF StreamInv, ViewersInv
<1> QED BY <1>1, <1>5 DEF StreamInv

LEMMA SendsKeeps ==
    ASSUME StreamInv, UNCHANGED <<recorded, shown, over, ending, writer, overtaken>>,
           NEW v \in Viewers, NEW pc \in {"check", "closed"}, Sends(v, pc),
           pc = "closed" => viewer[v].pc = "trailing"
    PROVE  StreamInv'
<1> DEFINE now == viewer[v]  page == Page(now.cursor)
           next == [now EXCEPT !.pc = pc, !.got = @ \cup page,
                               !.cursor = IF page = {} THEN @ ELSE Max(page),
                               !.full = Cardinality(page) = StreamPage]
<1>1. /\ now \in ViewerRecords /\ now.cursor \in Nat /\ now.got \in SUBSET shown
      /\ Accounted(v) /\ ClosedWell(v)
  BY DEF StreamInv, ViewersInv, ViewerRecords
<1>2. /\ page \in SUBSET Nat /\ IsFiniteSet(page) /\ page \in SUBSET shown
      /\ \A t \in page : \A s \in shown : now.cursor < s /\ s <= t => s \in page
      /\ \A t \in page : now.cursor < t
      /\ Cardinality(page) # StreamPage => \A s \in shown : now.cursor < s => s \in page
  BY <1>1, PageStarts DEF StreamInv
<1>3. viewer' = [viewer EXCEPT ![v] = next] /\ viewer'[v] = next
  BY DEF Sends, StreamInv, ViewersInv
<1> HIDE DEF page
<1>4. page # {} => Max(page) \in page /\ \A s \in page : s <= Max(page)
  BY <1>2, Greatest
<1>5. /\ next \in ViewerRecords /\ next.pc = pc /\ next.got = now.got \cup page
      /\ next.cursor = (IF page = {} THEN now.cursor ELSE Max(page)) /\ next.cursor \in Nat
      /\ next.full = (Cardinality(page) = StreamPage)
  BY <1>1, <1>2, <1>4 DEF ViewerRecords
<1>6. shown \in SUBSET Nat /\ \A s \in shown : s # 0
  BY <1>1, ShownIsFinite DEF StreamInv
<1> HIDE DEF next, now
<1>7. Accounted(v)'
  <2>1. ASSUME NEW s \in shown, viewer[v].cursor < s, s <= viewer'[v].cursor
        PROVE  s \in viewer'[v].got
    <3>1. page # {}
      BY <1>1, <1>3, <1>5, <1>6, <2>1 DEF now
    <3>2. s <= Max(page)
      BY <1>3, <1>5, <2>1, <3>1
    <3> QED BY <1>2, <1>3, <1>4, <1>5, <2>1, <3>1, <3>2 DEF now
  <2> QED BY <1>3, <1>5, <2>1, AccountedAdvances DEF now
<1>8. ClosedWell(v)'
  <2>1. pc = "closed" => over
    BY <1>1 DEF ClosedWell
  <2>2. ASSUME pc = "closed", ending # 0, ~next.full
        PROVE  ending \in next.got \cup overtaken[v]
    <3>1. ending \in shown /\ ending \in Nat /\ now.cursor \in Nat
      BY <1>1, <1>6, <2>2 DEF StreamInv, WritersInv
    <3>2. CASE ending <= now.cursor
      BY <1>1, <1>5, <3>1, <3>2 DEF Accounted, now
    <3>3. CASE now.cursor < ending
      BY <1>2, <1>5, <2>2, <3>1, <3>3
    <3> QED BY <3>1, <3>2, <3>3
  <2> QED BY <1>3, <1>5, <2>1, <2>2 DEF ClosedWell
<1> QED BY <1>1, <1>2, <1>3, <1>5, <1>7, <1>8, ViewerStep

LEMMA LeaveKeeps ==
    ASSUME StreamInv, NEW v \in Viewers, Leave(v)
    PROVE  StreamInv'
<1> DEFINE now == viewer[v]
           page == IF now.pc = "check" THEN {} ELSE Page(now.cursor)
<1>1. /\ now \in ViewerRecords /\ now.cursor \in Nat /\ now.got \in SUBSET shown
      /\ Accounted(v) /\ ClosedWell(v)
  BY DEF StreamInv, ViewersInv, ViewerRecords
<1>2. /\ page \in SUBSET Nat /\ page \in SUBSET shown
      /\ \A t \in page : \A s \in shown : now.cursor < s /\ s <= t => s \in page
      /\ \A t \in page : now.cursor < t
  BY <1>1, PageStarts DEF StreamInv
<1>3. PICK last \in page \cup {now.cursor} :
          viewer' = [viewer EXCEPT ![v].pc = "away", ![v].cursor = last,
                                   ![v].got = @ \cup {s \in page : s <= last}]
  BY DEF Leave
<1> DEFINE part == {s \in page : s <= last}
           next == [now EXCEPT !.pc = "away", !.cursor = last, !.got = @ \cup part]
<1>4. viewer' = [viewer EXCEPT ![v] = next] /\ viewer'[v] = next
  BY <1>3 DEF StreamInv, ViewersInv
<1> HIDE DEF page
<1>5. \A s : s \in part <=> s \in page /\ s <= last
  OBVIOUS
<1>6. part \in SUBSET Nat /\ part \in SUBSET shown
  BY <1>2
<1> HIDE DEF part
<1>7. /\ next \in ViewerRecords /\ next.pc = "away" /\ next.got = now.got \cup part
      /\ next.cursor = last /\ last \in Nat
  BY <1>1, <1>2, <1>6 DEF ViewerRecords
<1>8. UNCHANGED <<recorded, shown, over, ending, writer, overtaken>>
  BY DEF Leave
<1>9. shown \in SUBSET Nat
  BY <1>1, ShownIsFinite DEF StreamInv
<1> HIDE DEF next, now
<1>10. Accounted(v)'
  <2>1. ASSUME NEW s \in shown, viewer[v].cursor < s, s <= viewer'[v].cursor
        PROVE  s \in viewer'[v].got
    <3>1. last \in page
      BY <1>1, <1>4, <1>7, <1>9, <2>1 DEF now
    <3> QED BY <1>2, <1>4, <1>5, <1>7, <2>1, <3>1 DEF now
  <2> QED BY <1>4, <1>7, <1>8, <2>1, AccountedAdvances DEF now
<1>11. ClosedWell(v)'
  BY <1>4, <1>7 DEF ClosedWell
<1> QED BY <1>1, <1>4, <1>6, <1>7, <1>8, <1>10, <1>11, ViewerStep

\* Opening, and reading the status.
LEMMA PcKeeps ==
    ASSUME StreamInv, NEW v \in Viewers, Open(v) \/ CheckStatus(v)
    PROVE  StreamInv'
<1> DEFINE pc == IF Open(v) \/ ~over THEN "read" ELSE "trailing"
           next == [viewer[v] EXCEPT !.pc = pc]
<1>1. /\ viewer[v] \in ViewerRecords /\ viewer[v].got \in SUBSET shown
      /\ Accounted(v) /\ viewer \in [Viewers -> ViewerRecords]
  BY DEF StreamInv, ViewersInv
<1>2. viewer' = [viewer EXCEPT ![v] = next] /\ viewer'[v] = next
  BY <1>1 DEF Open, CheckStatus
<1>3. UNCHANGED <<recorded, shown, over, ending, writer, overtaken>>
  BY DEF Open, CheckStatus
<1>4. /\ next \in ViewerRecords /\ next.pc = pc /\ next.got = viewer[v].got
      /\ next.cursor = viewer[v].cursor
  BY <1>1 DEF ViewerRecords
<1>5. pc # "closed" /\ (pc = "trailing" => over)
  OBVIOUS
<1> HIDE DEF next, pc
<1>6. Accounted(v)' /\ ClosedWell(v)'
  BY <1>1, <1>2, <1>3, <1>4, <1>5 DEF Accounted, ClosedWell
<1> QED BY <1>1, <1>2, <1>3, <1>4, <1>6, ViewerStep

\* A handler takes the next events, or none.
LEMMA WriterStep ==
    ASSUME StreamInv, UNCHANGED <<shown, over, ending, viewer, overtaken>>,
           NEW w \in Writers, NEW r \in WriterRecords, writer' = [writer EXCEPT ![w] = r],
           recorded' \in 0 .. MaxSeq, recorded <= recorded',
           r.batch \in SUBSET (1 .. recorded'), r.does = "ends" => r.batch # {}
    PROVE  StreamInv'
<1>1. ViewersInv'
  BY DEF StreamInv, ViewersInv, Accounted, ClosedWell
<1>2. recorded \in Nat /\ recorded' \in Nat /\ writer \in [Writers -> WriterRecords]
  BY StreamAssumption DEF StreamInv, WritersInv
<1>3. 1 .. recorded \in SUBSET (1 .. recorded')
  BY <1>2
<1>4. writer' \in [Writers -> WriterRecords] /\ writer'[w] = r
  BY <1>2
<1>5. ASSUME NEW u \in Writers PROVE Holding(u)'
  <2>1. CASE u = w
    BY <1>4, <2>1 DEF Holding
  <2>2. CASE u # w
    <3>1. writer'[u] = writer[u]
      BY <1>2, <2>2
    <3>2. Holding(u)
      BY DEF StreamInv, WritersInv
    <3> QED BY <1>3, <3>1, <3>2 DEF Holding
  <2> QED BY <2>1, <2>2
<1>6. shown' \in SUBSET (1 .. recorded')
  BY <1>3 DEF StreamInv, WritersInv
<1>7. WritersInv'
  BY <1>4, <1>5, <1>6 DEF StreamInv, WritersInv
<1> QED BY <1>1, <1>7 DEF StreamInv

\* A handler that takes no event of its own lets go.
LEMMA FreeKeeps == Free \in WriterRecords /\ Free.batch = {} /\ Free.does = "nothing"
  BY DEF Free, WriterRecords

LEMMA InsertKeeps ==
    ASSUME StreamInv, NEW w \in Writers, NEW n \in 1 .. MaxSeq, NEW does \in {"nothing", "ends"},
           InsertBatch(w, n, does)
    PROVE  StreamInv'
<1> DEFINE r == [batch |-> recorded + 1 .. recorded + n, does |-> does]
<1>1. /\ recorded \in Nat /\ n \in Nat /\ n # 0 /\ recorded <= MaxSeq /\ n <= MaxSeq - recorded
      /\ recorded' = recorded + n /\ MaxSeq \in Nat
  BY StreamAssumption DEF StreamInv, WritersInv, InsertBatch
<1>2. recorded' \in 0 .. MaxSeq /\ recorded <= recorded'
  BY <1>1
<1>3. r.batch \in SUBSET (1 .. recorded') /\ r.batch \in SUBSET Nat /\ recorded + 1 \in r.batch
  BY <1>1
<1>4. r \in WriterRecords
  BY <1>3 DEF WriterRecords
<1>5. /\ writer' = [writer EXCEPT ![w] = r]
      /\ UNCHANGED <<shown, over, ending, viewer, overtaken>>
  BY DEF InsertBatch
<1>6. r.batch # {}
  BY <1>3
<1> HIDE DEF r
<1> QED BY <1>2, <1>3, <1>4, <1>5, <1>6, WriterStep

LEMMA LoseKeeps ==
    ASSUME StreamInv, NEW w \in Writers, LoseBatch(w)
    PROVE  StreamInv'
<1>1. recorded' \in 0 .. MaxSeq /\ recorded <= recorded'
  BY StreamAssumption DEF StreamInv, WritersInv, LoseBatch
<1>2. writer' = [writer EXCEPT ![w] = Free] /\ UNCHANGED <<shown, over, ending, viewer, overtaken>>
  BY DEF LoseBatch
<1> QED BY <1>1, <1>2, FreeKeeps, WriterStep

LEMMA CommitKeeps ==
    ASSUME StreamInv, NEW w \in Writers, CommitBatch(w)
    PROVE  StreamInv'
<1> DEFINE batch == writer[w].batch
<1>1. /\ recorded \in Nat /\ shown \in SUBSET (1 .. recorded) /\ batch \in SUBSET (1 .. recorded)
      /\ writer \in [Writers -> WriterRecords]
      /\ writer[w].does = "ends" => batch # {}
  <2>1. recorded \in Nat /\ Holding(w)
    BY StreamAssumption DEF StreamInv, WritersInv
  <2>2. shown \in SUBSET (1 .. recorded) /\ writer \in [Writers -> WriterRecords]
    BY DEF StreamInv, WritersInv
  <2> QED BY <2>1, <2>2 DEF Holding
<1>2. shown' = shown \cup batch /\ recorded' = recorded /\ viewer' = viewer
  BY DEF CommitBatch
<1>3. batch \in SUBSET Nat /\ IsFiniteSet(batch)
  <2>1. IsFiniteSet(1 .. recorded)
    BY <1>1, FS_Interval
  <2> QED BY <1>1, <2>1, FS_Subset
<1>4. ending' = 0 \/ (ending' \in shown' /\ over')
  <2>1. CASE writer[w].does = "ends" /\ ~over
    <3>1. Max(batch) \in batch
      BY <1>1, <1>3, <2>1, Greatest
    <3> QED BY <1>2, <2>1, <3>1 DEF CommitBatch
  <2>2. CASE ~(writer[w].does = "ends" /\ ~over)
    BY <1>2, <2>2 DEF CommitBatch, StreamInv, WritersInv
  <2> QED BY <2>1, <2>2
<1>5. WritersInv'
  <2>1. writer' \in [Writers -> WriterRecords]
    BY <1>1, FreeKeeps DEF CommitBatch
  <2>2. ASSUME NEW u \in Writers PROVE Holding(u)'
    <3>1. CASE u = w
      <4>1. writer'[u] = Free
        BY <1>1, <3>1 DEF CommitBatch
      <4> QED BY <4>1, FreeKeeps DEF Holding
    <3>2. CASE u # w
      <4>1. writer'[u] = writer[u]
        BY <1>1, <3>2 DEF CommitBatch
      <4>2. Holding(u)
        BY DEF StreamInv, WritersInv
      <4> QED BY <1>2, <4>1, <4>2 DEF Holding
    <3> QED BY <3>1, <3>2
  <2>3. over' \in BOOLEAN
    BY DEF CommitBatch, StreamInv, WritersInv
  <2> QED BY <1>1, <1>2, <1>4, <2>1, <2>2, <2>3 DEF WritersInv, StreamInv
<1>6. ASSUME NEW v \in Viewers
      PROVE  viewer'[v].got \in SUBSET shown' /\ Accounted(v)' /\ ClosedWell(v)'
  <2>1. /\ viewer[v].got \in SUBSET shown /\ Accounted(v) /\ ClosedWell(v)
    BY DEF StreamInv, ViewersInv
  <2>2. overtaken'[v] = overtaken[v] \cup {s \in batch : s <= viewer[v].cursor}
    BY DEF CommitBatch
  <2>3. Accounted(v)'
    BY <1>2, <2>1, <2>2 DEF Accounted
  <2>4. viewer[v].pc \in {"trailing", "closed"} => over /\ over' /\ ending' = ending
    BY <2>1 DEF ClosedWell, CommitBatch
  <2>5. ClosedWell(v)'
    BY <1>2, <2>1, <2>2, <2>4 DEF ClosedWell
  <2> QED BY <1>2, <2>1, <2>3, <2>5
<1>7. ViewersInv'
  <2>1. \A v \in Viewers : {s \in batch : s <= viewer[v].cursor} \in SUBSET Nat
    BY <1>3
  <2>2. overtaken' \in [Viewers -> SUBSET Nat]
    BY <2>1 DEF CommitBatch, StreamInv, ViewersInv
  <2>3. viewer' \in [Viewers -> ViewerRecords]
    BY <1>2 DEF StreamInv, ViewersInv
  <2> QED BY <1>6, <2>2, <2>3 DEF ViewersInv
<1> QED BY <1>5, <1>7 DEF StreamInv

\* The sweep ends a record that is open: no event has ended it.
LEMMA SweepKeeps ==
    ASSUME StreamInv, EndWithoutEvent
    PROVE  StreamInv'
<1>1. WritersInv'
  BY DEF StreamInv, WritersInv, Holding, EndWithoutEvent
<1>2. ViewersInv'
  BY DEF StreamInv, WritersInv, ViewersInv, Accounted, ClosedWell, EndWithoutEvent
<1> QED BY <1>1, <1>2 DEF StreamInv

LEMMA StreamStepInv == StreamInv /\ [StreamStep]_streamVars => StreamInv'
<1> SUFFICES ASSUME StreamInv, [StreamStep]_streamVars PROVE StreamInv'
  OBVIOUS
<1>1. ASSUME NEW w \in Writers, NEW n \in 1 .. MaxSeq, NEW does \in {"nothing", "ends"},
             InsertBatch(w, n, does)
      PROVE  StreamInv'
  BY <1>1, InsertKeeps
<1>2. ASSUME NEW w \in Writers, CommitBatch(w) PROVE StreamInv'
  BY <1>2, CommitKeeps
<1>3. ASSUME NEW w \in Writers, LoseBatch(w) PROVE StreamInv'
  BY <1>3, LoseKeeps
<1>4. CASE EndWithoutEvent
  BY <1>4, SweepKeeps
<1>5. ASSUME NEW v \in Viewers, Open(v) \/ CheckStatus(v) PROVE StreamInv'
  BY <1>5, PcKeeps
<1>6. ASSUME NEW v \in Viewers, ReadEvents(v) PROVE StreamInv'
  BY <1>6, SendsKeeps DEF ReadEvents
<1>7. ASSUME NEW v \in Viewers, ReadTrailing(v) PROVE StreamInv'
  BY <1>7, SendsKeeps DEF ReadTrailing
<1>8. ASSUME NEW v \in Viewers, Leave(v) PROVE StreamInv'
  BY <1>8, LeaveKeeps
<1>9. CASE UNCHANGED streamVars
  BY <1>9 DEF streamVars, StreamInv, WritersInv, Holding, ViewersInv, Accounted, ClosedWell
<1> QED BY <1>1, <1>2, <1>3, <1>4, <1>5, <1>6, <1>7, <1>8, <1>9 DEF StreamStep

LEMMA StreamInvHolds == StreamSpec => []StreamInv
  BY StreamInitInv, StreamStepInv, PTL DEF StreamSpec

\* Every reachable stream is well-typed: a client has only events that were committed, and
\* those only that some handler inserted.
THEOREM StreamTypes == StreamSpec => []StreamTypeOK
<1>1. StreamInv => StreamTypeOK
  <2> SUFFICES ASSUME StreamInv PROVE StreamTypeOK
    OBVIOUS
  <2>1. recorded \in 0 .. MaxSeq /\ shown \in SUBSET (1 .. recorded) /\ MaxSeq \in Nat
    BY StreamAssumption DEF StreamInv, WritersInv
  <2>2. ending \in 0 .. MaxSeq
    <3>1. ending = 0 \/ ending \in 1 .. recorded
      BY DEF StreamInv, WritersInv
    <3> QED BY <2>1, <3>1
  <2>3. \A v \in Viewers : viewer[v] \in ViewerRecords /\ viewer[v].got \in SUBSET shown
    BY DEF StreamInv, ViewersInv
  <2> QED BY <2>1, <2>2, <2>3 DEF StreamTypeOK, ViewerRecords
<1> QED BY <1>1, StreamInvHolds, PTL

\* stream_investigation_events, however many handlers commit and clients reconnect: a client
\* lacks no event behind its cursor but those that were committed late, and a stream that
\* closes has shown what ended the investigation unless its last page was full.
THEOREM StreamsAreComplete == StreamSpec => []StreamIsComplete
<1>1. StreamInv => StreamIsComplete
  BY DEF StreamInv, ViewersInv, Accounted, ClosedWell, StreamIsComplete
<1> QED BY <1>1, StreamInvHolds, PTL

-----------------------------------------------------------------------------
(* The inbox                                                                *)

Increasing(q) == \A m, n \in DOMAIN q : m < n => q[m] < q[n]

SenderRecords == [pc : {"idle", "checked", "inserted"}, id : Nat]

\* Where a page comes from: the ids that are drawn and those that are committed.
InboxInv ==
    /\ lastId \in Nat /\ inbox \in SUBSET (1 .. lastId)
    /\ sender \in [Senders -> SenderRecords]
    /\ \A s \in Senders : sender[s].pc = "inserted" => sender[s].id \in (1 .. lastId) \ inbox
    /\ \A s, u \in Senders :
          s # u /\ sender[s].pc = "inserted" /\ sender[u].pc = "inserted"
          => sender[s].id # sender[u].id

\* What is written precedes what is about to be.
RelayInv ==
    /\ cursor \in Nat /\ polled \in Seq(Nat) /\ relayed \in Seq(Nat)
    /\ poller # "relaying" => polled = <<>>
    /\ Increasing(relayed) /\ Increasing(polled)
    /\ \A old \in ToSet(relayed), new \in ToSet(polled) : old < new

Passed == {id \in inbox : id <= cursor}

\* What the cursor has passed.
PassedInv ==
    /\ Passed = ToSet(relayed) \cup ToSet(polled) \cup unwritten \cup passedOver
    /\ (ToSet(relayed) \cup ToSet(polled)) \cap (unwritten \cup passedOver) = {}

ChatInv == InboxInv /\ RelayInv /\ PassedInv

LEMMA ToSetIs ==
    ASSUME NEW q \in Seq(Nat)
    PROVE  /\ \A x : x \in ToSet(q) <=> \E n \in 1 .. Len(q) : x = q[n]
           /\ ToSet(q) \in SUBSET Nat
  BY DEF ToSet

LEMMA ToSetOfEmpty == ToSet(<<>>) = {} /\ Increasing(<<>>) /\ <<>> \in Seq(Nat)
  BY DEF ToSet, Increasing

LEMMA AppendIncreases ==
    ASSUME NEW q \in Seq(Nat), NEW e \in Nat, Increasing(q), \A x \in ToSet(q) : x < e
    PROVE  /\ Append(q, e) \in Seq(Nat) /\ Increasing(Append(q, e))
           /\ ToSet(Append(q, e)) = ToSet(q) \cup {e}
<1>1. /\ Append(q, e) \in Seq(Nat) /\ Len(Append(q, e)) = Len(q) + 1 /\ Len(q) \in Nat
      /\ \A n \in 1 .. Len(q) : Append(q, e)[n] = q[n]
      /\ Append(q, e)[Len(q) + 1] = e
  OBVIOUS
<1>2. \A n \in 1 .. Len(q) : q[n] \in ToSet(q)
  BY ToSetIs
<1>3. Increasing(Append(q, e))
  <2> SUFFICES ASSUME NEW m \in 1 .. Len(q) + 1, NEW n \in 1 .. Len(q) + 1, m < n
               PROVE  Append(q, e)[m] < Append(q, e)[n]
    BY <1>1 DEF Increasing
  <2>1. m \in 1 .. Len(q)
    BY <1>1
  <2>2. CASE n = Len(q) + 1
    BY <1>1, <1>2, <2>1, <2>2
  <2>3. CASE n \in 1 .. Len(q)
    BY <1>1, <2>1, <2>3 DEF Increasing
  <2> QED BY <1>1, <2>2, <2>3
<1>4. ASSUME NEW x PROVE x \in ToSet(Append(q, e)) <=> x \in ToSet(q) \cup {e}
  <2> DEFINE longer == Append(q, e)
  <2>0. longer \in Seq(Nat) /\ Len(longer) = Len(q) + 1
    BY <1>1
  <2>1. x \in ToSet(longer) <=> \E n \in 1 .. Len(q) + 1 : x = longer[n]
    <3> HIDE DEF longer
    <3>1. x \in ToSet(longer) <=> \E n \in 1 .. Len(longer) : x = longer[n]
      BY <2>0, ToSetIs
    <3> QED BY <2>0, <3>1
  <2>2. x \in ToSet(q) <=> \E n \in 1 .. Len(q) : x = q[n]
    BY ToSetIs
  <2>3. \A n \in Nat : n \in 1 .. Len(q) + 1 <=> n \in 1 .. Len(q) \/ n = Len(q) + 1
    BY <1>1
  <2> QED BY <1>1, <2>1, <2>2, <2>3
<1> QED BY <1>1, <1>3, <1>4

LEMMA TailIncreases ==
    ASSUME NEW q \in Seq(Nat), Increasing(q), q # <<>>
    PROVE  /\ Tail(q) \in Seq(Nat) /\ Increasing(Tail(q)) /\ Head(q) \in Nat
           /\ ToSet(q) = ToSet(Tail(q)) \cup {Head(q)}
           /\ \A x \in ToSet(Tail(q)) : Head(q) < x
<1>1. /\ Tail(q) \in Seq(Nat) /\ Len(Tail(q)) = Len(q) - 1 /\ Len(q) \in Nat /\ Len(q) # 0
      /\ \A n \in 1 .. Len(q) - 1 : Tail(q)[n] = q[n + 1]
      /\ Head(q) = q[1] /\ q[1] \in Nat
  OBVIOUS
<1>2. Increasing(Tail(q))
  <2> SUFFICES ASSUME NEW m \in 1 .. Len(q) - 1, NEW n \in 1 .. Len(q) - 1, m < n
               PROVE  Tail(q)[m] < Tail(q)[n]
    BY <1>1 DEF Increasing
  <2>1. m + 1 \in 1 .. Len(q) /\ n + 1 \in 1 .. Len(q) /\ m + 1 < n + 1
    BY <1>1
  <2> QED BY <1>1, <2>1 DEF Increasing
<1>3. ASSUME NEW x PROVE x \in ToSet(Tail(q)) <=> \E n \in 1 .. Len(q) - 1 : x = q[n + 1]
  <2> DEFINE rest == Tail(q)
  <2>1. /\ rest \in Seq(Nat) /\ Len(rest) = Len(q) - 1
        /\ \A n \in 1 .. Len(q) - 1 : rest[n] = q[n + 1]
    BY <1>1
  <2> HIDE DEF rest
  <2>2. x \in ToSet(rest) <=> \E n \in 1 .. Len(rest) : x = rest[n]
    BY <2>1, ToSetIs
  <2>3. x \in ToSet(rest) <=> \E n \in 1 .. Len(q) - 1 : x = q[n + 1]
    BY <2>1, <2>2
  <2> QED BY <2>3 DEF rest
<1>4. ASSUME NEW x \in ToSet(Tail(q)) PROVE Head(q) < x
  <2>1. PICK n \in 1 .. Len(q) - 1 : x = q[n + 1]
    BY <1>3
  <2>2. 1 \in 1 .. Len(q) /\ n + 1 \in 1 .. Len(q) /\ 1 < n + 1
    BY <1>1
  <2> QED BY <1>1, <2>1, <2>2 DEF Increasing
<1>5. ASSUME NEW x PROVE x \in ToSet(q) <=> x \in ToSet(Tail(q)) \cup {Head(q)}
  <2>1. ASSUME NEW n \in 1 .. Len(q), x = q[n] PROVE x \in ToSet(Tail(q)) \cup {Head(q)}
    <3>1. CASE n = 1
      BY <1>1, <2>1, <3>1
    <3>2. CASE n # 1
      <4>1. n - 1 \in 1 .. Len(q) - 1 /\ n = (n - 1) + 1
        BY <1>1, <3>2
      <4> QED BY <1>3, <2>1, <4>1
    <3> QED BY <3>1, <3>2
  <2>2. ASSUME x \in ToSet(Tail(q)) PROVE \E n \in 1 .. Len(q) : x = q[n]
    <3>1. PICK n \in 1 .. Len(q) - 1 : x = q[n + 1]
      BY <1>3, <2>2
    <3>2. n + 1 \in 1 .. Len(q)
      BY <1>1
    <3> QED BY <3>1, <3>2
  <2>3. 1 \in 1 .. Len(q)
    BY <1>1
  <2> QED BY <1>1, <2>1, <2>2, <2>3, ToSetIs
<1> QED BY <1>1, <1>2, <1>4, <1>5

\* A page holds the next messages in order, and its last has no other behind it.
LEMMA PagesAreNext ==
    ASSUME InboxInv, cursor \in Nat, NEW page \in NextPages
    PROVE  /\ page \in Seq(Nat) /\ Increasing(page) /\ ToSet(page) = NextMessages
           /\ NextMessages # {} =>
                 Last(page) \in NextMessages /\ \A id \in NextMessages : id <= Last(page)
<1>1. lastId \in Nat /\ inbox \in SUBSET (1 .. lastId) /\ IsFiniteSet(1 .. lastId)
  BY FS_Interval DEF InboxInv
<1>2. NextMessages \in SUBSET (1 .. lastId)
  BY <1>1 DEF NextMessages, NotPolled
<1>3. Cardinality(NextMessages) \in Nat
  BY <1>1, <1>2, FS_Subset, FS_CardinalityType
<1>4. /\ page \in [1 .. Cardinality(NextMessages) -> NextMessages]
      /\ ToSet(page) = NextMessages /\ Increasing(page)
  BY DEF NextPages, Increasing
<1> DEFINE k == Cardinality(NextMessages)
<1>5. page \in Seq(Nat) /\ Len(page) = k /\ DOMAIN page = 1 .. k
  <2>1. \A id \in NextMessages : id \in Nat
    BY <1>1, <1>2
  <2>2. page \in [1 .. k -> Nat]
    BY <1>4, <2>1
  <2> QED BY <1>3, <2>2
<1> HIDE DEF k
<1>6. ASSUME NextMessages # {}
      PROVE  Last(page) \in NextMessages /\ \A id \in NextMessages : id <= Last(page)
  <2>1. \A x : x \in NextMessages <=> \E n \in 1 .. k : x = page[n]
    BY <1>4, <1>5, ToSetIs
  <2>2. k \in Nat /\ k \in 1 .. k
    BY <1>3, <1>6, <2>1 DEF k
  <2>3. Last(page) = page[k] /\ page[k] \in Nat
    BY <1>5, <2>2 DEF Last
  <2>4. ASSUME NEW id \in NextMessages PROVE id <= page[k]
    <3>1. PICK n \in 1 .. k : id = page[n]
      BY <2>1
    <3>2. CASE n = k
      BY <2>3, <3>1, <3>2
    <3>3. CASE n < k
      <4>1. page[n] < page[k]
        BY <1>4, <1>5, <2>2, <3>3 DEF Increasing
      <4>2. page[n] \in Nat
        BY <1>5
      <4> QED BY <2>3, <3>1, <4>1, <4>2
    <3> QED BY <2>2, <3>2, <3>3
  <2> QED BY <2>1, <2>2, <2>3, <2>4
<1> QED BY <1>4, <1>5, <1>6

LEMMA NextIsFirst ==
    ASSUME InboxInv, cursor \in Nat, NEW id \in inbox, cursor < id,
           NEW last \in NextMessages, id <= last
    PROVE  id \in NextMessages
<1>1. lastId \in Nat /\ inbox \in SUBSET (1 .. lastId) /\ IsFiniteSet(1 .. lastId)
  BY FS_Interval DEF InboxInv
<1>2. NotPolled \in SUBSET (1 .. lastId) /\ NotPolled \in SUBSET Nat
  <2>1. NotPolled \in SUBSET (1 .. lastId)
    BY <1>1 DEF NotPolled
  <2> QED BY <1>1, <2>1
<1>3. IsFiniteSet(NotPolled)
  BY <1>1, <1>2, FS_Subset
<1>4. NextMessages = FirstOf(NotPolled, InboxPage)
  BY DEF NextMessages, FirstOf
<1>5. id \in NotPolled
  BY <1>1 DEF NotPolled
<1>6. InboxPage \in Nat
  BY ChatAssumption
<1> QED BY <1>2, <1>3, <1>4, <1>5, <1>6, FirstIsClosed

LEMMA ChatInitInv == ChatInit => ChatInv
<1> SUFFICES ASSUME ChatInit PROVE ChatInv
  OBVIOUS
<1>1. InboxInv
  BY DEF ChatInit, InboxInv, SenderRecords, Mute
<1>2. RelayInv
  BY ToSetOfEmpty DEF ChatInit, RelayInv
<1>3. PassedInv
  BY ToSetOfEmpty DEF ChatInit, PassedInv, Passed
<1> QED BY <1>1, <1>2, <1>3 DEF ChatInv

\* The steps of a request, up to its commit.
LEMMA SenderStep ==
    ASSUME ChatInv, NEW s \in Senders, NEW r \in SenderRecords,
           sender' = [sender EXCEPT ![s] = r], lastId' \in Nat, lastId <= lastId',
           r.pc = "inserted" => lastId' = lastId + 1 /\ r.id = lastId',
           UNCHANGED <<inbox, passedOver, bridgeVars>>
    PROVE  ChatInv'
<1>1. /\ lastId \in Nat /\ inbox \in SUBSET (1 .. lastId) /\ sender \in [Senders -> SenderRecords]
      /\ \A u \in Senders : sender[u].pc = "inserted" => sender[u].id \in (1 .. lastId) \ inbox
  BY DEF ChatInv, InboxInv
<1>2. sender' \in [Senders -> SenderRecords] /\ sender'[s] = r
      /\ \A u \in Senders : u # s => sender'[u] = sender[u]
  BY <1>1
<1>3. \A id \in 1 .. lastId : id \in 1 .. lastId' /\ id # lastId + 1
  BY <1>1
<1>4. inbox' \in SUBSET (1 .. lastId')
  BY <1>1, <1>3
<1>5. ASSUME NEW u \in Senders, sender'[u].pc = "inserted"
      PROVE  sender'[u].id \in (1 .. lastId') \ inbox'
  <2>1. CASE u = s
    BY <1>1, <1>2, <1>3, <1>5, <2>1
  <2>2. CASE u # s
    BY <1>1, <1>2, <1>3, <1>5, <2>2
  <2> QED BY <2>1, <2>2
<1>6. ASSUME NEW t \in Senders, NEW u \in Senders, t # u,
             sender'[t].pc = "inserted", sender'[u].pc = "inserted"
      PROVE  sender'[t].id # sender'[u].id
  <2>1. ASSUME NEW v \in Senders, v # s, sender'[v].pc = "inserted"
        PROVE  sender'[v].id = sender[v].id /\ sender[v].id \in 1 .. lastId
    BY <1>1, <1>2, <2>1
  <2>2. CASE t = s
    BY <1>2, <1>3, <1>6, <2>1, <2>2
  <2>3. CASE u = s
    BY <1>2, <1>3, <1>6, <2>1, <2>3
  <2>4. CASE t # s /\ u # s
    BY <1>2, <1>6, <2>4 DEF ChatInv, InboxInv
  <2> QED BY <2>2, <2>3, <2>4
<1>7. InboxInv'
  BY <1>2, <1>4, <1>5, <1>6 DEF InboxInv
<1>8. RelayInv' /\ PassedInv'
  BY DEF ChatInv, RelayInv, PassedInv, Passed, bridgeVars
<1> QED BY <1>7, <1>8 DEF ChatInv

LEMMA MuteIs == Mute \in SenderRecords /\ Mute.pc # "inserted"
  BY DEF Mute, SenderRecords

LEMMA SendCommitsKeeps ==
    ASSUME ChatInv, NEW s \in Senders, SendCommits(s)
    PROVE  ChatInv'
<1> DEFINE id == sender[s].id
<1>1. /\ lastId \in Nat /\ inbox \in SUBSET (1 .. lastId) /\ sender \in [Senders -> SenderRecords]
      /\ sender[s].pc = "inserted" /\ id \in (1 .. lastId) \ inbox
      /\ inbox' = inbox \cup {id} /\ lastId' = lastId
  BY DEF ChatInv, InboxInv, SendCommits
<1>2. /\ sender' \in [Senders -> SenderRecords] /\ sender'[s].pc # "inserted"
      /\ \A u \in Senders : u # s => sender'[u] = sender[u]
  BY <1>1, MuteIs DEF SendCommits
<1>3. InboxInv'
  <2>1. ASSUME NEW u \in Senders, sender'[u].pc = "inserted"
        PROVE  u # s /\ sender[u].pc = "inserted" /\ sender'[u] = sender[u]
               /\ sender[u].id \in (1 .. lastId) \ inbox' /\ sender[u].id # id
    <3>1. u # s /\ sender'[u] = sender[u] /\ sender[u].pc = "inserted"
      BY <1>2, <2>1
    <3>2. sender[u].id \in (1 .. lastId) \ inbox /\ sender[u].id # id
      BY <1>1, <3>1 DEF ChatInv, InboxInv
    <3> QED BY <1>1, <3>1, <3>2
  <2>2. inbox' \in SUBSET (1 .. lastId')
    BY <1>1
  <2>3. ASSUME NEW t \in Senders, NEW u \in Senders, t # u,
               sender'[t].pc = "inserted", sender'[u].pc = "inserted"
        PROVE  sender'[t].id # sender'[u].id
    BY <2>1, <2>3 DEF ChatInv, InboxInv
  <2>4. \A u \in Senders : sender'[u].pc = "inserted" => sender'[u].id \in (1 .. lastId') \ inbox'
    BY <1>1, <2>1
  <2> HIDE DEF id
  <2> QED BY <1>1, <1>2, <2>2, <2>3, <2>4 DEF InboxInv
<1>4. UNCHANGED bridgeVars /\ UNCHANGED <<cursor, poller, polled, relayed, unwritten>>
  BY DEF SendCommits, bridgeVars
<1>5. RelayInv'
  BY <1>4 DEF ChatInv, RelayInv
<1>6. passedOver' = IF id <= cursor THEN passedOver \cup {id} ELSE passedOver
  BY DEF SendCommits
<1>7. /\ Passed = ToSet(relayed) \cup ToSet(polled) \cup unwritten \cup passedOver
      /\ (ToSet(relayed) \cup ToSet(polled)) \cap (unwritten \cup passedOver) = {}
  BY DEF ChatInv, PassedInv
<1>8. id \notin Passed /\ Passed' = IF id <= cursor THEN Passed \cup {id} ELSE Passed
  BY <1>1, <1>4 DEF Passed
<1> HIDE DEF id
<1>9. PassedInv'
  BY <1>4, <1>6, <1>7, <1>8 DEF PassedInv
<1> QED BY <1>3, <1>5, <1>9 DEF ChatInv

LEMMA PollAnsweredKeeps ==
    ASSUME ChatInv, PollAnswered
    PROVE  ChatInv'
<1> DEFINE fetched == NextMessages
<1>1. InboxInv /\ RelayInv /\ PassedInv /\ cursor \in Nat /\ polled = <<>>
  BY DEF ChatInv, RelayInv, PollAnswered
<1>2. PICK page \in NextPages : polled' = page
  BY DEF PollAnswered
<1>3. /\ polled' \in Seq(Nat) /\ Increasing(polled') /\ ToSet(polled') = fetched
      /\ fetched # {} => Last(polled') \in fetched /\ \A id \in fetched : id <= Last(polled')
  BY <1>1, <1>2, PagesAreNext
<1>4. /\ cursor' = IF fetched = {} THEN cursor ELSE Last(polled')
      /\ poller' = "relaying"
      /\ UNCHANGED <<serverVars, attempt, relayed, unwritten, passedOver>>
  BY DEF PollAnswered
<1>5. \A id \in inbox : id \in Nat
  BY <1>1 DEF InboxInv
<1>6. \A id \in fetched : id \in inbox /\ id \in Nat /\ cursor < id
  BY <1>1, <1>5 DEF NextMessages, NotPolled
<1>7. \A id \in inbox, last \in fetched : cursor < id /\ id <= last => id \in fetched
  BY <1>1, NextIsFirst
<1>8. UNCHANGED <<lastId, sender, inbox, relayed, unwritten, passedOver>>
  BY <1>4 DEF serverVars
<1>9. InboxInv'
  BY <1>1, <1>8 DEF InboxInv
<1>10. Passed' = Passed \cup fetched
  <2> HIDE DEF fetched
  <2>1. CASE fetched = {}
    BY <1>4, <1>8, <2>1 DEF Passed
  <2>2. CASE fetched # {}
    <3> DEFINE last == Last(polled')
    <3>1. last \in fetched /\ cursor' = last /\ last \in Nat /\ cursor < last
      BY <1>3, <1>4, <1>6, <2>2
    <3> HIDE DEF last
    <3>2. ASSUME NEW id \in inbox PROVE id <= last <=> id <= cursor \/ id \in fetched
      <4>1. id \in Nat /\ (id \in fetched => id <= last)
        BY <1>3, <1>5, <2>2 DEF last
      <4>2. id <= last /\ ~ (id <= cursor) => id \in fetched
        BY <1>1, <1>7, <3>1, <4>1
      <4> QED BY <1>1, <3>1, <4>1, <4>2
    <3>3. Passed' = {id \in inbox : id <= last}
      BY <1>8, <3>1 DEF Passed
    <3> QED BY <1>6, <3>2, <3>3 DEF Passed
  <2> QED BY <2>1, <2>2
<1>11. ASSUME NEW id \in fetched PROVE id \notin Passed
  BY <1>1, <1>6 DEF Passed
<1>12. Passed = ToSet(relayed) \cup unwritten \cup passedOver
  BY <1>1, ToSetOfEmpty DEF PassedInv
<1> HIDE DEF fetched
<1>13. RelayInv'
  <2>1. \A old \in ToSet(relayed), new \in fetched : old < new
    BY <1>1, <1>6, <1>12, <1>5 DEF Passed
  <2>2. cursor' \in Nat
    BY <1>1, <1>3, <1>4, <1>6
  <2> QED BY <1>1, <1>3, <1>4, <1>8, <2>1, <2>2 DEF RelayInv
<1>14. PassedInv'
  BY <1>1, <1>3, <1>8, <1>10, <1>11, <1>12, ToSetOfEmpty DEF PassedInv
<1> QED BY <1>9, <1>13, <1>14 DEF ChatInv

LEMMA RelayMessageKeeps ==
    ASSUME ChatInv, RelayMessage
    PROVE  ChatInv'
<1>1. /\ InboxInv /\ RelayInv /\ PassedInv /\ cursor \in Nat
      /\ relayed \in Seq(Nat) /\ polled \in Seq(Nat) /\ Increasing(relayed) /\ Increasing(polled)
      /\ poller = "relaying" /\ polled # <<>> /\ polled' = Tail(polled)
      /\ UNCHANGED <<serverVars, cursor, poller, attempt, passedOver>>
  BY DEF ChatInv, RelayInv, RelayMessage
<1> DEFINE next == Head(polled)  rest == Tail(polled)
<1>2. /\ rest \in Seq(Nat) /\ Increasing(rest) /\ next \in Nat
      /\ ToSet(polled) = ToSet(rest) \cup {next} /\ \A x \in ToSet(rest) : next < x
  BY <1>1, TailIncreases
<1>3. \A old \in ToSet(relayed), new \in ToSet(polled) : old < new
  BY <1>1 DEF RelayInv
<1>4. \/ attempt.stdin = "open" /\ relayed' = Append(relayed, next) /\ unwritten' = unwritten
      \/ relayed' = relayed /\ unwritten' = unwritten \cup {next}
  BY DEF RelayMessage
<1>5. polled' = rest /\ UNCHANGED <<lastId, sender, inbox, cursor, poller, passedOver>>
  BY <1>1 DEF serverVars
<1> HIDE DEF next, rest
<1>6. /\ Append(relayed, next) \in Seq(Nat) /\ Increasing(Append(relayed, next))
      /\ ToSet(Append(relayed, next)) = ToSet(relayed) \cup {next}
  BY <1>1, <1>2, <1>3, AppendIncreases
<1>7. InboxInv'
  BY <1>1, <1>5 DEF InboxInv
<1>8. ToSet(rest) \in SUBSET Nat /\ ToSet(relayed) \in SUBSET Nat
  BY <1>1, <1>2, ToSetIs
<1>9. next \notin ToSet(relayed) /\ next \notin ToSet(rest)
  <2>1. next \in ToSet(polled) /\ next \in Nat /\ ~ (next < next)
    BY <1>2
  <2> QED BY <1>2, <1>3, <2>1, Zenon
<1>10. Passed' = Passed
  BY <1>5 DEF Passed
<1>11. /\ Passed = ToSet(relayed) \cup ToSet(polled) \cup unwritten \cup passedOver
       /\ (ToSet(relayed) \cup ToSet(polled)) \cap (unwritten \cup passedOver) = {}
  BY <1>1 DEF PassedInv
<1>12. CASE relayed' = Append(relayed, next) /\ unwritten' = unwritten
  <2>1. ToSet(relayed') = ToSet(relayed) \cup {next}
    BY <1>6, <1>12
  <2>2. RelayInv'
    BY <1>1, <1>2, <1>3, <1>5, <1>6, <1>12, <2>1 DEF RelayInv
  <2>3. PassedInv'
    BY <1>2, <1>5, <1>10, <1>11, <1>12, <2>1 DEF PassedInv
  <2> QED BY <1>7, <2>2, <2>3 DEF ChatInv
<1>13. CASE relayed' = relayed /\ unwritten' = unwritten \cup {next}
  <2>1. RelayInv'
    BY <1>1, <1>2, <1>3, <1>5, <1>13 DEF RelayInv
  <2>2. PassedInv'
    BY <1>2, <1>5, <1>9, <1>10, <1>11, <1>13 DEF PassedInv
  <2> QED BY <1>7, <2>1, <2>2 DEF ChatInv
<1> QED BY <1>4, <1>12, <1>13

\* The poller raises, or its attempt ends: what it has not written is dropped.
LEMMA DropKeeps ==
    ASSUME ChatInv, Dropping, UNCHANGED <<serverVars, cursor, relayed, passedOver>>
    PROVE  ChatInv'
<1>1. UNCHANGED <<lastId, sender, inbox>>
  BY DEF serverVars
<1>2. InboxInv'
  BY <1>1 DEF ChatInv, InboxInv
<1>3. polled' = <<>> /\ unwritten' = unwritten \cup ToSet(polled)
  BY DEF Dropping
<1>4. RelayInv'
  <2>1. cursor \in Nat /\ relayed \in Seq(Nat) /\ Increasing(relayed)
    BY DEF ChatInv, RelayInv
  <2>2. polled' \in Seq(Nat) /\ Increasing(polled') /\ ToSet(polled') = {}
    BY <1>3, ToSetOfEmpty
  <2> QED BY <1>3, <2>1, <2>2 DEF RelayInv
<1>5. ToSet(relayed) \cap ToSet(polled) = {}
  <2>1. ToSet(relayed) \in SUBSET Nat
    BY ToSetIs DEF ChatInv, RelayInv
  <2>2. \A old \in ToSet(relayed), new \in ToSet(polled) : old < new
    BY DEF ChatInv, RelayInv
  <2> QED BY <2>1, <2>2
<1>6. PassedInv'
  <2>1. Passed' = Passed
    BY <1>1 DEF Passed
  <2>2. ToSet(polled') = {} /\ relayed' = relayed /\ passedOver' = passedOver
    BY <1>3, ToSetOfEmpty
  <2>3. /\ Passed = ToSet(relayed) \cup ToSet(polled) \cup unwritten \cup passedOver
        /\ (ToSet(relayed) \cup ToSet(polled)) \cap (unwritten \cup passedOver) = {}
    BY DEF ChatInv, PassedInv
  <2> QED BY <1>3, <1>5, <2>1, <2>2, <2>3 DEF PassedInv
<1> QED BY <1>2, <1>4, <1>6 DEF ChatInv

\* The steps that move nothing: the poller holds nothing where it does not relay.
LEMMA IdleKeeps ==
    ASSUME ChatInv, UNCHANGED <<lastId, sender, inbox, cursor, polled, relayed, unwritten, passedOver>>,
           poller' = "relaying" => poller = "relaying", poller' # "relaying" => polled = <<>>
    PROVE  ChatInv'
<1>1. InboxInv'
  BY DEF ChatInv, InboxInv
<1>2. RelayInv'
  BY DEF ChatInv, RelayInv
<1>3. PassedInv'
  BY DEF ChatInv, PassedInv, Passed
<1> QED BY <1>1, <1>2, <1>3 DEF ChatInv

LEMMA ChatStepInv == ChatInv /\ [ChatNext]_chatVars => ChatInv'
<1> SUFFICES ASSUME ChatInv, [ChatNext]_chatVars PROVE ChatInv'
  OBVIOUS
<1>1. /\ lastId \in Nat /\ sender \in [Senders -> SenderRecords]
      /\ poller # "relaying" => polled = <<>>
  BY DEF ChatInv, InboxInv, RelayInv
<1>2. ASSUME NEW s \in Senders, SendChecks(s) PROVE ChatInv'
  <2> DEFINE r == [sender[s] EXCEPT !.pc = "checked"]
  <2>1. r \in SenderRecords /\ r.pc # "inserted"
    BY <1>1 DEF SenderRecords
  <2>2. sender' = [sender EXCEPT ![s] = r] /\ UNCHANGED <<lastId, inbox, passedOver, bridgeVars>>
    BY <1>1, <1>2 DEF SendChecks
  <2>3. lastId' \in Nat /\ lastId <= lastId'
    BY <1>1, <2>2
  <2> HIDE DEF r
  <2> QED BY <2>1, <2>2, <2>3, SenderStep
<1>3. ASSUME NEW s \in Senders, SendInserts(s) PROVE ChatInv'
  <2> DEFINE r == [pc |-> "inserted", id |-> lastId + 1]
  <2>1. r \in SenderRecords /\ r.id = lastId + 1
    BY <1>1 DEF SenderRecords
  <2>2. /\ sender' = [sender EXCEPT ![s] = r] /\ lastId' = lastId + 1
        /\ UNCHANGED <<inbox, passedOver, bridgeVars>>
    BY <1>3 DEF SendInserts
  <2>3. lastId' \in Nat /\ lastId <= lastId'
    BY <1>1, <2>2
  <2> HIDE DEF r
  <2> QED BY <2>1, <2>2, <2>3, SenderStep
<1>4. ASSUME NEW s \in Senders, SendCommits(s) PROVE ChatInv'
  BY <1>4, SendCommitsKeeps
<1>5. ASSUME NEW s \in Senders, SendRollsBack(s) PROVE ChatInv'
  <2>1. sender' = [sender EXCEPT ![s] = Mute] /\ UNCHANGED <<lastId, inbox, passedOver, bridgeVars>>
    BY <1>5 DEF SendRollsBack
  <2>2. lastId' \in Nat /\ lastId <= lastId'
    BY <1>1, <2>1
  <2> QED BY <2>1, <2>2, MuteIs, SenderStep
<1>6. CASE RecordFinishes
  BY <1>1, <1>6, IdleKeeps DEF RecordFinishes, bridgeVars
<1>7. CASE PollAnswered
  BY <1>7, PollAnsweredKeeps
<1>8. CASE RelayMessage
  BY <1>8, RelayMessageKeeps
<1>9. CASE RelayRaises \/ AttemptEnds
  BY <1>9, DropKeeps DEF RelayRaises, AttemptEnds
<1>10. CASE PollFails \/ RelayEnds \/ WaitEnds
  BY <1>1, <1>10, IdleKeeps DEF PollFails, RelayEnds, WaitEnds, serverVars
<1>11. CASE WindDown \/ RunRaises \/ NextAttempt
  BY <1>1, <1>11, IdleKeeps DEF WindDown, RunRaises, NextAttempt, serverVars
<1>12. CASE UNCHANGED chatVars
  BY <1>1, <1>12, IdleKeeps DEF chatVars
<1> QED BY <1>2, <1>3, <1>4, <1>5, <1>6, <1>7, <1>8, <1>9, <1>10, <1>11, <1>12 DEF ChatNext

LEMMA ChatInvHolds == ChatSpec => []ChatInv
  BY ChatInitInv, ChatStepInv, PTL DEF ChatSpec

\* How far ids and the cursor have come, and where the poller and its attempt stand.
ReachInv ==
    /\ lastId <= MaxMessages /\ cursor <= lastId
    /\ poller \in {"polling", "relaying", "waiting", "stopped", "ended"}
    /\ attempt \in [number : 1 .. MaxAttempts, stdin : {"open", "closing", "closed"}]

LEMMA ReachNext == ChatInv /\ ReachInv /\ [ChatNext]_chatVars => ReachInv'
<1> SUFFICES ASSUME ChatInv, ReachInv, [ChatNext]_chatVars PROVE ReachInv'
  OBVIOUS
<1>1. /\ lastId \in Nat /\ inbox \in SUBSET (1 .. lastId) /\ cursor \in Nat
      /\ MaxMessages \in Nat /\ MaxAttempts \in Nat
  BY ChatAssumption DEF ChatInv, InboxInv, RelayInv
<1>2. ASSUME NEW s \in Senders,
             SendChecks(s) \/ SendInserts(s) \/ SendCommits(s) \/ SendRollsBack(s)
      PROVE  ReachInv'
  BY <1>1, <1>2 DEF SendChecks, SendInserts, SendCommits, SendRollsBack, bridgeVars, ReachInv
<1>3. CASE PollAnswered
  <2>1. PICK page \in NextPages : polled' = page
    BY <1>3 DEF PollAnswered
  <2>2. NextMessages # {} => Last(page) \in NextMessages
    BY <1>1, PagesAreNext DEF ChatInv
  <2>3. NextMessages \subseteq 1 .. lastId
    BY <1>1 DEF NextMessages, NotPolled
  <2>4. cursor' = IF NextMessages = {} THEN cursor ELSE Last(page)
    BY <1>3, <2>1 DEF PollAnswered
  <2>5. cursor' <= lastId
    BY <1>1, <2>2, <2>3, <2>4 DEF ReachInv
  <2>6. poller' = "relaying" /\ attempt' = attempt /\ lastId' = lastId
    BY <1>3 DEF PollAnswered, serverVars
  <2> QED BY <2>5, <2>6 DEF ReachInv
<1>4. CASE PollFails \/ RelayMessage \/ RelayRaises \/ RelayEnds \/ WaitEnds
  BY <1>4 DEF PollFails, RelayMessage, RelayRaises, RelayEnds, WaitEnds, serverVars, ReachInv
<1>5. CASE WindDown \/ RunRaises \/ NextAttempt
  <2>1. UNCHANGED <<lastId, cursor>> /\ poller' \in {poller, "polling"}
    BY <1>5 DEF WindDown, RunRaises, NextAttempt, serverVars
  <2>2. attempt' \in [number : 1 .. MaxAttempts, stdin : {"open", "closing", "closed"}]
    BY <1>1, <1>5 DEF WindDown, RunRaises, NextAttempt, ReachInv
  <2> QED BY <2>1, <2>2 DEF ReachInv
<1>6. CASE RecordFinishes \/ AttemptEnds \/ UNCHANGED chatVars
  BY <1>6 DEF RecordFinishes, AttemptEnds, chatVars, bridgeVars, serverVars, ReachInv
<1> QED BY <1>2, <1>3, <1>4, <1>5, <1>6 DEF ChatNext

\* The ids are drawn in order, what is committed was drawn, and next_cursor never lets the
\* poller's cursor overtake them; poller and attempt are well-typed.
THEOREM ChatTypes == ChatSpec => []ChatTypeOK
<1>1. ChatInit => ReachInv
  BY ChatAssumption DEF ChatInit, ReachInv
<1>2. ChatInv /\ ReachInv => ChatTypeOK
  BY ChatAssumption DEF ChatInv, InboxInv, RelayInv, ReachInv, ChatTypeOK
<1> QED BY <1>1, <1>2, ReachNext, ChatInvHolds, PTL DEF ChatSpec

\* record_user_message and the inbox poller, for any page size and any number of requests,
\* messages and attempts: no message is written to Prime twice or out of order, and each
\* that the cursor has passed was written, is held, was dropped or was committed too late.
THEOREM MessagesReachPrimeOnce == ChatSpec => []MessagesAreRelayedOnce
<1>1. ChatInv => MessagesAreRelayedOnce
  <2> SUFFICES ASSUME ChatInv PROVE MessagesAreRelayedOnce
    OBVIOUS
  <2>1. ToSet(relayed) \in SUBSET Nat
    BY ToSetIs DEF ChatInv, RelayInv
  <2>2. ToSet(relayed) \cap ToSet(polled) = {}
    BY <2>1 DEF ChatInv, RelayInv
  <2>3. \A m, n \in DOMAIN relayed : m < n => relayed[m] < relayed[n]
    BY DEF ChatInv, RelayInv, Increasing
  <2>4. /\ {id \in inbox : id <= cursor}
             = ToSet(relayed) \cup ToSet(polled) \cup unwritten \cup passedOver
        /\ (ToSet(relayed) \cup ToSet(polled)) \cap (unwritten \cup passedOver) = {}
    BY DEF ChatInv, PassedInv, Passed
  <2> QED BY <2>2, <2>3, <2>4 DEF MessagesAreRelayedOnce
<1> QED BY <1>1, ChatInvHolds, PTL

=============================================================================
