-------------------------- MODULE Libraries_proofs --------------------------
(***************************************************************************)
(* What is kept for good: the versions of CaseLibrary and the reviews of   *)
(* FailureReview, for any number of savers, items, proposals, reviewers.   *)
(*                                                                         *)
(* The libraries' invariant says of each item that its history is a row of *)
(* versions with different contents, and of each saver what its place in   *)
(* the transaction owes to that history: a saver that is about to insert   *)
(* has the version after the latest at most, one that has inserted is in   *)
(* conflict with nobody, and an importer has the item to itself.  For the  *)
(* reviews the row lock is what the argument rests on: whoever is about to *)
(* write still sees a proposal that nobody has reviewed.                   *)
(***************************************************************************)
EXTENDS CaseLibrary, FailureReview, FiniteSetTheorems, TLAPS

-----------------------------------------------------------------------------
(* Versioned cases, suites and imports                                      *)

Pcs      == {"idle", "lock", "read", "insert", "inserted", "refused", "done"}
Answers  == {"none", "created", "updated", "unchanged", "conflict"}
Busy     == {"insert", "refused", "inserted"}
Payloads == UNION {Contents(i) : i \in Items}
Row      == [version : Nat \ {0}, content : Payloads]
Saver    == [pc : Pcs, item : Items \cup {NoItem}, content : Payloads \cup {NoItem},
             version : Nat, answer : Answers]

\* What is stored of an item.
HistoryOK(i, h) ==
    /\ IsFiniteSet(h)
    /\ \A r \in h : r.content \in Contents(i)
    /\ {r.version : r \in h} = 1 .. Cardinality(h)
    /\ \A q, r \in h : Conflict(q, r) => q = r

\* The members of a suite are among the stored rows R.
Named(c, R) == \A m \in c : \E r \in R[m.case] : r.version = m.version

\* A saver x against the history h of its item.
Placed(x, h) ==
    /\ x.pc = "lock" => x.item \in Imports
    /\ x.pc \in {"read", "refused"} => x.item \notin Imports
    /\ x.pc \in Busy => x.version \in 1 .. Cardinality(h) + 1
    /\ x.pc = "inserted" \/ (x.pc = "insert" /\ x.item \in Imports) => \A r \in h : ~Conflict(r, x)
    /\ x.pc = "done" /\ (x.answer \in {"created", "unchanged"} \/ x.item \in Imports)
       => [version |-> x.version, content |-> x.content] \in h

SaverOK(x, R) ==
    \/ x.item = NoItem /\ x.pc = "idle"
    \/ /\ x.item \in Items /\ x.content \in Contents(x.item)
       /\ Placed(x, R[x.item])
       /\ x.item \in Suites => Named(x.content, R)

\* Two savers at the same item.
PairOK(x, y) ==
    x.item = y.item /\ x.item # NoItem =>
        /\ x.pc = "inserted" /\ y.pc = "inserted" => ~Conflict(x, y)
        /\ x.item \in Imports => ~(x.pc \in Busy /\ y.pc \in Busy)

RowsInv ==
    /\ rows \in [Items -> SUBSET Row]
    /\ \A i \in Items : HistoryOK(i, rows[i])
    /\ \A i \in Suites : \A r \in rows[i] : Named(r.content, rows)

SaversInv ==
    /\ saver \in [Savers -> Saver]
    /\ \A s \in Savers : SaverOK(saver[s], rows)
    /\ \A s, t \in Savers : s # t => PairOK(saver[s], saver[t])

LibInv == RowsInv /\ SaversInv

-----------------------------------------------------------------------------
(* Histories                                                                *)

\* The latest version is the number of the stored ones.
LEMMA LatestIsLast ==
    ASSUME RowsInv, NEW i \in Items
    PROVE  Latest(i) = Cardinality(rows[i])
<1> DEFINE n == Cardinality(rows[i])
           P(k) == (k = 0 \/ \E r \in rows[i] : r.version = k) /\ \A r \in rows[i] : r.version <= k
<1>1. n \in Nat /\ {r.version : r \in rows[i]} = 1 .. n
  BY FS_CardinalityType DEF RowsInv, HistoryOK
<1>2. n \in 0 .. n /\ P(n)
  <2>1. n # 0 => n \in {r.version : r \in rows[i]}
    BY <1>1
  <2>2. \A r \in rows[i] : r.version \in 1 .. n
    BY <1>1
  <2> QED
    BY <1>1, <2>1, <2>2
<1>3. \A k \in 0 .. n : P(k) => k = n
  <2>1. SUFFICES ASSUME NEW k \in 0 .. n, P(k), k # n PROVE FALSE
    OBVIOUS
  <2>2. n \in {r.version : r \in rows[i]}
    BY <1>1, <2>1
  <2> QED
    BY <1>1, <2>1, <2>2
<1>4. Latest(i) = CHOOSE k \in 0 .. n : P(k)
  BY DEF Latest
<1> HIDE DEF P, n
<1>5. Latest(i) \in 0 .. n /\ P(Latest(i))
  BY <1>2, <1>4, Zenon
<1> QED
  BY <1>3, <1>5 DEF n

\* One more row, the next version with a new content, makes a longer history.
LEMMA HistoryGrows ==
    ASSUME NEW i \in Items, NEW h \in SUBSET Row, HistoryOK(i, h),
           NEW x \in Row, x.content \in Contents(i),
           x.version \in 1 .. Cardinality(h) + 1,
           \A r \in h : ~Conflict(r, x)
    PROVE  HistoryOK(i, h \cup {x}) /\ Cardinality(h \cup {x}) = Cardinality(h) + 1
<1> DEFINE n == Cardinality(h)  g == h \cup {x}
<1>1. IsFiniteSet(h) /\ n \in Nat /\ {r.version : r \in h} = 1 .. n
  BY FS_CardinalityType DEF HistoryOK
<1>2. x \notin h
  BY DEF Conflict
<1>3. IsFiniteSet(g) /\ Cardinality(g) = n + 1
  BY <1>1, <1>2, FS_AddElement
<1>4. x.version = n + 1
  <2>1. x.version \notin {r.version : r \in h}
    BY DEF Conflict
  <2> QED
    BY <1>1, <2>1
<1>5. {r.version : r \in g} = 1 .. n + 1
  <2>1. {r.version : r \in g} = {r.version : r \in h} \cup {x.version}
    OBVIOUS
  <2>2. {r.version : r \in g} = (1 .. n) \cup {n + 1}
    BY <1>1, <1>4, <2>1
  <2>3. (1 .. n) \cup {n + 1} = 1 .. n + 1
    BY <1>1
  <2> QED
    BY <2>2, <2>3
<1>6. \A r \in g : r.content \in Contents(i)
  BY DEF HistoryOK
<1>7. \A q, r \in g : Conflict(q, r) => q = r
  <2>1. \A r \in h : ~Conflict(x, r)
    BY DEF Conflict
  <2> QED
    BY <2>1 DEF HistoryOK
<1> QED
  BY <1>3, <1>5, <1>6, <1>7 DEF HistoryOK

-----------------------------------------------------------------------------
(* Steps of a saver that leave the rows alone                               *)

LEMMA SaverStep ==
    ASSUME LibInv, NEW s \in Savers, NEW x \in Saver, rows' = rows,
           saver' = [saver EXCEPT ![s] = x], SaverOK(x, rows),
           \A t \in Savers \ {s} : PairOK(x, saver[t])
    PROVE  LibInv'
<1>1. RowsInv'
  BY DEF LibInv, RowsInv, HistoryOK, Named
<1>2. saver' \in [Savers -> Saver] /\ saver'[s] = x /\ \A t \in Savers \ {s} : saver'[t] = saver[t]
  BY DEF LibInv, SaversInv
<1>3. \A t \in Savers : SaverOK(saver'[t], rows')
  BY <1>2 DEF LibInv, SaversInv
<1>4. \A t \in Savers \ {s} : PairOK(saver[t], x)
  BY DEF PairOK, Conflict
<1>5. \A t, u \in Savers : t # u => PairOK(saver'[t], saver'[u])
  BY <1>2, <1>4 DEF LibInv, SaversInv
<1> QED
  BY <1>1, <1>2, <1>3, <1>5 DEF LibInv, SaversInv

\* What Set leaves.
LEMMA SetIs ==
    ASSUME SaversInv, NEW s \in Savers, saver[s].item \in Items,
           NEW pc \in Pcs, NEW n \in Nat, NEW answer \in Answers, Set(s, pc, n, answer)
    PROVE  \E x \in Saver :
              /\ saver' = [saver EXCEPT ![s] = x]
              /\ x.pc = pc /\ x.version = n /\ x.answer = answer
              /\ x.item = saver[s].item /\ x.content = saver[s].content
<1> DEFINE x == [saver[s] EXCEPT !.pc = pc, !.version = n, !.answer = answer]
<1>1. saver[s] \in Saver
  BY DEF SaversInv
<1>2. x \in Saver /\ x.pc = pc /\ x.version = n /\ x.answer = answer
      /\ x.item = saver[s].item /\ x.content = saver[s].content
  BY <1>1 DEF Saver
<1>3. saver' = [saver EXCEPT ![s] = x]
  BY DEF Set, SaversInv
<1> QED
  BY <1>2, <1>3

LEMMA SaveKeeps ==
    ASSUME LibInv, NEW s \in Savers, NEW i \in Items, NEW c \in Contents(i), Save(s, i, c)
    PROVE  LibInv'
<1> DEFINE x == [Asleep EXCEPT !.pc = IF i \in Imports THEN "lock" ELSE "read",
                               !.item = i, !.content = c]
<1>1. /\ x \in Saver /\ x.item = i /\ x.content = c
      /\ x.pc = IF i \in Imports THEN "lock" ELSE "read"
  BY DEF Asleep, Saver, Pcs, Answers, Payloads
<1>2. saver' = [saver EXCEPT ![s] = x] /\ rows' = rows
  BY DEF Save
<1>3. i \in Suites => Named(c, rows)
  BY DEF Save, Named
<1> HIDE DEF x
<1>4. SaverOK(x, rows)
  BY <1>1, <1>3 DEF SaverOK, Placed, Busy
<1>5. \A t \in Savers \ {s} : PairOK(x, saver[t])
  BY <1>1 DEF PairOK, Busy
<1> QED
  BY <1>1, <1>2, <1>4, <1>5, SaverStep

LEMMA ReadLatestKeeps ==
    ASSUME LibInv, NEW s \in Savers, ReadLatest(s)
    PROVE  LibInv'
<1> DEFINE i == saver[s].item  n == Latest(i)
<1>1. /\ i \in Items /\ saver[s].content \in Contents(i) /\ i \notin Imports
      /\ i \in Suites => Named(saver[s].content, rows)
  BY DEF ReadLatest, LibInv, SaversInv, SaverOK, Placed
<1>2. n = Cardinality(rows[i]) /\ n \in Nat
  BY <1>1, LatestIsLast, FS_CardinalityType DEF LibInv, RowsInv, HistoryOK
<1>3. rows' = rows
  BY DEF ReadLatest
<1>4. CASE Stored(i, n, saver[s].content)
  <2>1. Set(s, "done", n, "unchanged")
    BY <1>4 DEF ReadLatest
  <2>2. PICK x \in Saver :
          /\ saver' = [saver EXCEPT ![s] = x]
          /\ x.pc = "done" /\ x.version = n /\ x.answer = "unchanged"
          /\ x.item = i /\ x.content = saver[s].content
    BY <1>1, <1>2, <2>1, SetIs DEF LibInv, Pcs, Answers
  <2>3. SaverOK(x, rows)
    BY <1>1, <1>4, <2>2 DEF SaverOK, Placed, Busy, Stored
  <2>4. \A t \in Savers \ {s} : PairOK(x, saver[t])
    BY <2>2 DEF PairOK, Busy
  <2> QED
    BY <1>3, <2>2, <2>3, <2>4, SaverStep
<1>5. CASE ~Stored(i, n, saver[s].content)
  <2>1. Set(s, "insert", n + 1, "none")
    BY <1>5 DEF ReadLatest
  <2>2. PICK x \in Saver :
          /\ saver' = [saver EXCEPT ![s] = x]
          /\ x.pc = "insert" /\ x.version = n + 1 /\ x.answer = "none"
          /\ x.item = i /\ x.content = saver[s].content
    BY <1>1, <1>2, <2>1, SetIs DEF LibInv, Pcs, Answers
  <2>3. x.version \in 1 .. Cardinality(rows[i]) + 1
    BY <1>2, <2>2
  <2>4. SaverOK(x, rows)
    BY <1>1, <2>2, <2>3 DEF SaverOK, Placed, Busy
  <2>5. \A t \in Savers \ {s} : PairOK(x, saver[t])
    BY <1>1, <2>2 DEF PairOK
  <2> QED
    BY <1>3, <2>2, <2>4, <2>5, SaverStep
<1> QED
  BY <1>4, <1>5

\* A stored row is the one its fields name.
LEMMA RowIsStored ==
    ASSUME RowsInv, NEW i \in Items, NEW r \in rows[i]
    PROVE  r \in Row /\ [version |-> r.version, content |-> r.content] \in rows[i]
<1>1. r \in Row
  BY DEF RowsInv
<1>2. r = [version |-> r.version, content |-> r.content]
  BY <1>1 DEF Row
<1> QED
  BY <1>1, <1>2

LEMMA LockAndFindKeeps ==
    ASSUME LibInv, NEW s \in Savers, LockAndFind(s)
    PROVE  LibInv'
<1> DEFINE i == saver[s].item  c == saver[s].content
<1>1. i \in Items /\ c \in Contents(i) /\ i \in Imports /\ i \notin Suites
  BY LibraryAssumption DEF LockAndFind, LibInv, SaversInv, SaverOK, Placed
<1>2. rows' = rows /\ \A t \in Savers : ~HoldsLock(t, i)
  BY DEF LockAndFind
<1>3. ASSUME NEW r \in rows[i], r.content = c, Set(s, "done", r.version, "unchanged")
      PROVE  LibInv'
  <2>1. r.version \in Nat /\ [version |-> r.version, content |-> c] \in rows[i]
    BY <1>1, <1>3, RowIsStored DEF LibInv, Row
  <2>2. PICK x \in Saver :
          /\ saver' = [saver EXCEPT ![s] = x]
          /\ x.pc = "done" /\ x.version = r.version /\ x.answer = "unchanged"
          /\ x.item = i /\ x.content = c
    BY <1>1, <1>3, <2>1, SetIs DEF LibInv, Pcs, Answers
  <2>3. SaverOK(x, rows)
    BY <1>1, <2>1, <2>2 DEF SaverOK, Placed, Busy
  <2>4. \A t \in Savers \ {s} : PairOK(x, saver[t])
    BY <2>2 DEF PairOK, Busy
  <2> QED
    BY <1>2, <2>2, <2>3, <2>4, SaverStep
<1>4. ASSUME \A r \in rows[i] : r.content # c, Set(s, "insert", Latest(i) + 1, "none")
      PROVE  LibInv'
  <2> DEFINE n == Cardinality(rows[i])
  <2>1. Latest(i) = n /\ n \in Nat /\ {r.version : r \in rows[i]} = 1 .. n
    BY <1>1, LatestIsLast, FS_CardinalityType DEF LibInv, RowsInv, HistoryOK
  <2>2. PICK x \in Saver :
          /\ saver' = [saver EXCEPT ![s] = x]
          /\ x.pc = "insert" /\ x.version = n + 1 /\ x.answer = "none"
          /\ x.item = i /\ x.content = c
    BY <1>1, <1>4, <2>1, SetIs DEF LibInv, Pcs, Answers
  <2>3. \A r \in rows[i] : r.version \in 1 .. n
    BY <2>1
  <2>4. \A r \in rows[i] : ~Conflict(r, x)
    BY <1>4, <2>1, <2>2, <2>3 DEF Conflict
  <2>5. x.version \in 1 .. n + 1
    BY <2>1, <2>2
  <2>6. SaverOK(x, rows)
    BY <1>1, <2>2, <2>4, <2>5 DEF SaverOK, Placed
  <2>7. \A t \in Savers \ {s} : PairOK(x, saver[t])
    BY <1>2, <2>2 DEF PairOK, HoldsLock, Busy
  <2> QED
    BY <1>2, <2>2, <2>6, <2>7, SaverStep
<1> QED
  BY <1>3, <1>4 DEF LockAndFind

LEMMA InsertKeeps ==
    ASSUME LibInv, NEW s \in Savers, Insert(s)
    PROVE  LibInv'
<1> DEFINE i == saver[s].item  c == saver[s].content  n == saver[s].version
<1>1. /\ saver[s] \in Saver /\ saver[s].pc = "insert"
      /\ i \in Items /\ c \in Contents(i)
      /\ i \in Suites => Named(c, rows)
      /\ n \in 1 .. Cardinality(rows[i]) + 1
      /\ i \in Imports => \A r \in rows[i] : ~Conflict(r, saver[s])
  BY DEF Insert, LibInv, SaversInv, SaverOK, Placed, Busy
<1>2. n \in Nat /\ rows' = rows
  BY <1>1 DEF Insert, Saver
<1>3. \A r \in rows[i] : Conflict(r, RowOf(s)) <=> Conflict(r, saver[s])
  BY DEF Conflict, RowOf
<1>4. CASE \E r \in rows[i] : Conflict(r, RowOf(s))
  <2>1. Set(s, "refused", n, "none") /\ i \notin Imports
    BY <1>1, <1>3, <1>4 DEF Insert
  <2>2. PICK x \in Saver :
          /\ saver' = [saver EXCEPT ![s] = x]
          /\ x.pc = "refused" /\ x.version = n /\ x.answer = "none"
          /\ x.item = i /\ x.content = c
    BY <1>1, <1>2, <2>1, SetIs DEF LibInv, Pcs, Answers
  <2>3. SaverOK(x, rows)
    BY <1>1, <2>1, <2>2 DEF SaverOK, Placed
  <2>4. \A t \in Savers \ {s} : PairOK(x, saver[t])
    BY <2>1, <2>2 DEF PairOK
  <2> QED
    BY <1>2, <2>2, <2>3, <2>4, SaverStep
<1>5. CASE ~ \E r \in rows[i] : Conflict(r, RowOf(s))
  <2> DEFINE answer == IF n = 1 THEN "created" ELSE "updated"
  <2>1. Set(s, "inserted", n, answer) /\ answer \in Answers
    BY <1>5 DEF Insert, Answers
  <2>2. PICK x \in Saver :
          /\ saver' = [saver EXCEPT ![s] = x]
          /\ x.pc = "inserted" /\ x.version = n /\ x.answer = answer
          /\ x.item = i /\ x.content = c
    BY <1>1, <1>2, <2>1, SetIs DEF LibInv, Pcs
  <2>3. \A r \in rows[i] : ~Conflict(r, x)
    BY <1>5, <2>2 DEF Conflict, RowOf
  <2>4. SaverOK(x, rows)
    BY <1>1, <2>2, <2>3 DEF SaverOK, Placed
  <2>5. ASSUME NEW t \in Savers \ {s} PROVE PairOK(x, saver[t])
    <3>1. PairOK(saver[s], saver[t])
      BY DEF LibInv, SaversInv
    <3>2. saver[t].item = i /\ saver[t].pc = "inserted" => ~Conflict(x, saver[t])
      BY <2>2 DEF Insert, Conflict, RowOf
    <3> QED
      BY <1>1, <2>2, <3>1, <3>2 DEF PairOK, Busy
  <2> QED
    BY <1>2, <2>2, <2>4, <2>5, SaverStep
<1> QED
  BY <1>4, <1>5

LEMMA RefusedKeeps ==
    ASSUME LibInv, NEW s \in Savers, Refused(s)
    PROVE  LibInv'
<1> DEFINE i == saver[s].item  c == saver[s].content  n == Latest(i)
           answer == IF Stored(i, n, c) THEN "unchanged" ELSE "updated"
<1>1. i \in Items /\ c \in Contents(i) /\ i \notin Imports /\ (i \in Suites => Named(c, rows))
  BY DEF Refused, LibInv, SaversInv, SaverOK, Placed
<1>2. n \in Nat
  BY <1>1, LatestIsLast, FS_CardinalityType DEF LibInv, RowsInv, HistoryOK
<1>3. rows' = rows /\ Set(s, "done", n, answer) /\ answer \in Answers
  BY <1>1 DEF Refused, Answers
<1>4. PICK x \in Saver :
        /\ saver' = [saver EXCEPT ![s] = x]
        /\ x.pc = "done" /\ x.version = n /\ x.answer = answer
        /\ x.item = i /\ x.content = c
  BY <1>1, <1>2, <1>3, SetIs DEF LibInv, Pcs
<1>5. SaverOK(x, rows)
  BY <1>1, <1>4 DEF SaverOK, Placed, Busy, Stored
<1>6. \A t \in Savers \ {s} : PairOK(x, saver[t])
  BY <1>4 DEF PairOK, Busy
<1> QED
  BY <1>3, <1>4, <1>5, <1>6, SaverStep

LEMMA LoseKeeps ==
    ASSUME LibInv, NEW s \in Savers, LibLose(s)
    PROVE  LibInv'
<1>1. Asleep \in Saver /\ Asleep.item = NoItem /\ Asleep.pc = "idle"
  BY DEF Asleep, Saver, Pcs, Answers
<1>2. SaverOK(Asleep, rows) /\ \A t \in Savers \ {s} : PairOK(Asleep, saver[t])
  BY <1>1 DEF SaverOK, PairOK
<1> QED
  BY <1>1, <1>2, SaverStep DEF LibLose

-----------------------------------------------------------------------------
(* The commit, the only step that changes the rows                          *)

LEMMA CommitKeeps ==
    ASSUME LibInv, NEW s \in Savers, LibCommit(s)
    PROVE  LibInv'
<1> DEFINE i == saver[s].item  row == RowOf(s)  x == [saver[s] EXCEPT !.pc = "done"]
<1>1. /\ saver[s] \in Saver /\ saver[s].pc = "inserted"
      /\ i \in Items /\ saver[s].content \in Contents(i)
      /\ i \in Suites => Named(saver[s].content, rows)
      /\ saver[s].version \in 1 .. Cardinality(rows[i]) + 1
      /\ \A r \in rows[i] : ~Conflict(r, saver[s])
  BY LibraryAssumption DEF LibCommit, LibInv, SaversInv, SaverOK, Placed, Busy
<1>2. HistoryOK(i, rows[i]) /\ rows[i] \in SUBSET Row /\ Cardinality(rows[i]) \in Nat
  BY <1>1, FS_CardinalityType DEF LibInv, RowsInv, HistoryOK
<1>3. row \in Row /\ row.content = saver[s].content /\ row.version = saver[s].version
  BY <1>1, <1>2 DEF RowOf, Row, Saver, Payloads
<1>4. \A r \in rows[i] : ~Conflict(r, row)
  BY <1>1, <1>3 DEF Conflict
<1> HIDE DEF row
<1>5. /\ HistoryOK(i, rows[i] \cup {row})
      /\ Cardinality(rows[i] \cup {row}) = Cardinality(rows[i]) + 1
  BY <1>1, <1>2, <1>3, <1>4, HistoryGrows
<1>6. rows' = [rows EXCEPT ![i] = @ \cup {row}]
  BY DEF LibCommit, row
<1>7. /\ rows' \in [Items -> SUBSET Row] /\ rows'[i] = rows[i] \cup {row}
      /\ \A j \in Items \ {i} : rows'[j] = rows[j]
  BY <1>1, <1>3, <1>6 DEF LibInv, RowsInv
<1>8. ASSUME NEW j \in Suites, NEW c \in Contents(j), Named(c, rows) PROVE Named(c, rows')
  <2>1. ASSUME NEW m \in c PROVE \E r \in rows'[m.case] : r.version = m.version
    <3>1. m.case \in Items
      BY <1>8 DEF Contents, Members, Items
    <3>2. rows[m.case] \subseteq rows'[m.case]
      BY <1>7, <3>1
    <3> QED
      BY <1>8, <3>2 DEF Named
  <2> QED
    BY <2>1 DEF Named
<1>9. RowsInv'
  <2>1. \A j \in Items : HistoryOK(j, rows'[j])
    BY <1>5, <1>7 DEF LibInv, RowsInv
  <2>2. ASSUME NEW j \in Suites, NEW r \in rows'[j] PROVE Named(r.content, rows')
    <3>1. j \in Items
      BY DEF Items
    <3>2. r.content \in Contents(j)
      BY <2>1, <3>1 DEF HistoryOK
    <3>3. Named(r.content, rows)
      <4>1. CASE r \in rows[j]
        BY <4>1 DEF LibInv, RowsInv
      <4>2. CASE r \notin rows[j]
        BY <1>1, <1>3, <1>7, <3>1, <4>2
      <4> QED
        BY <4>1, <4>2
    <3> QED
      BY <1>8, <3>2, <3>3
  <2> QED
    BY <1>7, <2>1, <2>2 DEF RowsInv, HistoryOK, Named
<1>10. /\ x \in Saver /\ x.pc = "done" /\ x.version = saver[s].version /\ x.item = i
       /\ x.content = saver[s].content /\ x.answer = saver[s].answer
  BY <1>1 DEF Saver, Pcs
<1>11. /\ saver' = [saver EXCEPT ![s] = x] /\ saver' \in [Savers -> Saver]
       /\ saver'[s] = x /\ \A t \in Savers \ {s} : saver'[t] = saver[t]
  BY <1>10 DEF LibCommit, LibInv, SaversInv
<1> HIDE DEF x
<1>12. SaverOK(x, rows')
  <2>1. [version |-> x.version, content |-> x.content] \in rows'[i]
    BY <1>7, <1>10 DEF row, RowOf
  <2>2. i \in Suites => Named(x.content, rows')
    BY <1>1, <1>8, <1>10
  <2> QED
    BY <1>1, <1>10, <2>1, <2>2 DEF SaverOK, Placed, Busy
<1>13. ASSUME NEW t \in Savers \ {s} PROVE SaverOK(saver[t], rows')
  <2>1. SaverOK(saver[t], rows) /\ PairOK(saver[s], saver[t]) /\ saver[t] \in Saver
    BY DEF LibInv, SaversInv
  <2>2. CASE saver[t].item = NoItem
    BY <1>1, <2>1, <2>2, LibraryAssumption DEF SaverOK, Items
  <2>3. CASE saver[t].item # NoItem /\ saver[t].item # i
    <3>1. rows'[saver[t].item] = rows[saver[t].item]
      BY <1>7, <2>1, <2>3 DEF SaverOK
    <3> QED
      BY <1>8, <2>1, <2>3, <3>1 DEF SaverOK
  <2>4. CASE saver[t].item # NoItem /\ saver[t].item = i
    <3>1. Placed(saver[t], rows[i])
      BY <2>1, <2>4 DEF SaverOK
    <3>2. saver[t].pc \in Busy => saver[t].version \in 1 .. Cardinality(rows'[i]) + 1
      BY <1>2, <1>5, <1>7, <3>1 DEF Placed
    <3>3. saver[t].pc = "inserted" \/ (saver[t].pc = "insert" /\ i \in Imports)
          => ~Conflict(row, saver[t])
      BY <1>1, <1>3, <2>1, <2>4 DEF PairOK, Conflict, Busy
    <3>4. Placed(saver[t], rows'[i])
      BY <1>7, <2>4, <3>1, <3>2, <3>3 DEF Placed
    <3> QED
      BY <1>8, <2>1, <2>4, <3>4 DEF SaverOK
  <2> QED
    BY <2>2, <2>3, <2>4
<1>14. \A t \in Savers \ {s} : PairOK(x, saver[t]) /\ PairOK(saver[t], x)
  BY <1>10 DEF PairOK, Busy
<1>15. \A t, u \in Savers : t # u => PairOK(saver'[t], saver'[u])
  BY <1>11, <1>14 DEF LibInv, SaversInv
<1>16. \A t \in Savers : SaverOK(saver'[t], rows')
  BY <1>11, <1>12, <1>13
<1> QED
  BY <1>9, <1>11, <1>15, <1>16 DEF LibInv, SaversInv

-----------------------------------------------------------------------------
(* The invariant, and what it means                                         *)

LEMMA InitHolds == LibInit => LibInv
<1> SUFFICES ASSUME LibInit PROVE LibInv
  OBVIOUS
<1>1. rows \in [Items -> SUBSET Row] /\ \A i \in Items : rows[i] = {}
  BY DEF LibInit
<1>2. \A i \in Items : HistoryOK(i, rows[i])
  <2>1. IsFiniteSet({}) /\ Cardinality({}) = 0
    BY FS_EmptySet
  <2> QED
    BY <1>1, <2>1 DEF HistoryOK
<1>3. RowsInv
  BY <1>1, <1>2 DEF RowsInv, Items
<1>4. Asleep \in Saver /\ Asleep.item = NoItem /\ Asleep.pc = "idle"
  BY DEF Asleep, Saver, Pcs, Answers
<1>5. SaversInv
  BY <1>4 DEF LibInit, SaversInv, SaverOK, PairOK
<1> QED
  BY <1>3, <1>5 DEF LibInv

LEMMA NextKeeps == LibInv /\ [LibNext]_libVars => LibInv'
<1> SUFFICES ASSUME LibInv, [LibNext]_libVars PROVE LibInv'
  OBVIOUS
<1>1. ASSUME NEW s \in Savers, NEW i \in Items, NEW c \in Contents(i), Save(s, i, c) PROVE LibInv'
  BY <1>1, SaveKeeps
<1>2. ASSUME NEW s \in Savers, ReadLatest(s) PROVE LibInv'
  BY <1>2, ReadLatestKeeps
<1>3. ASSUME NEW s \in Savers, LockAndFind(s) PROVE LibInv'
  BY <1>3, LockAndFindKeeps
<1>4. ASSUME NEW s \in Savers, Insert(s) PROVE LibInv'
  BY <1>4, InsertKeeps
<1>5. ASSUME NEW s \in Savers, Refused(s) PROVE LibInv'
  BY <1>5, RefusedKeeps
<1>6. ASSUME NEW s \in Savers, LibCommit(s) PROVE LibInv'
  BY <1>6, CommitKeeps
<1>7. ASSUME NEW s \in Savers, LibLose(s) PROVE LibInv'
  BY <1>7, LoseKeeps
<1>8. CASE UNCHANGED libVars
  BY <1>8 DEF libVars, LibInv, RowsInv, SaversInv, HistoryOK, Named, SaverOK, Placed, PairOK, Conflict
<1> QED
  BY <1>1, <1>2, <1>3, <1>4, <1>5, <1>6, <1>7, <1>8 DEF LibNext

LEMMA LibInvariant == LibSpec => []LibInv
  BY InitHolds, NextKeeps, PTL DEF LibSpec

\* Every row save_case, save_suite and the imports store has a version from 1 and a content
\* of its item's kind, and every request stands at one of the services' statements.
THEOREM LibraryTypes == LibSpec => []LibTypeOK
<1>1. LibInv => LibTypeOK
  <2> SUFFICES ASSUME LibInv PROVE LibTypeOK
    OBVIOUS
  <2>1. \A i \in Items : \A r \in rows[i] : r.version \in Nat \ {0} /\ r.content \in Contents(i)
    BY DEF LibInv, RowsInv, HistoryOK, Row
  <2>2. \A s \in Savers : saver[s] \in Saver
    BY DEF LibInv, SaversInv
  <2> QED BY <2>1, <2>2 DEF LibTypeOK, Saver, Pcs, Answers
<1> QED BY <1>1, LibInvariant, PTL

\* Versions are contiguous and contents differ, for any number of savers: of two
\* saves that compute the same version, the unique keys let one through
\* (regression/repository.py insert_version).
THEOREM HistoriesAreComplete == LibSpec => []HistoryIsComplete
<1>1. LibInv => HistoryIsComplete
  BY DEF LibInv, RowsInv, HistoryOK, HistoryIsComplete, Conflict
<1> QED
  BY <1>1, LibInvariant, PTL

\* What a saver was told is stored is stored, and no import is ever told to retry:
\* the advisory lock (evidence/store.py lock_evidence) keeps its item to itself.
THEOREM ReportedSavesAreStored == LibSpec => []AnswersAreStored
<1>1. LibInv => AnswersAreStored
  <2> SUFFICES ASSUME LibInv, NEW s \in Savers, saver[s].pc = "done",
                      saver[s].answer \in {"created", "unchanged"} \/ saver[s].item \in Imports
               PROVE  Stored(saver[s].item, saver[s].version, saver[s].content)
    BY DEF AnswersAreStored
  <2> QED
    BY DEF LibInv, SaversInv, SaverOK, Placed, Stored
<1> QED
  BY <1>1, LibInvariant, PTL

\* A suite's members, looked up before its insert (suite/service.py save_suite), are
\* still there whenever it is read: no step takes a row away.
THEOREM SuitesAreGrounded == LibSpec => []SuiteMembersExist
<1>1. LibInv => SuiteMembersExist
  <2> SUFFICES ASSUME LibInv, NEW i \in Suites,
                      NEW c \in {r.content : r \in rows[i]}
                                \cup {saver[s].content : s \in {t \in Savers : saver[t].item = i}}
               PROVE  Named(c, rows)
    BY DEF SuiteMembersExist, Named
  <2>1. CASE c \in {r.content : r \in rows[i]}
    BY <2>1 DEF LibInv, RowsInv
  <2>2. ASSUME NEW s \in Savers, saver[s].item = i, c = saver[s].content PROVE Named(c, rows)
    BY <2>2, LibraryAssumption DEF LibInv, SaversInv, SaverOK, Items
  <2> QED
    BY <2>1, <2>2
<1> QED
  BY <1>1, LibInvariant, PTL

-----------------------------------------------------------------------------
(* The review of failure groups                                             *)

USE ReviewAssumption

ReviewRecords == [by : Reviewers \cup {Nobody}, decision : DOMAIN Verdicts \cup {"none"}]

ReviewTypeInv ==
    /\ standing \in [Proposals -> {"absent", "proposed"} \cup Decided]
    /\ review \in [Proposals -> ReviewRecords]
    /\ reviewer \in [Reviewers ->
          [pc : {"idle", "decide", "written", "accepted", "refused"},
           on : Proposals \cup {Nobody}, decision : DOMAIN Verdicts \cup {"none"},
           saw : ReviewRecords]]

\* A proposal has its review with its verdict, and none before.
VerdictInv ==
    \A p \in Proposals :
        \/ standing[p] \in {"absent", "proposed"} /\ review[p] = NoReview
        \/ /\ review[p] # NoReview /\ review[p].decision \in DOMAIN Verdicts
           /\ standing[p] = Verdicts[review[p].decision]

\* Who holds a row alone holds it, and nobody has reviewed what it is about.
RowInv ==
    \A r \in Reviewers :
        /\ reviewer[r].pc \in {"decide", "written"} =>
              /\ reviewer[r].on \in Proposals /\ reviewer[r].decision \in DOMAIN Verdicts
              /\ standing[reviewer[r].on] = "proposed"
              /\ \A q \in Reviewers : HoldsRow(q, reviewer[r].on) => q = r
        /\ reviewer[r].pc = "accepted" =>
              /\ reviewer[r].on \in Proposals /\ reviewer[r].decision \in DOMAIN Verdicts
              /\ review[reviewer[r].on] = [by |-> r, decision |-> reviewer[r].decision]

\* What the consumer has read is what is stored, now too.
ConsumerInv ==
    /\ consumer.got # NoReview => consumer.on # Nobody
    /\ consumer.on # Nobody =>
          /\ consumer.on \in Proposals
          /\ consumer.kind \in {"confirmed", "corrected"}
          /\ standing[consumer.on] = consumer.kind
          /\ consumer.got # NoReview => consumer.got = review[consumer.on]

ReviewInv == ReviewTypeInv /\ VerdictInv /\ RowInv /\ ConsumerInv

LEMMA VerdictFacts ==
    /\ DOMAIN Verdicts = {"confirm", "correct", "reject"}
    /\ Decided = {"confirmed", "corrected", "rejected"}
    /\ \A d \in DOMAIN Verdicts : Verdicts[d] \in Decided
    /\ \A r \in Reviewers, d \in DOMAIN Verdicts : [by |-> r, decision |-> d] # NoReview
  BY DEF Verdicts, Decided, NoReview

LEMMA ReviewInitInv == ReviewInit => ReviewInv
  BY VerdictFacts DEF ReviewInit, ReviewInv, ReviewTypeInv, VerdictInv, RowInv, ConsumerInv,
     ReviewRecords, NoReview, Resting, HoldsRow

\* One step per action.
LEMMA ReviewStep == ReviewInv /\ [ReviewNext]_reviewVars => ReviewInv'
<1> SUFFICES ASSUME ReviewInv, [ReviewNext]_reviewVars PROVE ReviewInv'
  OBVIOUS
<1> USE VerdictFacts
<1>1. ASSUME NEW p \in Proposals, Propose(p) PROVE ReviewInv'
  <2>1. ReviewTypeInv'
    BY <1>1 DEF Propose, ReviewInv, ReviewTypeInv
  <2>2. VerdictInv'
    BY <1>1 DEF Propose, ReviewInv, ReviewTypeInv, VerdictInv
  <2>3. RowInv'
    BY <1>1 DEF Propose, ReviewInv, ReviewTypeInv, RowInv, HoldsRow
  <2>4. ConsumerInv'
    BY <1>1 DEF Propose, ReviewInv, ReviewTypeInv, ConsumerInv
  <2> QED BY <2>1, <2>2, <2>3, <2>4 DEF ReviewInv
<1>2. ASSUME NEW p \in Proposals, NEW r \in Reviewers, NEW d \in DOMAIN Verdicts,
             LockProposal(r, p, d)
      PROVE ReviewInv'
  <2>1. ReviewTypeInv'
    BY <1>2 DEF LockProposal, ReviewInv, ReviewTypeInv, ReviewRecords
  <2>2. VerdictInv'
    BY <1>2 DEF LockProposal, ReviewInv, VerdictInv
  <2>3. RowInv'
    BY <1>2 DEF LockProposal, ReviewInv, ReviewTypeInv, RowInv, HoldsRow
  <2>4. ConsumerInv'
    BY <1>2 DEF LockProposal, ReviewInv, ConsumerInv
  <2> QED BY <2>1, <2>2, <2>3, <2>4 DEF ReviewInv
<1>3. ASSUME NEW r \in Reviewers, WriteReview(r) PROVE ReviewInv'
  <2>1. ReviewTypeInv'
    BY <1>3 DEF WriteReview, ReviewInv, ReviewTypeInv
  <2>2. VerdictInv'
    BY <1>3 DEF WriteReview, ReviewInv, VerdictInv
  <2>3. review[reviewer[r].on] = NoReview
    <3>1. reviewer[r].on \in Proposals /\ standing[reviewer[r].on] = "proposed"
      BY <1>3 DEF WriteReview, ReviewInv, RowInv
    <3>2. \A d \in DOMAIN Verdicts : Verdicts[d] # "proposed"
      BY DEF Verdicts
    <3> QED BY <3>1, <3>2 DEF ReviewInv, VerdictInv
  <2>4. RowInv'
    BY <1>3, <2>3 DEF WriteReview, ReviewInv, ReviewTypeInv, RowInv, HoldsRow
  <2>5. ConsumerInv'
    BY <1>3 DEF WriteReview, ReviewInv, ConsumerInv
  <2> QED BY <2>1, <2>2, <2>4, <2>5 DEF ReviewInv
<1>4. ASSUME NEW r \in Reviewers, ReviewCommit(r) PROVE ReviewInv'
  <2> DEFINE p == reviewer[r].on
  <2>0. /\ p \in Proposals /\ reviewer[r].decision \in DOMAIN Verdicts
        /\ standing[p] = "proposed" /\ review[p] = NoReview
    BY <1>4 DEF ReviewCommit, ReviewInv, RowInv, VerdictInv
  <2>1. ReviewTypeInv'
    BY <1>4, <2>0 DEF ReviewCommit, ReviewInv, ReviewTypeInv, ReviewRecords
  <2>2. VerdictInv'
    BY <1>4, <2>0 DEF ReviewCommit, ReviewInv, ReviewTypeInv, VerdictInv
  <2>3. RowInv'
    BY <1>4, <2>0 DEF ReviewCommit, ReviewInv, ReviewTypeInv, RowInv, HoldsRow
  <2>4. ConsumerInv'
    BY <1>4, <2>0 DEF ReviewCommit, ReviewInv, ReviewTypeInv, ConsumerInv
  <2> QED BY <2>1, <2>2, <2>3, <2>4 DEF ReviewInv
<1>5. ASSUME NEW r \in Reviewers, ReviewLose(r) \/ AskAgain(r) PROVE ReviewInv'
  <2>1. ReviewTypeInv'
    BY <1>5 DEF ReviewLose, AskAgain, ReviewInv, ReviewTypeInv, ReviewRecords, Resting, NoReview
  <2>2. VerdictInv'
    BY <1>5 DEF ReviewLose, AskAgain, ReviewInv, VerdictInv
  <2>3. RowInv'
    BY <1>5 DEF ReviewLose, AskAgain, ReviewInv, ReviewTypeInv, RowInv, HoldsRow, Resting
  <2>4. ConsumerInv'
    BY <1>5 DEF ReviewLose, AskAgain, ReviewInv, ConsumerInv
  <2> QED BY <2>1, <2>2, <2>3, <2>4 DEF ReviewInv
<1>6. ASSUME NEW p \in Proposals, ReadProposal(p) PROVE ReviewInv'
  BY <1>6 DEF ReadProposal, ReviewInv, ReviewTypeInv, VerdictInv, RowInv, ConsumerInv, HoldsRow
<1>7. CASE ReadReview
  BY <1>7 DEF ReadReview, ReviewInv, ReviewTypeInv, VerdictInv, RowInv, ConsumerInv, HoldsRow
<1>8. CASE UNCHANGED reviewVars
  BY <1>8 DEF reviewVars, ReviewInv, ReviewTypeInv, VerdictInv, RowInv, ConsumerInv, HoldsRow
<1> QED
  BY <1>1, <1>2, <1>3, <1>4, <1>5, <1>6, <1>7, <1>8 DEF ReviewNext

LEMMA ReviewInvariant == ReviewSpec => []ReviewInv
  BY ReviewInitInv, ReviewStep, PTL DEF ReviewSpec

\* Every reachable verdict, review and reviewer of the failure groups is well-typed.
THEOREM ReviewTypes == ReviewSpec => []ReviewTypeOK
<1>1. ReviewInv => ReviewTypeOK
  BY DEF ReviewInv, ReviewTypeInv, ReviewTypeOK, ReviewRecords
<1> QED BY <1>1, ReviewInvariant, PTL

\* review_proposal answers a review as applied only if it is the stored one, for
\* any number of reviewers that race.
THEOREM AcceptedReviewIsStored == ReviewSpec => []AcceptedIsStored
<1>1. ReviewInv => AcceptedIsStored
  BY VerdictFacts DEF ReviewInv, RowInv, VerdictInv, AcceptedIsStored, NoReview
<1> QED BY <1>1, ReviewInvariant, PTL

\* require_confirmed hands on one review's outcome although it reads twice.
THEOREM ConsumerSeesOneReview == ReviewSpec => []ConfirmedGroupIsConsistent
<1>1. ReviewInv => ConfirmedGroupIsConsistent
  BY VerdictFacts DEF ReviewInv, VerdictInv, ConsumerInv, ConfirmedGroupIsConsistent, NoReview
<1> QED BY <1>1, ReviewInvariant, PTL

\* A reviewed proposal keeps its verdict and its review for good.
THEOREM ReviewsAreFinal == ReviewSpec => ReviewedIsFinal
<1>1. ReviewInv /\ [ReviewNext]_reviewVars =>
          [\A p \in Proposals : standing[p] \in Decided =>
              standing'[p] = standing[p] /\ review'[p] = review[p]]_reviewVars
  <2> SUFFICES ASSUME ReviewInv, ReviewNext, NEW p \in Proposals, standing[p] \in Decided
               PROVE standing'[p] = standing[p] /\ review'[p] = review[p]
    BY DEF reviewVars
  <2>1. ASSUME NEW q \in Proposals, Propose(q)
        PROVE standing'[p] = standing[p] /\ review'[p] = review[p]
    BY <2>1, VerdictFacts DEF Propose, ReviewInv, ReviewTypeInv
  <2>2. ASSUME NEW r \in Reviewers, ReviewCommit(r)
        PROVE standing'[p] = standing[p] /\ review'[p] = review[p]
    BY <2>2, VerdictFacts DEF ReviewCommit, ReviewInv, ReviewTypeInv, RowInv
  <2> QED
    BY <2>1, <2>2 DEF ReviewNext, ReadProposal, LockProposal, WriteReview, ReviewLose,
       AskAgain, ReadReview
<1> QED BY <1>1, ReviewInvariant, PTL DEF ReviewSpec, ReviewedIsFinal
=============================================================================
