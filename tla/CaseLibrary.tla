----------------------------- MODULE CaseLibrary -----------------------------
(***************************************************************************)
(* The libraries that keep immutable versions of an item: regression       *)
(* cases, the suites that name their versions, and the imports (trace      *)
(* evidence and feedback annotations), which take an advisory lock first.  *)
(* A saver is one request with one transaction.  Its row is seen by others *)
(* at its commit; an insert that conflicts with an uncommitted row waits   *)
(* for the transaction that holds it.  A request is answered before its    *)
(* session commits, so an answer may be lost with the commit.              *)
(***************************************************************************)
EXTENDS Naturals, FiniteSets

CONSTANTS Savers,
          Cases, Suites, Imports,  \* the items: case ids, suite ids, evidence or annotation ids
          Bundles,                 \* the contents of a case or an import
          NoItem

ASSUME LibraryAssumption ==
    /\ Cases \cap Suites = {} /\ Cases \cap Imports = {} /\ Suites \cap Imports = {}
    /\ NoItem \notin Cases \cup Suites \cup Imports
    /\ IsFiniteSet(Bundles)

Items == Cases \cup Suites \cup Imports

\* A suite's content is its member set; every other content is a bundle.
Members     == [case : Cases, version : 1 .. Cardinality(Bundles)]
Contents(i) == IF i \in Suites THEN (SUBSET Members) \ {{}} ELSE Bundles

VARIABLES rows,   \* the committed rows of each item, [version, content]
          saver   \* the requests

libVars == <<rows, saver>>

Asleep == [pc |-> "idle", item |-> NoItem, content |-> NoItem, version |-> 0, answer |-> "none"]

LibInit ==
    /\ rows  = [i \in Items |-> {}]
    /\ saver = [s \in Savers |-> Asleep]

Latest(i) == CHOOSE n \in 0 .. Cardinality(rows[i]) :
                /\ n = 0 \/ \E r \in rows[i] : r.version = n
                /\ \A r \in rows[i] : r.version <= n

RowOf(s)       == [version |-> saver[s].version, content |-> saver[s].content]
\* Mutant: the content is not part of a key.
ConflictOnVersion(q, r) == q.version = r.version
Conflict(q, r) == q.version = r.version \/ q.content = r.content
Stored(i, n, c) == [version |-> n, content |-> c] \in rows[i]

Set(s, pc, n, answer) ==
    saver' = [saver EXCEPT ![s].pc = pc, ![s].version = n, ![s].answer = answer]

\* Mutant: the members of a suite are not looked up.
SaveUnchecked(s, i, c) ==
    /\ saver[s].pc \in {"idle", "done"}
    /\ saver' = [saver EXCEPT ![s] =
           [Asleep EXCEPT !.pc = IF i \in Imports THEN "lock" ELSE "read",
                          !.item = i, !.content = c]]
    /\ UNCHANGED rows

\* save_case, save_suite, import_evidence, import_annotation are called.  A
\* suite whose members are not all stored is refused before anything else.
Save(s, i, c) ==
    /\ saver[s].pc \in {"idle", "done"}
    /\ i \in Suites => \A m \in c : \E r \in rows[m.case] : r.version = m.version
    /\ saver' = [saver EXCEPT ![s] =
           [Asleep EXCEPT !.pc = IF i \in Imports THEN "lock" ELSE "read",
                          !.item = i, !.content = c]]
    /\ UNCHANGED rows

\* latest_case, latest_suite: only the latest version is compared.
ReadLatest(s) ==
    LET i == saver[s].item  n == Latest(i) IN
    /\ saver[s].pc = "read"
    /\ IF Stored(i, n, saver[s].content)
       THEN Set(s, "done", n, "unchanged") ELSE Set(s, "insert", n + 1, "none")
    /\ UNCHANGED rows

HoldsLock(s, i) == saver[s].item = i /\ saver[s].pc \in {"insert", "refused", "inserted"}

\* Mutant: without the advisory lock.
FindUnlocked(s) ==
    LET i == saver[s].item IN
    /\ saver[s].pc = "lock"
    /\ \/ \E r \in rows[i] : r.content = saver[s].content /\ Set(s, "done", r.version, "unchanged")
       \/ /\ \A r \in rows[i] : r.content # saver[s].content
          /\ Set(s, "insert", Latest(i) + 1, "none")
    /\ UNCHANGED rows

\* pg_advisory_xact_lock, held to the end of the transaction; then every
\* version is compared.
LockAndFind(s) ==
    LET i == saver[s].item IN
    /\ saver[s].pc = "lock" /\ \A t \in Savers : ~HoldsLock(t, i)
    /\ \/ \E r \in rows[i] : r.content = saver[s].content /\ Set(s, "done", r.version, "unchanged")
       \/ /\ \A r \in rows[i] : r.content # saver[s].content
          /\ Set(s, "insert", Latest(i) + 1, "none")
    /\ UNCHANGED rows

\* insert_version, save_import, save_annotation: a savepoint whose IntegrityError
\* is a refusal.
Insert(s) ==
    LET i == saver[s].item  n == saver[s].version IN
    /\ saver[s].pc = "insert"
    /\ \A t \in Savers : saver[t].item = i /\ saver[t].pc = "inserted" => ~Conflict(RowOf(t), RowOf(s))
    /\ IF \E r \in rows[i] : Conflict(r, RowOf(s))
       THEN Set(s, "refused", n, "none")
       ELSE Set(s, "inserted", n, IF n = 1 THEN "created" ELSE "updated")
    /\ UNCHANGED rows

\* What a refused insert is answered with: the latest version for a case or a
\* suite, the exact content or "conflicted; retry" for an import.
Refused(s) ==
    LET i == saver[s].item  c == saver[s].content  n == Latest(i) IN
    /\ saver[s].pc = "refused"
    /\ IF i \in Imports
       THEN \/ \E r \in rows[i] : r.content = c /\ Set(s, "done", r.version, "unchanged")
            \/ (\A r \in rows[i] : r.content # c) /\ Set(s, "done", 0, "conflict")
       ELSE Set(s, "done", n, IF Stored(i, n, c) THEN "unchanged" ELSE "updated")
    /\ UNCHANGED rows

\* get_session: the commit after the answer.
LibCommit(s) ==
    /\ saver[s].pc = "inserted"
    /\ rows' = [rows EXCEPT ![saver[s].item] = @ \cup {RowOf(s)}]
    /\ saver' = [saver EXCEPT ![s].pc = "done"]

\* The commit fails, or the process dies first.
LibLose(s) ==
    /\ saver[s].pc = "inserted"
    /\ saver' = [saver EXCEPT ![s] = Asleep]
    /\ UNCHANGED rows

LibNext ==
    \E s \in Savers :
        \/ \E i \in Items : \E c \in Contents(i) : Save(s, i, c)
        \/ ReadLatest(s) \/ LockAndFind(s) \/ Insert(s) \/ Refused(s)
        \/ LibCommit(s) \/ LibLose(s)

LibSpec == LibInit /\ [][LibNext]_libVars

-----------------------------------------------------------------------------
LibTypeOK ==
    /\ \A i \in Items : \A r \in rows[i] : r.version \in Nat \ {0} /\ r.content \in Contents(i)
    /\ \A s \in Savers :
          /\ saver[s].pc \in {"idle", "lock", "read", "insert", "inserted", "refused", "done"}
          /\ saver[s].version \in Nat
          /\ saver[s].answer \in {"none", "created", "updated", "unchanged", "conflict"}

\* However savers interleave, an item's versions are 1, 2, ... without a gap or
\* a repetition, and no content is stored twice (regression/models.py:20-25).
HistoryIsComplete ==
    \A i \in Items :
        /\ {r.version : r \in rows[i]} = 1 .. Cardinality(rows[i])
        /\ \A q, r \in rows[i] : q.content = r.content => q = r

\* A saver told "created" or "unchanged", and once committed every importer, was
\* told the version that holds what it sent: the lock makes the conflict answer
\* of an import unreachable.
AnswersAreStored ==
    \A s \in Savers :
        /\ saver[s].pc = "done"
        /\ saver[s].answer \in {"created", "unchanged"} \/ saver[s].item \in Imports
        => Stored(saver[s].item, saver[s].version, saver[s].content)

\* A stored suite, and one about to be committed, names only stored case versions.
SuiteMembersExist ==
    \A i \in Suites :
        \A c \in {r.content : r \in rows[i]}
                 \cup {saver[s].content : s \in {t \in Savers : saver[t].item = i}} :
            \A m \in c : \E r \in rows[m.case] : r.version = m.version
=============================================================================
