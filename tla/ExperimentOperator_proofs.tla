---------------------- MODULE ExperimentOperator_proofs ----------------------
(***************************************************************************)
(* What the operator keeps for any number of experiments, workers and      *)
(* planned iterations, whichever transactions fail, whichever workers die  *)
(* and whenever the operator lock is lost.                                 *)
(***************************************************************************)
EXTENDS ExperimentOperator, FiniteSetTheorems, TLAPS

USE OperatorAssumption

WorkerRecords == [pc : Pcs, exp : Experiments \cup {None}, seq : Nat,
                  pos : 0 .. Planned, allOk : BOOLEAN,
                  last : {"none", "completed", "failed", "expired"}]

EventRecords == [seq : Nat \ {0}, kind : Kinds]

\* A worker between its admission and its last event.
Executing(w) == worker[w].pc \in {"plan", "next", "call", "record", "limit", "expire"}

\* What an executing worker knows of its experiment: it alone writes the log, the
\* log is as long as the worker has counted, and its last event is what it was.
Holding(w) ==
    LET e == worker[w].exp  n == worker[w].seq  k == worker[w].pos  pc == worker[w].pc IN
    /\ owner[e] = w /\ status[e] \notin {"pending", "cancelled"}
    /\ Cardinality(events[e]) = n /\ \A ev \in events[e] : ev.seq <= n
    /\ pc = "plan" => n = 0 /\ k = 0
    /\ pc \in {"next", "limit"} =>
          /\ n = 2 * k + 1
          /\ \E ev \in events[e] : ev.seq = n /\ ev.kind \in
                IF k = 0 THEN {"plan_created"} ELSE {"iteration_completed", "iteration_failed"}
    /\ pc \in {"call", "record"} =>
          /\ n = 2 * k + 2 /\ k < Planned
          /\ \E ev \in events[e] : ev.seq = n /\ ev.kind = "iteration_started"
    /\ pc = "expire" =>
          /\ n = 2 * k + 2
          /\ \E ev \in events[e] : ev.seq = n /\ ev.kind = "limit_reached"
    /\ \A i \in 1 .. Planned :
          i > k + (IF pc \in {"call", "record"} THEN 1 ELSE 0) => calls[e][i] = 0

\* Before its admission a worker has counted nothing.
Poised(w) ==
    /\ worker[w].pc # "idle" => worker[w].exp \in Experiments
    /\ worker[w].pc \in {"lock", "reconcile", "admit", "admitting"} =>
          worker[w].seq = 0 /\ worker[w].pos = 0

HoldInv == \A w \in Workers : Poised(w) /\ (Executing(w) => Holding(w))

\* Nothing has happened to an experiment that was not admitted.
FreshInv == \A e \in Experiments :
    status[e] \in {"pending", "cancelled"} =>
        events[e] = {} /\ \A i \in 1 .. Planned : outcomes[e][i] = "none" /\ calls[e][i] = 0

FiniteInv == \A e \in Experiments : IsFiniteSet(events[e])

CalledOnceInv == \A e \in Experiments : \A i \in 1 .. Planned : calls[e][i] <= 1

\* Who has not lost the operator lock has it.
LockInv == \A w \in Workers \ dropped : worker[w].pc \notin {"idle", "lock"} => lock = w

\* One admission at a time, while nothing runs.
AdmissionInv ==
    /\ \A w \in Workers : At(w, "admitting") =>
          /\ \A v \in Workers : At(v, "admitting") => v = w
          /\ \A e \in Experiments : status[e] # "running"
    /\ \A d, e \in Experiments : status[d] = "running" /\ status[e] = "running" => d = e

-----------------------------------------------------------------------------
(* Types                                                                    *)

LEMMA NestedUpdate ==
    ASSUME NEW A, NEW B, NEW C, NEW f \in [A -> [B -> C]], NEW a \in A, NEW b \in B, NEW c \in C
    PROVE  /\ [f EXCEPT ![a][b] = c] \in [A -> [B -> C]]
           /\ \A x \in A, y \in B :
                 [f EXCEPT ![a][b] = c][x][y] = IF x = a /\ y = b THEN c ELSE f[x][y]
<1> DEFINE g == [f[a] EXCEPT ![b] = c]
<1>1. g \in [B -> C]
  OBVIOUS
<1>2. [f EXCEPT ![a][b] = c] = [f EXCEPT ![a] = g]
  OBVIOUS
<1>3. \A y \in B : g[y] = IF y = b THEN c ELSE f[a][y]
  OBVIOUS
<1> HIDE DEF g
<1> QED BY <1>1, <1>2, <1>3

LEMMA WorkerMoves ==
    ASSUME worker \in [Workers -> WorkerRecords], NEW w \in Workers, NEW pc \in Pcs
    PROVE  /\ [worker EXCEPT ![w].pc = pc] \in [Workers -> WorkerRecords]
           /\ [worker EXCEPT ![w].pc = pc, ![w].seq = @ + 1] \in [Workers -> WorkerRecords]
<1>1. [worker EXCEPT ![w].pc = pc] \in [Workers -> WorkerRecords]
  BY DEF WorkerRecords
<1>2. [worker EXCEPT ![w].pc = pc, ![w].seq = @ + 1] \in [Workers -> WorkerRecords]
  <2> DEFINE rec == [worker[w] EXCEPT !.pc = pc, !.seq = @ + 1]
  <2>1. rec \in WorkerRecords
    <3>1. worker[w] \in WorkerRecords
      OBVIOUS
    <3>2. worker[w].seq + 1 \in Nat
      BY <3>1 DEF WorkerRecords
    <3> QED BY <3>1, <3>2 DEF WorkerRecords
  <2>2. [worker EXCEPT ![w].pc = pc, ![w].seq = @ + 1] = [worker EXCEPT ![w] = rec]
    BY DEF WorkerRecords
  <2> QED BY <2>1, <2>2
<1> QED BY <1>1, <1>2

LEMMA IdleTypes == Idle \in WorkerRecords /\ Idle.pc = "idle"
  BY DEF WorkerRecords, Idle, Pcs

LEMMA TypedInit == Init => TypeOK /\ FiniteInv
  BY FS_EmptySet DEF Init, TypeOK, FiniteInv, Statuses, Idle, Pcs

\* The rows of a transaction that persists an event.
LEMMA PersistTypes ==
    ASSUME TypeOK, FiniteInv, NEW w \in Workers, worker[w].exp \in Experiments,
           NEW kind \in Kinds, NEW next \in Pcs, Persist(w, kind, next)
    PROVE  /\ worker' \in [Workers -> WorkerRecords]
           /\ events' \in [Experiments -> SUBSET EventRecords]
           /\ \A e \in Experiments : IsFiniteSet(events'[e])
           /\ UNCHANGED <<status, owner, outcomes, results, lock, canceller, dropped>>
<1> DEFINE ev == [seq |-> worker[w].seq + 1, kind |-> kind]
<1>1. worker \in [Workers -> WorkerRecords] /\ worker[w].seq \in Nat
  BY DEF TypeOK, WorkerRecords
<1>2. worker' \in [Workers -> WorkerRecords]
  <2>1. CASE Moves(w, next)
    BY <1>1, <2>1, WorkerMoves DEF Moves
  <2>2. CASE Raises(w)
    BY <1>1, <2>2, WorkerMoves DEF Raises, Goto, Pcs
  <2> QED BY <2>1, <2>2 DEF Persist
<1>3. ev \in EventRecords
  BY <1>1 DEF EventRecords
<1> HIDE DEF ev
<1>4. /\ events' \in [Experiments -> SUBSET EventRecords]
      /\ \A e \in Experiments : events'[e] = events[e] \/ events'[e] = events[e] \cup {ev}
  <2>0. events \in [Experiments -> SUBSET EventRecords]
    BY DEF TypeOK, EventRecords
  <2>1. CASE UNCHANGED events
    BY <2>0, <2>1
  <2>2. CASE Inserted(w, kind)
    BY <1>3, <2>0, <2>2 DEF Inserted, Exp, ev
  <2> QED BY <2>1, <2>2 DEF Persist
<1>5. \A e \in Experiments : IsFiniteSet(events'[e])
  <2> SUFFICES ASSUME NEW e \in Experiments PROVE IsFiniteSet(events'[e])
    OBVIOUS
  <2>1. IsFiniteSet(events[e]) /\ IsFiniteSet(events[e] \cup {ev})
    BY FS_AddElement DEF FiniteInv
  <2> QED BY <1>4, <2>1
<1>6. UNCHANGED <<status, owner, outcomes, results, lock, canceller, dropped>>
  BY DEF Persist
<1> QED BY <1>2, <1>4, <1>5, <1>6

\* A worker whose program counter alone changes.
LEMMA GotoTypes ==
    ASSUME TypeOK, NEW w \in Workers, NEW pc \in Pcs, Goto(w, pc)
    PROVE  worker' \in [Workers -> WorkerRecords]
<1>1. worker \in [Workers -> WorkerRecords]
  BY DEF TypeOK, WorkerRecords
<1> QED BY <1>1, WorkerMoves DEF Goto

LEMMA TypeStep == TypeOK /\ FiniteInv /\ HoldInv /\ [Next]_vars => TypeOK' /\ FiniteInv'
<1> SUFFICES ASSUME TypeOK, FiniteInv, HoldInv, [Next]_vars PROVE TypeOK' /\ FiniteInv'
  OBVIOUS
<1> USE DEF rowVars, history
<1>0. worker \in [Workers -> WorkerRecords]
  BY DEF TypeOK, WorkerRecords
<1>w. ASSUME worker' \in [Workers -> WorkerRecords], UNCHANGED <<rowVars, calls>>,
             lock' \in Workers \cup {None}, dropped' \subseteq Workers, UNCHANGED canceller
      PROVE  TypeOK' /\ FiniteInv'
  BY <1>w DEF TypeOK, WorkerRecords, FiniteInv
<1>p. ASSUME NEW w \in Workers, NEW kind \in Kinds, NEW next \in Pcs,
             Persist(w, kind, next), worker[w].pc # "idle",
             calls' \in [Experiments -> [1 .. Planned -> Nat]]
      PROVE  TypeOK' /\ FiniteInv'
  <2>1. worker[w].exp \in Experiments
    BY <1>p DEF HoldInv, Poised
  <2> QED BY <1>p, <2>1, PersistTypes DEF TypeOK, WorkerRecords, EventRecords, FiniteInv
<1>1. ASSUME NEW w \in Workers, NEW e \in Experiments, Prepare(w, e)
      PROVE  TypeOK' /\ FiniteInv'
  <2>1. [Idle EXCEPT !.pc = "lock", !.exp = e] \in WorkerRecords
    <3>1. "lock" \in Pcs
      BY DEF Pcs
    <3> QED BY <3>1, IdleTypes DEF WorkerRecords
  <2>2. worker' \in [Workers -> WorkerRecords]
    BY <1>0, <1>1, <2>1 DEF Prepare
  <2> QED BY <1>1, <1>w, <2>2 DEF Prepare, TypeOK
<1>2. ASSUME NEW w \in Workers, AcquireLock(w) PROVE TypeOK' /\ FiniteInv'
  <2>1. worker' \in [Workers -> WorkerRecords]
    <3>1. CASE Goto(w, "reconcile")
      BY <3>1, GotoTypes DEF Pcs
    <3>2. CASE worker' = [worker EXCEPT ![w] = Idle]
      BY <1>0, <3>2, IdleTypes
    <3> QED BY <1>2, <3>1, <3>2 DEF AcquireLock
  <2>2. /\ UNCHANGED <<status, owner, events, outcomes, results, calls, canceller, dropped>>
        /\ lock' \in Workers \cup {None}
    <3>1. lock' = w \/ lock' = lock
      BY <1>2 DEF AcquireLock
    <3> QED BY <1>2, <3>1 DEF AcquireLock, TypeOK
  <2> QED BY <1>w, <2>1, <2>2 DEF TypeOK
<1>3. ASSUME NEW w \in Workers, Reconcile(w) PROVE TypeOK' /\ FiniteInv'
  <2>1. worker' \in [Workers -> WorkerRecords]
    BY <1>3, GotoTypes DEF Reconcile, Pcs
  <2>2. status' \in [Experiments -> Statuses]
    BY <1>3 DEF Reconcile, TypeOK, Statuses
  <2> QED BY <1>3, <2>1, <2>2 DEF Reconcile, TypeOK, WorkerRecords, FiniteInv
<1>4. ASSUME NEW w \in Workers, AdmissionRead(w) PROVE TypeOK' /\ FiniteInv'
  <2>1. worker' \in [Workers -> WorkerRecords]
    BY <1>4, GotoTypes DEF AdmissionRead, Pcs
  <2> QED BY <1>4, <1>w, <2>1 DEF AdmissionRead, TypeOK
<1>5. ASSUME NEW w \in Workers, AdmissionUpdate(w) PROVE TypeOK' /\ FiniteInv'
  <2>1. worker' \in [Workers -> WorkerRecords]
    BY <1>5, GotoTypes DEF AdmissionUpdate, Pcs
  <2>2. status' \in [Experiments -> Statuses] /\ owner' \in [Experiments -> Workers \cup {None}]
    <3>1. /\ UNCHANGED status \/ status' = [status EXCEPT ![Exp(w)] = "running"]
          /\ UNCHANGED owner \/ owner' = [owner EXCEPT ![Exp(w)] = w]
      BY <1>5 DEF AdmissionUpdate
    <3>2. status \in [Experiments -> Statuses] /\ owner \in [Experiments -> Workers \cup {None}]
      BY DEF TypeOK
    <3>3. status' \in [Experiments -> Statuses]
      BY <3>1, <3>2 DEF Statuses
    <3>4. owner' \in [Experiments -> Workers \cup {None}]
      BY <3>1, <3>2
    <3> QED BY <3>3, <3>4
  <2> QED BY <1>5, <2>1, <2>2 DEF AdmissionUpdate, TypeOK, WorkerRecords, FiniteInv
<1>6. ASSUME NEW w \in Workers, PlanCreated(w) \/ LimitReached(w) \/ DeadlineFailed(w) \/ IterationsFailed(w)
      PROVE TypeOK' /\ FiniteInv'
  <2>1. /\ worker[w].pc # "idle" /\ calls' \in [Experiments -> [1 .. Planned -> Nat]]
        /\ \E kind \in Kinds, next \in Pcs : Persist(w, kind, next)
    BY <1>6 DEF PlanCreated, LimitReached, DeadlineFailed, IterationsFailed, At, Kinds, Pcs, TypeOK
  <2> QED BY <2>1, <1>p
<1>7. ASSUME NEW w \in Workers, IterationStarted(w) PROVE TypeOK' /\ FiniteInv'
  <2>1. worker[w].pc # "idle" /\ Persist(w, "iteration_started", "call")
        /\ "iteration_started" \in Kinds /\ "call" \in Pcs
    BY <1>7 DEF IterationStarted, At, Kinds, Pcs
  <2>2. worker[w].exp \in Experiments /\ worker[w].pos + 1 \in 1 .. Planned
    BY <1>0, <1>7, <2>1 DEF IterationStarted, HoldInv, Poised, WorkerRecords
  <2>3. calls' \in [Experiments -> [1 .. Planned -> Nat]]
    <3> DEFINE e == worker[w].exp  i == worker[w].pos + 1
    <3>1. calls' = calls \/ calls' = [calls EXCEPT ![e][i] = @ + 1]
      BY <1>7 DEF IterationStarted, Exp
    <3>2. calls \in [Experiments -> [1 .. Planned -> Nat]] /\ e \in Experiments /\ i \in 1 .. Planned
      BY <2>2 DEF TypeOK
    <3>3. calls[e][i] + 1 \in Nat
      BY <3>2
    <3>4. [calls EXCEPT ![e][i] = @ + 1] = [calls EXCEPT ![e][i] = calls[e][i] + 1]
      BY <3>2
    <3> HIDE DEF e, i
    <3>5. [calls EXCEPT ![e][i] = calls[e][i] + 1] \in [Experiments -> [1 .. Planned -> Nat]]
      BY <3>2, <3>3, NestedUpdate
    <3> QED BY <3>1, <3>2, <3>4, <3>5
  <2> QED BY <1>p, <2>1, <2>3
<1>8. ASSUME NEW w \in Workers, CallReturns(w) PROVE TypeOK' /\ FiniteInv'
  <2>1. worker' \in [Workers -> WorkerRecords]
    <3>1. PICK r \in {"completed", "failed", "expired"} :
             worker' = [worker EXCEPT ![w].pc = "record", ![w].last = r]
      BY <1>8 DEF CallReturns
    <3> DEFINE rec == [worker[w] EXCEPT !.pc = "record", !.last = r]
    <3>2. rec \in WorkerRecords
      BY <1>0 DEF WorkerRecords, Pcs
    <3>3. worker' = [worker EXCEPT ![w] = rec]
      BY <1>0, <3>1 DEF WorkerRecords
    <3> HIDE DEF rec
    <3> QED BY <1>0, <3>2, <3>3
  <2> QED BY <1>8, <1>w, <2>1 DEF CallReturns, TypeOK
<1>9. ASSUME NEW w \in Workers, IterationRecorded(w) PROVE TypeOK' /\ FiniteInv'
  <2> DEFINE i == worker[w].pos + 1
             ev(r) == [seq |-> worker[w].seq + 1, kind |-> EventOf(r)]
             rec == [worker[w] EXCEPT !.pc = IF worker[w].last = "expired" THEN "limit" ELSE "next",
                         !.seq = @ + 1, !.pos = i,
                         !.allOk = @ /\ worker[w].last = "completed", !.last = "none"]
  <2>1. worker[w].exp \in Experiments /\ i \in 1 .. Planned /\ worker[w] \in WorkerRecords
    BY <1>0, <1>9 DEF IterationRecorded, HoldInv, Poised, Holding, Executing, At, WorkerRecords
  <2>2. rec \in WorkerRecords
    <3>1. worker[w].seq + 1 \in Nat /\ i \in 0 .. Planned
          /\ (worker[w].allOk /\ worker[w].last = "completed") \in BOOLEAN
      BY <2>1 DEF WorkerRecords
    <3>2. (IF worker[w].last = "expired" THEN "limit" ELSE "next") \in Pcs
      BY DEF Pcs
    <3> HIDE DEF i
    <3> QED BY <2>1, <3>1, <3>2 DEF WorkerRecords
  <2>3. worker' = [worker EXCEPT ![w] = rec] \/ Raises(w)
    BY <1>0, <1>9, <2>1 DEF IterationRecorded, WorkerRecords
  <2>4. worker' \in [Workers -> WorkerRecords]
    <3>1. CASE worker' = [worker EXCEPT ![w] = rec]
      BY <1>0, <2>2, <3>1
    <3>2. CASE Raises(w)
      BY <3>2, GotoTypes DEF Raises, Pcs
    <3> QED BY <2>3, <3>1, <3>2
  <2>5. \A r \in {"completed", "failed"} : ev(r) \in EventRecords
    BY <2>1 DEF EventRecords, EventOf, Kinds, WorkerRecords
  <2> HIDE DEF rec, i
  <2>6. /\ outcomes' \in [Experiments -> [1 .. Planned -> {"none", "completed", "failed"}]]
        /\ \/ UNCHANGED events
           \/ \E r \in {"completed", "failed"} :
                 events' = [events EXCEPT ![worker[w].exp] = @ \cup {ev(r)}]
    <3>1. /\ \/ UNCHANGED outcomes
             \/ \E r \in {"completed", "failed"} : outcomes' = [outcomes EXCEPT ![worker[w].exp][i] = r]
          /\ \/ UNCHANGED events
             \/ \E r \in {"completed", "failed"} :
                   events' = [events EXCEPT ![worker[w].exp] = @ \cup {ev(r)}]
      <4>1. CASE UNCHANGED <<outcomes, events>>
        BY <4>1
      <4>2. CASE /\ outcomes' = [outcomes EXCEPT ![worker[w].exp][i] =
                       IF worker[w].last = "completed" THEN "completed" ELSE "failed"]
                 /\ Inserted(w, EventOf(IF worker[w].last = "completed" THEN "completed" ELSE "failed"))
        BY <4>2 DEF Inserted, Exp
      <4> QED BY <1>9, <4>1, <4>2 DEF IterationRecorded, Exp, i
    <3>2. outcomes \in [Experiments -> [1 .. Planned -> {"none", "completed", "failed"}]]
      BY DEF TypeOK
    <3>3. outcomes' \in [Experiments -> [1 .. Planned -> {"none", "completed", "failed"}]]
      <4> DEFINE Os == {"none", "completed", "failed"}
      <4>1. CASE UNCHANGED outcomes
        BY <3>2, <4>1
      <4>2. ASSUME NEW r \in {"completed", "failed"},
                   outcomes' = [outcomes EXCEPT ![worker[w].exp][i] = r]
            PROVE  outcomes' \in [Experiments -> [1 .. Planned -> Os]]
        <5>1. r \in Os /\ outcomes \in [Experiments -> [1 .. Planned -> Os]]
          BY <3>2
        <5> HIDE DEF Os
        <5>2. [outcomes EXCEPT ![worker[w].exp][i] = r] \in [Experiments -> [1 .. Planned -> Os]]
          BY <2>1, <5>1, NestedUpdate
        <5> QED BY <4>2, <5>2
      <4> QED BY <3>1, <4>1, <4>2
    <3> QED BY <3>1, <3>3
  <2>7. /\ events' \in [Experiments -> SUBSET EventRecords]
        /\ \A e \in Experiments : IsFiniteSet(events'[e])
    <3>0. events \in [Experiments -> SUBSET EventRecords]
      BY DEF TypeOK, EventRecords
    <3>1. CASE UNCHANGED events
      BY <3>0, <3>1 DEF FiniteInv
    <3>2. ASSUME NEW r \in {"completed", "failed"},
                 events' = [events EXCEPT ![worker[w].exp] = @ \cup {ev(r)}]
          PROVE  /\ events' \in [Experiments -> SUBSET EventRecords]
                 /\ \A e \in Experiments : IsFiniteSet(events'[e])
      <4>1. events' \in [Experiments -> SUBSET EventRecords]
        BY <2>1, <2>5, <3>0, <3>2
      <4>2. IsFiniteSet(events[worker[w].exp] \cup {ev(r)})
        BY <2>1, FS_AddElement DEF FiniteInv
      <4> QED BY <2>1, <3>0, <3>2, <4>1, <4>2 DEF FiniteInv
    <3> QED BY <2>6, <3>1, <3>2
  <2> QED BY <1>9, <2>4, <2>6, <2>7 DEF IterationRecorded, TypeOK, WorkerRecords, EventRecords, FiniteInv
<1>10. ASSUME NEW w \in Workers, DeadlinePasses(w) \/ IntegrityFails(w) \/ RequestCancelled(w)
       PROVE TypeOK' /\ FiniteInv'
  <2>1. worker' \in [Workers -> WorkerRecords]
    BY <1>10, GotoTypes DEF DeadlinePasses, IntegrityFails, RequestCancelled, Pcs
  <2> QED BY <1>10, <1>w, <2>1 DEF DeadlinePasses, IntegrityFails, RequestCancelled, TypeOK
<1>11. ASSUME NEW w \in Workers, Publish(w) PROVE TypeOK' /\ FiniteInv'
  <2> DEFINE ev == [seq |-> worker[w].seq + 1, kind |-> "experiment_completed"]
  <2>1. worker[w].exp \in Experiments /\ ev \in EventRecords
    BY <1>0, <1>11 DEF Publish, HoldInv, Poised, At, EventRecords, Kinds, WorkerRecords
  <2>2. worker' \in [Workers -> WorkerRecords]
    <3>1. CASE Moves(w, "done")
      BY <1>0, <3>1, WorkerMoves DEF Moves, Pcs
    <3>2. CASE Raises(w)
      BY <3>2, GotoTypes DEF Raises, Pcs
    <3> QED BY <1>11, <3>1, <3>2 DEF Publish
  <2>3. /\ status' \in [Experiments -> Statuses] /\ results' \subseteq Experiments
        /\ UNCHANGED events \/ events' = [events EXCEPT ![worker[w].exp] = @ \cup {ev}]
    BY <1>11, <2>1 DEF Publish, Inserted, Exp, TypeOK, Statuses
  <2>4. /\ events' \in [Experiments -> SUBSET EventRecords]
        /\ \A e \in Experiments : IsFiniteSet(events'[e])
    <3>0. events \in [Experiments -> SUBSET EventRecords]
      BY DEF TypeOK, EventRecords
    <3>1. IsFiniteSet(events[worker[w].exp] \cup {ev})
      BY <2>1, FS_AddElement DEF FiniteInv
    <3> HIDE DEF ev
    <3> QED BY <2>1, <2>3, <3>0, <3>1 DEF FiniteInv
  <2> QED BY <1>11, <2>2, <2>3, <2>4 DEF Publish, TypeOK, WorkerRecords, EventRecords, FiniteInv
<1>12. ASSUME NEW w \in Workers, FailExecution(w) PROVE TypeOK' /\ FiniteInv'
  <2>1. worker' \in [Workers -> WorkerRecords]
    <3>1. \E pc \in {"done", "failing"} : Goto(w, pc)
      BY <1>12 DEF FailExecution, Raises
    <3> QED BY <3>1, GotoTypes DEF Pcs
  <2>2. status' \in [Experiments -> Statuses]
    BY <1>12 DEF FailExecution, TypeOK, Statuses
  <2> QED BY <1>12, <2>1, <2>2 DEF FailExecution, TypeOK, WorkerRecords, FiniteInv
<1>13. ASSUME NEW w \in Workers, Return(w) \/ Abandon(w) PROVE TypeOK' /\ FiniteInv'
  <2>1. worker' \in [Workers -> WorkerRecords]
    <3>1. worker' = [worker EXCEPT ![w] = Idle]
      BY <1>13 DEF Return, Abandon
    <3> QED BY <1>0, <3>1, IdleTypes
  <2> QED BY <1>13, <1>w, <2>1 DEF Return, Abandon, Released, TypeOK
<1>14. CASE DropLock
  BY <1>0, <1>14, <1>w DEF DropLock, TypeOK
<1>15. CASE CancelNext
  <2>1. UNCHANGED <<owner, events, outcomes, results, worker, lock, calls, dropped>>
    BY <1>15 DEF CancelNext, CancelChecks, CancelReads, CancelUpdates
  <2>2. status' \in [Experiments -> Statuses]
    BY <1>15 DEF CancelNext, CancelChecks, CancelReads, CancelUpdates, TypeOK, Statuses
  <2>3. canceller' \in [exp : Experiments \cup {None},
                        at : {"idle", "checked", "finishing", "cancelled", "refused", "error"}]
    <3> DEFINE Cs == [exp : Experiments \cup {None},
                      at : {"idle", "checked", "finishing", "cancelled", "refused", "error"}]
    <3>0. canceller \in Cs
      BY DEF TypeOK
    <3>1. ASSUME NEW e \in Experiments, CancelChecks(e) PROVE canceller' \in Cs
      BY <3>1 DEF CancelChecks
    <3>2. CASE CancelReads
      BY <3>0, <3>2 DEF CancelReads
    <3>3. CASE CancelUpdates
      BY <3>0, <3>3 DEF CancelUpdates
    <3> QED BY <1>15, <3>1, <3>2, <3>3 DEF CancelNext
  <2> QED BY <2>1, <2>2, <2>3 DEF TypeOK, FiniteInv
<1>16. CASE UNCHANGED vars
  BY <1>16 DEF vars, TypeOK, FiniteInv
<1> QED
  BY <1>1, <1>2, <1>3, <1>4, <1>5, <1>6, <1>7, <1>8, <1>9, <1>10, <1>11, <1>12, <1>13, <1>14,
     <1>15, <1>16 DEF Next, WorkerNext

-----------------------------------------------------------------------------
(* What a step leaves alone                                                 *)

Kept(e) == UNCHANGED <<events[e], outcomes[e], calls[e], e \in results>>

\* A status only goes forward, and only an admission gives a record its owner.
Forward(e) ==
    /\ status[e] = "pending" => status'[e] \in {"pending", "running", "cancelled"}
    /\ status[e] = "running" => status'[e] \in {"running", "completed", "failed"}
    /\ status[e] \in Terminal => status'[e] = status[e]
    /\ status[e] # "pending" => owner'[e] = owner[e]
    /\ owner[e] # None => owner'[e] = owner[e]

WorkerStep(w) ==
    (\E e \in Experiments : Prepare(w, e)) \/ WorkerNext(w) \/ RequestCancelled(w) \/ Abandon(w)

\* A worker touches itself and the experiment whose running attempt is its own.
LEMMA WorkerFrame ==
    ASSUME TypeOK, HoldInv, NEW w \in Workers, WorkerStep(w)
    PROVE  /\ \A v \in Workers \ {w} : worker'[v] = worker[v]
           /\ \A e \in Experiments : Forward(e) /\ ((Owns(w) /\ e = Exp(w)) \/ Kept(e))
<1> DEFINE Goal == /\ \A v \in Workers \ {w} : worker'[v] = worker[v]
                   /\ \A e \in Experiments : Forward(e) /\ ((Owns(w) /\ e = Exp(w)) \/ Kept(e))
<1> SUFFICES Goal
  OBVIOUS
<1>0. /\ worker \in [Workers -> WorkerRecords]
      /\ worker[w].pc # "idle" => Exp(w) \in Experiments
      /\ status \in [Experiments -> Statuses]
  BY DEF TypeOK, WorkerRecords, HoldInv, Poised, Exp
<1>s. ASSUME UNCHANGED <<status, owner, events, outcomes, calls, results>>
      PROVE  \A e \in Experiments : Forward(e) /\ Kept(e)
  BY <1>0, <1>s DEF Forward, Kept, Statuses
<1>p. ASSUME NEW kind, NEW next, Persist(w, kind, next), Exp(w) \in Experiments,
             \A e \in Experiments : (Owns(w) /\ e = Exp(w)) \/ calls'[e] = calls[e]
      PROVE  Goal
  <2>1. /\ \A v \in Workers \ {w} : worker'[v] = worker[v]
        /\ UNCHANGED <<status, owner, outcomes, results>>
    BY <1>0, <1>p DEF Persist, Moves, Raises, Goto
  <2>2. \A e \in Experiments : (Owns(w) /\ e = Exp(w)) \/ events'[e] = events[e]
    BY <1>p DEF Persist, Fits, Inserted, TypeOK
  <2> QED BY <1>0, <1>p, <2>1, <2>2 DEF Forward, Kept, Statuses
<1>1. ASSUME NEW e \in Experiments, Prepare(w, e) PROVE Goal
  BY <1>0, <1>1, <1>s DEF Prepare, rowVars, history
<1>2. CASE AcquireLock(w)
  BY <1>0, <1>2, <1>s DEF AcquireLock, Goto, rowVars, history
<1>3. CASE Reconcile(w)
  BY <1>0, <1>3 DEF Reconcile, Goto, rowVars, history, Forward, Kept, Statuses, Terminal
<1>4. CASE AdmissionRead(w)
  BY <1>0, <1>4, <1>s DEF AdmissionRead, Goto, rowVars, history
<1>5. CASE AdmissionUpdate(w)
  <2>1. /\ \A v \in Workers \ {w} : worker'[v] = worker[v]
        /\ UNCHANGED <<events, outcomes, results, calls>>
    BY <1>0, <1>5 DEF AdmissionUpdate, Goto, history
  <2>2. \/ UNCHANGED <<status, owner>>
        \/ /\ status[Exp(w)] = "pending" /\ owner[Exp(w)] = None
           /\ status' = [status EXCEPT ![Exp(w)] = "running"]
           /\ owner' = [owner EXCEPT ![Exp(w)] = w]
    BY <1>5 DEF AdmissionUpdate
  <2>3. \A e \in Experiments : Forward(e)
    <3>1. Exp(w) \in Experiments
      BY <1>0, <1>5 DEF AdmissionUpdate, At
    <3>2. CASE UNCHANGED <<status, owner>>
      BY <1>0, <3>2 DEF Forward, Statuses
    <3>3. CASE /\ status[Exp(w)] = "pending" /\ owner[Exp(w)] = None
               /\ status' = [status EXCEPT ![Exp(w)] = "running"]
               /\ owner' = [owner EXCEPT ![Exp(w)] = w]
      <4>1. \A e \in Experiments : e # Exp(w) => status'[e] = status[e] /\ owner'[e] = owner[e]
        BY <3>3 DEF TypeOK
      <4>2. status'[Exp(w)] = "running"
        BY <1>0, <3>1, <3>3
      <4> QED BY <1>0, <3>1, <3>3, <4>1, <4>2 DEF Forward, Statuses, Terminal
    <3> QED BY <2>2, <3>2, <3>3
  <2> QED BY <2>1, <2>3 DEF Kept
<1>6. CASE PlanCreated(w) \/ LimitReached(w) \/ DeadlineFailed(w) \/ IterationsFailed(w)
  <2>1. /\ worker[w].pc # "idle" /\ calls' = calls
        /\ \E kind, next : Persist(w, kind, next)
    BY <1>6 DEF PlanCreated, LimitReached, DeadlineFailed, IterationsFailed, At
  <2> QED BY <1>0, <1>p, <2>1
<1>7. CASE IterationStarted(w)
  <2>1. Persist(w, "iteration_started", "call") /\ Exp(w) \in Experiments
    BY <1>0, <1>7 DEF IterationStarted, At
  <2>2. calls' = calls \/ Fits(w)
    <3>1. CASE Raises(w)
      BY <1>0, <1>7, <3>1 DEF IterationStarted, Raises, Goto, At, WorkerRecords
    <3>2. CASE ~Raises(w)
      BY <2>1, <3>2 DEF Persist
    <3> QED BY <3>1, <3>2
  <2>3. \A e \in Experiments : e # Exp(w) => calls'[e] = calls[e]
    BY <1>7 DEF IterationStarted, TypeOK
  <2> QED BY <1>p, <2>1, <2>2, <2>3 DEF Fits
<1>8. CASE CallReturns(w)
  BY <1>0, <1>8, <1>s DEF CallReturns, rowVars, history
<1>9. CASE IterationRecorded(w)
  <2>1. /\ \A v \in Workers \ {w} : worker'[v] = worker[v]
        /\ UNCHANGED <<status, owner, results, calls>>
    BY <1>0, <1>9 DEF IterationRecorded, Raises, Goto, history
  <2>2. \A e \in Experiments :
           (Owns(w) /\ e = Exp(w)) \/ (events'[e] = events[e] /\ outcomes'[e] = outcomes[e])
    <3>1. CASE UNCHANGED <<outcomes, events>>
      BY <3>1
    <3> DEFINE r == IF worker[w].last = "completed" THEN "completed" ELSE "failed"
    <3>2. ASSUME Fits(w), Inserted(w, EventOf(r)),
                 outcomes' = [outcomes EXCEPT ![Exp(w)][worker[w].pos + 1] = r]
          PROVE  \A e \in Experiments :
                    (Owns(w) /\ e = Exp(w)) \/ (events'[e] = events[e] /\ outcomes'[e] = outcomes[e])
      <4>1. \A e \in Experiments : e # Exp(w) => events'[e] = events[e]
        BY <3>2 DEF Inserted, TypeOK
      <4>2. \A e \in Experiments : e # Exp(w) => outcomes'[e] = outcomes[e]
        BY <3>2 DEF TypeOK
      <4> QED BY <3>2, <4>1, <4>2 DEF Fits
    <3>3. \/ UNCHANGED <<outcomes, events>>
          \/ /\ Fits(w) /\ Inserted(w, EventOf(r))
             /\ outcomes' = [outcomes EXCEPT ![Exp(w)][worker[w].pos + 1] = r]
      BY <1>9 DEF IterationRecorded
    <3> HIDE DEF r
    <3> QED BY <3>1, <3>2, <3>3
  <2> QED BY <1>0, <2>1, <2>2 DEF Forward, Kept, Statuses
<1>10. CASE DeadlinePasses(w) \/ IntegrityFails(w) \/ RequestCancelled(w)
  BY <1>0, <1>10, <1>s DEF DeadlinePasses, IntegrityFails, RequestCancelled, Goto, rowVars, history
<1>11. CASE Publish(w)
  <2>1. /\ \A v \in Workers \ {w} : worker'[v] = worker[v]
        /\ UNCHANGED <<owner, outcomes, calls>> /\ Exp(w) \in Experiments
    BY <1>0, <1>11 DEF Publish, Moves, Raises, Goto, At, history
  <2>2. \A e \in Experiments :
           \/ (Owns(w) /\ e = Exp(w))
           \/ events'[e] = events[e] /\ (e \in results' <=> e \in results) /\ status'[e] = status[e]
    BY <1>11 DEF Publish, Fits, Inserted, TypeOK
  <2>3. Owns(w) => status[Exp(w)] = "running" /\ status'[Exp(w)] \in {"running", "completed"}
    BY <1>0, <1>11, <2>1 DEF Publish, Owns
  <2> QED BY <1>0, <2>1, <2>2, <2>3 DEF Forward, Kept, Statuses, Terminal
<1>12. CASE FailExecution(w)
  <2>1. /\ \A v \in Workers \ {w} : worker'[v] = worker[v]
        /\ UNCHANGED <<owner, events, outcomes, results, calls>> /\ Exp(w) \in Experiments
    BY <1>0, <1>12 DEF FailExecution, Raises, Goto, At, history
  <2>2. status' = status \/ (Owns(w) /\ status' = [status EXCEPT ![Exp(w)] = "failed"])
    BY <1>12 DEF FailExecution
  <2> QED BY <1>0, <2>1, <2>2 DEF Forward, Kept, Owns, Statuses, Terminal
<1>13. CASE Return(w) \/ Abandon(w)
  BY <1>0, <1>13, <1>s DEF Return, Abandon, rowVars
<1> QED
  BY <1>1, <1>2, <1>3, <1>4, <1>5, <1>6, <1>7, <1>8, <1>9, <1>10, <1>11, <1>12, <1>13
  DEF WorkerStep, WorkerNext

LEMMA OtherFrame ==
    ASSUME TypeOK, CancelNext \/ DropLock \/ UNCHANGED vars
    PROVE  /\ UNCHANGED <<worker, events, outcomes, calls, results>>
           /\ \A e \in Experiments : Forward(e) /\ Kept(e)
<1>1. UNCHANGED <<worker, owner, events, outcomes, calls, results>>
  BY DEF CancelNext, CancelChecks, CancelReads, CancelUpdates, DropLock, vars, rowVars, history
<1>2. \/ UNCHANGED status
      \/ \E e \in Experiments \cup {None} :
            status[e] = "pending" /\ status' = [status EXCEPT ![e] = "cancelled"]
  <2>1. canceller.exp \in Experiments \cup {None}
    BY DEF TypeOK
  <2>2. UNCHANGED status \/ CancelUpdates
    BY DEF CancelNext, CancelChecks, CancelReads, DropLock, vars, rowVars
  <2>3. CASE CancelUpdates
    <3>1. \/ status' = status
          \/ /\ status[canceller.exp] = "pending"
             /\ status' = [status EXCEPT ![canceller.exp] = "cancelled"]
      BY <2>3 DEF CancelUpdates
    <3> QED BY <2>1, <3>1
  <2> QED BY <2>2, <2>3
<1>3. status \in [Experiments -> Statuses]
  BY DEF TypeOK
<1>4. \A e \in Experiments :
          status'[e] = status[e] \/ (status[e] = "pending" /\ status'[e] = "cancelled")
  BY <1>2, <1>3
<1> QED BY <1>1, <1>3, <1>4 DEF Forward, Kept, Statuses, Terminal

-----------------------------------------------------------------------------
(* What an executing worker knows of its experiment stays true              *)

LEMMA LogGrows ==
    ASSUME NEW L, IsFiniteSet(L), NEW n \in Nat, L \subseteq EventRecords,
           Cardinality(L) = n, \A ev \in L : ev.seq <= n, NEW kind,
           NEW new, new = [seq |-> n + 1, kind |-> kind]
    PROVE  /\ Cardinality(L \cup {new}) = n + 1
           /\ \A ev \in L \cup {new} : ev.seq <= n + 1
           /\ \E ev \in L \cup {new} : ev.seq = n + 1 /\ ev.kind = kind
<1>1. \A ev \in L : ev.seq \in Nat
  BY DEF EventRecords
<1>2. new.seq = n + 1 /\ new.kind = kind
  OBVIOUS
<1>3. new \notin L
  BY <1>2
<1>4. Cardinality(L \cup {new}) = n + 1
  BY <1>3, FS_AddElement
<1>5. \A ev \in L \cup {new} : ev.seq <= n + 1
  BY <1>1, <1>2
<1>6. \E ev \in L \cup {new} : ev.seq = n + 1 /\ ev.kind = kind
  BY <1>2
<1> QED BY <1>4, <1>5, <1>6

\* Another worker's step.
LEMMA HoldOther ==
    ASSUME TypeOK, HoldInv, NEW v \in Workers, worker'[v] = worker[v],
           \A e \in Experiments : Forward(e) /\ (owner[e] = v => Kept(e))
    PROVE  Poised(v)' /\ (Executing(v) => Holding(v))'
<1>1. Poised(v)'
  BY DEF HoldInv, Poised
<1>2. ASSUME Executing(v)' PROVE Holding(v)'
  <2> DEFINE e == worker[v].exp
  <2>1. Executing(v) /\ Holding(v) /\ e \in Experiments /\ e = worker'[v].exp
    BY <1>2 DEF HoldInv, Executing, Poised
  <2>2. owner[e] = v /\ owner[e] # None
    BY <2>1 DEF Holding
  <2>3. owner'[e] = v /\ events'[e] = events[e] /\ calls'[e] = calls[e]
    BY <2>1, <2>2 DEF Forward, Kept
  <2>4. status'[e] \notin {"pending", "cancelled"}
    <3>1. status[e] \in {"running", "completed", "failed"}
      BY <2>1 DEF Holding, TypeOK, Statuses
    <3> QED BY <2>1, <3>1 DEF Forward, Terminal
  <2> HIDE DEF e
  <2>5. worker'[v].exp = e /\ worker[v].exp = e
    BY <2>1 DEF e
  <2> QED BY <2>1, <2>3, <2>4, <2>5 DEF Holding
<1> QED BY <1>1, <1>2

\* Who has nothing to hold holds it.
LEMMA HoldIdle ==
    ASSUME NEW w \in Workers, ~Executing(w)', Poised(w)'
    PROVE  Poised(w)' /\ (Executing(w) => Holding(w))'
OBVIOUS

\* An event persisted by an executing worker: refused, or its log grew by one.
LEMMA HoldPersist ==
    ASSUME TypeOK, FiniteInv, HoldInv, NEW w \in Workers, Executing(w),
           NEW kind, NEW next \in Pcs, Persist(w, kind, next)
    PROVE  LET e == worker[w].exp  n == worker[w].seq  k == worker[w].pos IN
           \/ worker' = [worker EXCEPT ![w].pc = "failing"]
           \/ /\ worker'[w].pc = next /\ worker'[w].exp = e /\ worker'[w].seq = n + 1
              /\ worker'[w].pos = k
              /\ owner'[e] = w /\ status'[e] \notin {"pending", "cancelled"}
              /\ Cardinality(events'[e]) = n + 1 /\ \A ev \in events'[e] : ev.seq <= n + 1
              /\ \E ev \in events'[e] : ev.seq = n + 1 /\ ev.kind = kind
<1> DEFINE e == worker[w].exp  n == worker[w].seq
<1>1. CASE Raises(w)
  BY <1>1 DEF Raises, Goto
<1>2. CASE ~Raises(w)
  <2>1. Fits(w) /\ Inserted(w, kind) /\ Moves(w, next) /\ status' = status /\ owner' = owner
    BY <1>2 DEF Persist
  <2>2. /\ e \in Experiments /\ n \in Nat /\ Holding(w)
        /\ worker[w] \in WorkerRecords /\ worker \in [Workers -> WorkerRecords]
    BY DEF HoldInv, Poised, Executing, TypeOK, WorkerRecords
  <2>3. /\ IsFiniteSet(events[e]) /\ events[e] \subseteq EventRecords
        /\ Cardinality(events[e]) = n /\ \A ev \in events[e] : ev.seq <= n
    BY <2>2 DEF FiniteInv, TypeOK, EventRecords, Holding
  <2>4. events'[e] = events[e] \cup {[seq |-> n + 1, kind |-> kind]}
    BY <2>1, <2>2 DEF Inserted, Exp, TypeOK
  <2>5. /\ Cardinality(events'[e]) = n + 1 /\ \A ev \in events'[e] : ev.seq <= n + 1
        /\ \E ev \in events'[e] : ev.seq = n + 1 /\ ev.kind = kind
    <3> DEFINE L == events[e]
    <3>1. IsFiniteSet(L) /\ L \subseteq EventRecords /\ Cardinality(L) = n /\ \A ev \in L : ev.seq <= n
      BY <2>3
    <3> DEFINE new == [seq |-> n + 1, kind |-> kind]
    <3>2. events'[e] = L \cup {new} /\ n \in Nat /\ new = [seq |-> n + 1, kind |-> kind]
      BY <2>2, <2>4
    <3> HIDE DEF e, n, L, new
    <3>3. /\ Cardinality(L \cup {new}) = n + 1
          /\ \A ev \in L \cup {new} : ev.seq <= n + 1
          /\ \E ev \in L \cup {new} : ev.seq = n + 1 /\ ev.kind = kind
      BY <3>1, <3>2, LogGrows
    <3> QED BY <3>2, <3>3
  <2>6. /\ worker'[w].pc = next /\ worker'[w].exp = e /\ worker'[w].seq = n + 1
        /\ worker'[w].pos = worker[w].pos
    BY <2>1, <2>2 DEF Moves, WorkerRecords
  <2>7. owner'[e] = w /\ status'[e] \notin {"pending", "cancelled"}
    BY <2>1 DEF Fits, Owns, Exp
  <2> QED BY <2>5, <2>6, <2>7
<1> QED BY <1>1, <1>2

LEMMA HoldInit == Init => HoldInv /\ FreshInv /\ CalledOnceInv
<1> SUFFICES ASSUME Init PROVE HoldInv /\ FreshInv /\ CalledOnceInv
  OBVIOUS
<1>1. \A w \in Workers : worker[w].pc = "idle"
  BY DEF Init, Idle
<1>2. HoldInv
  BY <1>1 DEF HoldInv, Poised, Executing
<1>3. FreshInv /\ CalledOnceInv
  BY DEF Init, FreshInv, CalledOnceInv
<1> QED BY <1>2, <1>3

\* A worker's own step.
LEMMA HoldOwn ==
    ASSUME TypeOK, FiniteInv, HoldInv, FreshInv, NEW w \in Workers, WorkerStep(w)
    PROVE  Poised(w)' /\ (Executing(w) => Holding(w))'
<1> DEFINE Goal == Poised(w)' /\ (Executing(w) => Holding(w))'
<1> SUFFICES Goal
  OBVIOUS
<1>0. /\ worker \in [Workers -> WorkerRecords] /\ worker[w] \in WorkerRecords
      /\ Poised(w) /\ (Executing(w) => Holding(w))
      /\ worker[w].pc # "idle" => worker[w].exp \in Experiments
  BY DEF TypeOK, WorkerRecords, HoldInv, Poised
<1>g. ASSUME NEW pc, Goto(w, pc), worker[w].pc # "idle",
             pc \notin {"plan", "next", "call", "record", "limit", "expire",
                         "lock", "reconcile", "admit", "admitting"}
      PROVE  Goal
  <2>1. worker'[w].pc = pc /\ worker'[w].exp = worker[w].exp
    BY <1>0, <1>g DEF Goto, WorkerRecords
  <2> QED BY <1>0, <1>g, <2>1 DEF Poised, Executing
<1>h. ASSUME NEW pc \in {"reconcile", "admit", "admitting"}, Goto(w, pc),
             worker[w].pc \in {"lock", "reconcile", "admit", "admitting"}
      PROVE  Goal
  <2>1. /\ worker'[w].pc = pc /\ worker'[w].exp = worker[w].exp
        /\ worker'[w].seq = worker[w].seq /\ worker'[w].pos = worker[w].pos
    BY <1>0, <1>h DEF Goto, WorkerRecords
  <2> QED BY <1>0, <1>h, <2>1 DEF Poised, Executing
<1>f. ASSUME worker' = [worker EXCEPT ![w].pc = "failing"], worker[w].pc # "idle" PROVE Goal
  BY <1>f, <1>g DEF Goto
<1>i. ASSUME worker' = [worker EXCEPT ![w] = Idle] PROVE Goal
  BY <1>0, <1>i DEF Idle, Poised, Executing
<1>1. ASSUME NEW e \in Experiments, Prepare(w, e) PROVE Goal
  <2>1. worker'[w] = [Idle EXCEPT !.pc = "lock", !.exp = e]
    BY <1>0, <1>1 DEF Prepare
  <2>2. worker'[w].pc = "lock" /\ worker'[w].exp = e /\ worker'[w].seq = 0 /\ worker'[w].pos = 0
    BY <2>1 DEF Idle
  <2> QED BY <2>2 DEF Poised, Executing
<1>2. CASE AcquireLock(w)
  BY <1>2, <1>h, <1>i DEF AcquireLock, At
<1>3. CASE Reconcile(w)
  BY <1>3, <1>h DEF Reconcile, At
<1>4. CASE AdmissionRead(w)
  BY <1>4, <1>h, <1>g DEF AdmissionRead, At
<1>5. CASE AdmissionUpdate(w)
  <2>1. CASE Goto(w, "failing")
    BY <1>5, <2>1, <1>g DEF AdmissionUpdate, At
  <2>2. CASE ~Goto(w, "failing")
    <3> DEFINE e == worker[w].exp
    <3>1. /\ status[e] = "pending" /\ status' = [status EXCEPT ![e] = "running"]
          /\ owner' = [owner EXCEPT ![e] = w] /\ Goto(w, "plan")
          /\ UNCHANGED <<events, calls>> /\ worker[w].pc = "admitting"
      BY <1>5, <2>2 DEF AdmissionUpdate, Exp, At, history
    <3>2. e \in Experiments /\ worker[w].seq = 0 /\ worker[w].pos = 0
      BY <1>0, <3>1 DEF Poised
    <3>3. /\ worker'[w].pc = "plan" /\ worker'[w].exp = e
          /\ worker'[w].seq = 0 /\ worker'[w].pos = 0
      BY <1>0, <3>1, <3>2 DEF Goto, WorkerRecords
    <3>4. /\ owner'[e] = w /\ status'[e] = "running" /\ events'[e] = {}
          /\ \A i \in 1 .. Planned : calls'[e][i] = 0
      BY <3>1, <3>2 DEF FreshInv, TypeOK
    <3>5. Cardinality(events'[e]) = 0
      BY <3>4, FS_EmptySet
    <3> HIDE DEF e
    <3>6. Poised(w)'
      BY <3>2, <3>3 DEF Poised
    <3>7. Holding(w)'
      BY <3>3, <3>4, <3>5 DEF Holding
    <3> QED BY <3>6, <3>7
  <2> QED BY <2>1, <2>2
<1>6. CASE PlanCreated(w)
  <2>1. Executing(w) /\ Persist(w, "plan_created", "next") /\ calls' = calls /\ worker[w].pc = "plan"
    BY <1>6 DEF PlanCreated, At, Executing
  <2> QED BY <1>0, <1>f, <2>1, HoldPersist DEF Poised, Executing, Holding, Pcs
<1>7. CASE IterationStarted(w)
  <2> DEFINE e == worker[w].exp  k == worker[w].pos
  <2>1. /\ Executing(w) /\ Persist(w, "iteration_started", "call") /\ worker[w].pc = "next"
        /\ k + 1 <= Planned
        /\ calls' = IF worker'[w].pc = "call" THEN [calls EXCEPT ![e][k + 1] = @ + 1] ELSE calls
    BY <1>7 DEF IterationStarted, At, Executing, Exp
  <2>2. /\ e \in Experiments /\ k \in Nat /\ calls \in [Experiments -> [1 .. Planned -> Nat]]
    BY <1>0, <2>1 DEF WorkerRecords, TypeOK
  <2>3. \A i \in 1 .. Planned : i > k + 1 => calls'[e][i] = 0
    <3>1. \A i \in 1 .. Planned : i > k + 1 => calls[e][i] = 0
      <4>1. Holding(w) /\ worker[w].pc = "next"
        BY <1>0, <2>1
      <4>2. \A i \in 1 .. Planned : i > k + 0 => calls[e][i] = 0
        BY <4>1 DEF Holding
      <4> QED BY <2>2, <4>2
    <3> HIDE DEF e, k
    <3>2. k + 1 \in 1 .. Planned /\ calls[e][k + 1] + 1 \in Nat
      <4>1. k + 1 <= Planned
        BY <2>1
      <4>2. k + 1 \in 1 .. Planned
        BY <2>2, <4>1
      <4>3. calls[e] \in [1 .. Planned -> Nat]
        BY <2>2
      <4> QED BY <4>2, <4>3
    <3>3. calls' = calls \/ calls' = [calls EXCEPT ![e][k + 1] = calls[e][k + 1] + 1]
      <4>1. calls' = calls \/ calls' = [calls EXCEPT ![e][k + 1] = @ + 1]
        BY <2>1
      <4> QED BY <2>2, <3>2, <4>1
    <3>4. \A i \in 1 .. Planned : [calls EXCEPT ![e][k + 1] = calls[e][k + 1] + 1][e][i]
                                   = IF i = k + 1 THEN calls[e][k + 1] + 1 ELSE calls[e][i]
      BY <2>2, <3>2, NestedUpdate
    <3>5. \A i \in 1 .. Planned : i > k + 1 => calls'[e][i] = calls[e][i]
      BY <2>2, <3>3, <3>4
    <3> QED BY <3>1, <3>5
  <2>4. worker[w].seq = 2 * k + 1 /\ worker[w].seq \in Nat
    BY <1>0, <2>1 DEF Holding, WorkerRecords
  <2> HIDE DEF e, k
  <2>5. worker[w].exp = e /\ worker[w].pos = k
    BY DEF e, k
  <2>6. CASE worker' = [worker EXCEPT ![w].pc = "failing"]
    BY <1>f, <2>1, <2>6
  <2>7. CASE worker' # [worker EXCEPT ![w].pc = "failing"]
    <3>1. /\ worker'[w].pc = "call" /\ worker'[w].exp = e /\ worker'[w].seq = 2 * k + 2
          /\ worker'[w].pos = k
          /\ owner'[e] = w /\ status'[e] \notin {"pending", "cancelled"}
          /\ Cardinality(events'[e]) = 2 * k + 2 /\ \A ev \in events'[e] : ev.seq <= 2 * k + 2
          /\ \E ev \in events'[e] : ev.seq = 2 * k + 2 /\ ev.kind = "iteration_started"
      <4>1. "call" \in Pcs /\ (2 * k + 1) + 1 = 2 * k + 2
        BY <2>2 DEF Pcs
      <4> QED BY <2>1, <2>4, <2>5, <2>7, <4>1, HoldPersist
    <3>2. Poised(w)'
      BY <2>2, <3>1 DEF Poised
    <3>3. Holding(w)'
      BY <2>1, <2>2, <2>3, <3>1 DEF Holding
    <3> QED BY <3>2, <3>3
  <2> QED BY <2>6, <2>7
<1>8. CASE CallReturns(w)
  <2>1. /\ worker[w].pc = "call" /\ UNCHANGED <<owner, status, events, calls>>
        /\ worker'[w].pc = "record" /\ worker'[w].exp = worker[w].exp
        /\ worker'[w].seq = worker[w].seq /\ worker'[w].pos = worker[w].pos
    BY <1>0, <1>8 DEF CallReturns, At, rowVars, history, WorkerRecords
  <2> QED BY <1>0, <2>1 DEF Poised, Executing, Holding
<1>9. CASE DeadlinePasses(w)
  <2>1. /\ worker[w].pc = "next" /\ UNCHANGED <<owner, status, events, calls>>
        /\ worker'[w].pc = "limit" /\ worker'[w].exp = worker[w].exp
        /\ worker'[w].seq = worker[w].seq /\ worker'[w].pos = worker[w].pos
    BY <1>0, <1>9 DEF DeadlinePasses, Goto, At, rowVars, history, WorkerRecords
  <2> QED BY <1>0, <2>1 DEF Poised, Executing, Holding
<1>10. CASE LimitReached(w)
  <2>1. Executing(w) /\ Persist(w, "limit_reached", "expire") /\ calls' = calls /\ worker[w].pc = "limit"
    BY <1>10 DEF LimitReached, At, Executing
  <2> DEFINE e == worker[w].exp  k == worker[w].pos
  <2>2. e \in Experiments /\ k \in Nat /\ worker[w].seq = 2 * k + 1
        /\ \A i \in 1 .. Planned : i > k => calls'[e][i] = 0
    BY <1>0, <2>1 DEF Holding, WorkerRecords
  <2> HIDE DEF e, k
  <2>3. worker[w].exp = e /\ worker[w].pos = k
    BY DEF e, k
  <2>4. CASE worker' = [worker EXCEPT ![w].pc = "failing"]
    BY <1>f, <2>1, <2>4
  <2>5. CASE worker' # [worker EXCEPT ![w].pc = "failing"]
    <3>1. /\ worker'[w].pc = "expire" /\ worker'[w].exp = e /\ worker'[w].seq = 2 * k + 2
          /\ worker'[w].pos = k
          /\ owner'[e] = w /\ status'[e] \notin {"pending", "cancelled"}
          /\ Cardinality(events'[e]) = 2 * k + 2 /\ \A ev \in events'[e] : ev.seq <= 2 * k + 2
          /\ \E ev \in events'[e] : ev.seq = 2 * k + 2 /\ ev.kind = "limit_reached"
      <4>1. "expire" \in Pcs /\ (2 * k + 1) + 1 = 2 * k + 2
        BY <2>2 DEF Pcs
      <4> QED BY <2>1, <2>2, <2>3, <2>5, <4>1, HoldPersist
    <3>2. Poised(w)'
      BY <2>2, <3>1 DEF Poised
    <3>3. Holding(w)'
      BY <2>2, <3>1 DEF Holding
    <3> QED BY <3>2, <3>3
  <2> QED BY <2>4, <2>5
<1>11. CASE DeadlineFailed(w)
  <2>1. Executing(w) /\ Persist(w, "experiment_failed", "expired") /\ worker[w].pc = "expire"
    BY <1>11 DEF DeadlineFailed, At, Executing
  <2> QED BY <1>0, <1>f, <2>1, HoldPersist DEF Poised, Executing, Pcs
<1>12. CASE IterationsFailed(w)
  <2>1. Executing(w) /\ Persist(w, "experiment_failed", "fail") /\ worker[w].pc = "next"
    BY <1>12 DEF IterationsFailed, At, Executing
  <2> QED BY <1>0, <1>f, <2>1, HoldPersist DEF Poised, Executing, Pcs
<1>13. CASE IterationRecorded(w)
  <2>1. CASE Raises(w)
    BY <1>13, <1>g, <2>1 DEF IterationRecorded, Raises, At
  <2>2. CASE ~Raises(w)
    <3> DEFINE e == worker[w].exp  n == worker[w].seq  k == worker[w].pos
               kind == EventOf(IF worker[w].last = "completed" THEN "completed" ELSE "failed")
               pc == IF worker[w].last = "expired" THEN "limit" ELSE "next"
               new == [seq |-> n + 1, kind |-> kind]
    <3>1. /\ Fits(w) /\ Inserted(w, kind) /\ UNCHANGED <<status, owner, calls>>
          /\ worker[w].pc = "record"
          /\ worker' = [worker EXCEPT ![w].pc = pc, ![w].seq = @ + 1, ![w].pos = k + 1,
                ![w].allOk = @ /\ worker[w].last = "completed", ![w].last = "none"]
      BY <1>13, <2>2 DEF IterationRecorded, At, history
    <3>2. /\ e \in Experiments /\ n \in Nat /\ k \in Nat /\ Holding(w) /\ pc \in {"limit", "next"}
          /\ kind \in {"iteration_completed", "iteration_failed"}
      BY <1>0, <3>1 DEF WorkerRecords, Executing, EventOf
    <3>3. worker'[w].pc = pc /\ worker'[w].exp = e /\ worker'[w].seq = n + 1 /\ worker'[w].pos = k + 1
      BY <1>0, <3>1, <3>2 DEF WorkerRecords
    <3>4. owner'[e] = w /\ status'[e] = "running"
      BY <3>1 DEF Fits, Owns, Exp
    <3>5. events'[e] = events[e] \cup {new}
      BY <3>1, <3>2 DEF Inserted, Exp, TypeOK
    <3>6. /\ IsFiniteSet(events[e]) /\ events[e] \subseteq EventRecords
          /\ Cardinality(events[e]) = n /\ \A ev \in events[e] : ev.seq <= n
          /\ n = 2 * k + 2 /\ k < Planned /\ \A i \in 1 .. Planned : i > k + 1 => calls'[e][i] = 0
      BY <3>1, <3>2 DEF FiniteInv, TypeOK, EventRecords, Holding
    <3> DEFINE L == events[e]
    <3>7. IsFiniteSet(L) /\ L \subseteq EventRecords /\ Cardinality(L) = n /\ \A ev \in L : ev.seq <= n
      BY <3>6
    <3>8. events'[e] = L \cup {new} /\ new = [seq |-> n + 1, kind |-> kind]
      BY <3>5
    <3> HIDE DEF L, new, kind, pc, n, k, e
    <3>9. /\ Cardinality(events'[e]) = n + 1 /\ \A ev \in events'[e] : ev.seq <= n + 1
          /\ \E ev \in events'[e] : ev.seq = n + 1 /\ ev.kind = kind
      BY <3>2, <3>7, <3>8, LogGrows
    <3>10. Poised(w)'
      BY <3>2, <3>3 DEF Poised
    <3>11. Holding(w)'
      BY <3>2, <3>3, <3>4, <3>6, <3>9 DEF Holding
    <3> QED BY <3>10, <3>11
  <2> QED BY <2>1, <2>2
<1>14. CASE IntegrityFails(w) \/ RequestCancelled(w)
  BY <1>14, <1>g DEF IntegrityFails, RequestCancelled, At
<1>15. CASE Publish(w)
  <2>1. CASE Raises(w)
    BY <1>15, <1>g, <2>1 DEF Publish, Raises, At
  <2>2. CASE Moves(w, "done")
    <3>1. worker'[w].pc = "done" /\ worker'[w].exp = worker[w].exp /\ worker[w].pc = "next"
      BY <1>0, <1>15, <2>2 DEF Moves, Publish, At, WorkerRecords
    <3> QED BY <1>0, <3>1 DEF Poised, Executing
  <2> QED BY <1>15, <2>1, <2>2 DEF Publish
<1>16. CASE FailExecution(w)
  <2>1. worker[w].pc # "idle" /\ \E pc \in {"done", "failing"} : Goto(w, pc)
    BY <1>16 DEF FailExecution, Raises
  <2> QED BY <1>g, <2>1
<1>17. CASE Return(w) \/ Abandon(w)
  BY <1>17, <1>i DEF Return, Abandon
<1> QED
  BY <1>1, <1>2, <1>3, <1>4, <1>5, <1>6, <1>7, <1>8, <1>9, <1>10, <1>11, <1>12, <1>13, <1>14,
     <1>15, <1>16, <1>17 DEF WorkerStep, WorkerNext

LEMMA Steps ==
    [Next]_vars => \/ \E w \in Workers : WorkerStep(w)
                   \/ CancelNext \/ DropLock \/ UNCHANGED vars
  BY DEF Next, WorkerStep

LEMMA Forwards == TypeOK /\ HoldInv /\ [Next]_vars => \A e \in Experiments : Forward(e)
  BY Steps, WorkerFrame, OtherFrame

LEMMA HoldStep == TypeOK /\ FiniteInv /\ HoldInv /\ FreshInv /\ [Next]_vars => HoldInv'
<1> SUFFICES ASSUME TypeOK, FiniteInv, HoldInv, FreshInv, [Next]_vars, NEW v \in Workers
             PROVE  Poised(v)' /\ (Executing(v) => Holding(v))'
  BY DEF HoldInv
<1>1. CASE CancelNext \/ DropLock \/ UNCHANGED vars
  BY <1>1, OtherFrame, HoldOther
<1>2. ASSUME NEW w \in Workers, WorkerStep(w)
      PROVE  Poised(v)' /\ (Executing(v) => Holding(v))'
  <2>1. CASE w = v
    BY <1>2, <2>1, HoldOwn
  <2>2. CASE w # v
    <3>1. worker'[v] = worker[v] /\ \A e \in Experiments : Forward(e) /\ (owner[e] = v => Kept(e))
      BY <1>2, <2>2, WorkerFrame DEF Owns
    <3> QED BY <3>1, HoldOther
  <2> QED BY <2>1, <2>2
<1> QED BY <1>1, <1>2, Steps

LEMMA FreshStep == TypeOK /\ HoldInv /\ FreshInv /\ [Next]_vars => FreshInv'
<1> SUFFICES ASSUME TypeOK, HoldInv, FreshInv, [Next]_vars, NEW e \in Experiments,
                    status'[e] \in {"pending", "cancelled"}
             PROVE  events'[e] = {} /\ \A i \in 1 .. Planned : outcomes'[e][i] = "none" /\ calls'[e][i] = 0
  BY DEF FreshInv
<1>1. status[e] \in {"pending", "cancelled"}
  BY Forwards DEF Forward, TypeOK, Statuses, Terminal
<1>2. Kept(e)
  BY <1>1, Steps, WorkerFrame, OtherFrame DEF Owns
<1> QED BY <1>1, <1>2 DEF Kept, FreshInv

\* Only an iteration that begins counts a call.
LEMMA CallsStep == TypeOK /\ HoldInv /\ CalledOnceInv /\ [Next]_vars => CalledOnceInv'
<1> SUFFICES ASSUME TypeOK, HoldInv, CalledOnceInv, [Next]_vars PROVE CalledOnceInv'
  OBVIOUS
<1>1. CASE UNCHANGED calls
  BY <1>1 DEF CalledOnceInv
<1>2. ASSUME NEW w \in Workers, IterationStarted(w), calls' # calls PROVE CalledOnceInv'
  <2> DEFINE e == worker[w].exp  k == worker[w].pos
  <2>1. worker[w].pc = "next" /\ k + 1 <= Planned /\ calls' = [calls EXCEPT ![e][k + 1] = @ + 1]
    BY <1>2 DEF IterationStarted, At, Exp
  <2>2. e \in Experiments /\ k \in Nat /\ Holding(w)
    BY <2>1 DEF HoldInv, Poised, Executing, TypeOK
  <2>3. \A i \in 1 .. Planned : i > k + 0 => calls[e][i] = 0
    BY <2>1, <2>2 DEF Holding
  <2>4. k + 1 \in 1 .. Planned /\ calls \in [Experiments -> [1 .. Planned -> Nat]]
    BY <2>1, <2>2 DEF TypeOK
  <2> HIDE DEF e, k
  <2>5. calls[e][k + 1] = 0
    BY <2>2, <2>3, <2>4
  <2>6. calls' = [calls EXCEPT ![e][k + 1] = 1]
    BY <2>1, <2>2, <2>4, <2>5
  <2>7. \A x \in Experiments, y \in 1 .. Planned :
            calls'[x][y] = IF x = e /\ y = k + 1 THEN 1 ELSE calls[x][y]
    BY <2>2, <2>4, <2>6, NestedUpdate
  <2> QED BY <2>7 DEF CalledOnceInv
<1>3. UNCHANGED calls \/ \E w \in Workers : IterationStarted(w) /\ calls' # calls
  <2>1. ASSUME NEW w \in Workers, WorkerStep(w), ~IterationStarted(w) PROVE UNCHANGED calls
    BY <2>1 DEF WorkerStep, WorkerNext, Prepare, AcquireLock, Reconcile, AdmissionRead, AdmissionUpdate,
         PlanCreated, CallReturns, IterationRecorded, DeadlinePasses, LimitReached, DeadlineFailed,
         IterationsFailed, IntegrityFails, Publish, FailExecution, Return, RequestCancelled, Abandon,
         history
  <2> QED BY <2>1, Steps, OtherFrame
<1> QED BY <1>1, <1>2, <1>3

CoreInv == TypeOK /\ FiniteInv /\ HoldInv /\ FreshInv /\ CalledOnceInv

LEMMA CoreCorrect == Spec => []CoreInv
<1>1. Init => CoreInv
  BY TypedInit, HoldInit DEF CoreInv
<1>2. CoreInv /\ [Next]_vars => CoreInv'
  BY TypeStep, HoldStep, FreshStep, CallsStep DEF CoreInv
<1> QED BY <1>1, <1>2, PTL DEF Spec

\* Every reachable record, event log, worker and cancel request of an experiment is
\* well-typed; no worker runs past its plan.
THEOREM OperatorTypes == Spec => []TypeOK
<1>1. CoreInv => TypeOK
  BY DEF CoreInv
<1> QED BY <1>1, CoreCorrect, PTL

\* Whoever comes late - a cancel request that read the record before, an operator that
\* lost its lock, a worker whose record was reconciled - finds the terminal record
\* closed: its row, log, outcomes and result stay as they are.
THEOREM TerminalStays == Spec => TerminalIsImmutable
<1> DEFINE Closed == \A e \in Experiments : status[e] \in Terminal =>
                        UNCHANGED <<status[e], owner[e], events[e], outcomes[e], e \in results>>
<1>1. CoreInv /\ [Next]_vars => [Closed]_vars
  <2> SUFFICES ASSUME CoreInv, [Next]_vars, NEW e \in Experiments, status[e] \in Terminal
               PROVE  UNCHANGED <<status[e], owner[e], events[e], outcomes[e], e \in results>>
    OBVIOUS
  <2>1. TypeOK /\ HoldInv
    BY DEF CoreInv
  <2>2. Forward(e)
    BY <2>1, Forwards
  <2>3. status[e] # "running" /\ status[e] # "pending"
    BY DEF Terminal
  <2>4. Kept(e)
    BY <2>1, <2>3, Steps, WorkerFrame, OtherFrame DEF Owns
  <2> QED BY <2>2, <2>3, <2>4 DEF Forward, Kept
<1> QED BY <1>1, CoreCorrect, PTL DEF Spec, TerminalIsImmutable

-----------------------------------------------------------------------------
(* One call at a time                                                       *)

\* A worker's program counter after its step.
LEMMA Progress ==
    ASSUME TypeOK, NEW w \in Workers, WorkerStep(w)
    PROVE  \/ worker' = [worker EXCEPT ![w] = Idle]
           \/ worker'[w].pc = "lock"
           \/ AcquireLock(w) /\ lock' = w
           \/ /\ worker[w].pc \notin {"idle", "lock"}
              /\ UNCHANGED <<lock, dropped>>
<1>1. ASSUME NEW e \in Experiments, Prepare(w, e) PROVE worker'[w].pc = "lock"
  BY <1>1 DEF Prepare, Idle, TypeOK
<1>2. ASSUME AcquireLock(w) PROVE lock' = w \/ worker' = [worker EXCEPT ![w] = Idle]
  BY <1>2 DEF AcquireLock
<1>3. ASSUME Return(w) \/ Abandon(w) PROVE worker' = [worker EXCEPT ![w] = Idle]
  BY <1>3 DEF Return, Abandon
<1>4. ASSUME \/ Reconcile(w) \/ AdmissionRead(w) \/ AdmissionUpdate(w)
             \/ PlanCreated(w) \/ IterationStarted(w) \/ CallReturns(w) \/ IterationRecorded(w)
             \/ DeadlinePasses(w) \/ LimitReached(w) \/ DeadlineFailed(w) \/ IterationsFailed(w)
             \/ IntegrityFails(w) \/ Publish(w) \/ FailExecution(w) \/ RequestCancelled(w)
      PROVE  worker[w].pc \notin {"idle", "lock"} /\ UNCHANGED <<lock, dropped>>
  BY <1>4 DEF Reconcile, AdmissionRead, AdmissionUpdate, PlanCreated, IterationStarted, CallReturns,
       IterationRecorded, DeadlinePasses, LimitReached, DeadlineFailed, IterationsFailed,
       IntegrityFails, Publish, FailExecution, RequestCancelled, Persist, At, history
<1> QED BY <1>1, <1>2, <1>3, <1>4 DEF WorkerStep, WorkerNext

LEMMA LockStep == TypeOK /\ HoldInv /\ LockInv /\ [Next]_vars => LockInv'
<1> SUFFICES ASSUME TypeOK, HoldInv, LockInv, [Next]_vars, NEW v \in Workers,
                    v \notin dropped', worker'[v].pc \notin {"idle", "lock"}
             PROVE  lock' = v
  BY DEF LockInv
<1>1. CASE CancelNext \/ UNCHANGED vars
  BY <1>1 DEF CancelNext, CancelChecks, CancelReads, CancelUpdates, vars, history, LockInv
<1>2. CASE DropLock
  BY <1>2 DEF DropLock, rowVars, LockInv
<1>3. ASSUME NEW w \in Workers, WorkerStep(w) PROVE lock' = v
  <2>0. worker \in [Workers -> WorkerRecords]
    BY DEF TypeOK, WorkerRecords
  <2>1. CASE w = v
    <3>1. ~(worker' = [worker EXCEPT ![w] = Idle])
      BY <2>0, <2>1, IdleTypes
    <3> QED BY <1>3, <2>1, <3>1, Progress DEF LockInv
  <2>2. CASE w # v
    <3>1. worker'[v] = worker[v]
      BY <1>3, <2>2, WorkerFrame
    <3>2. /\ v \notin dropped
          /\ lock' = lock \/ (lock = None /\ lock' = w) \/ (lock = w /\ lock' = None)
      BY <1>3, <2>2 DEF WorkerStep, WorkerNext, Prepare, AcquireLock, Reconcile, AdmissionRead,
           AdmissionUpdate, PlanCreated, IterationStarted, CallReturns, IterationRecorded,
           DeadlinePasses, LimitReached, DeadlineFailed, IterationsFailed, IntegrityFails, Publish,
           FailExecution, Return, RequestCancelled, Abandon, Released, Persist, history
    <3> QED BY <2>2, <3>1, <3>2 DEF LockInv
  <2> QED BY <2>1, <2>2
<1> QED BY <1>1, <1>2, <1>3, Steps

\* Whatever fails and whoever loses the lock, no iteration's model call is made a second
\* time, none is made for a record that was not admitted, and two calls overlap only when
\* the operator lock was lost under one of them.
THEOREM CallsAreExclusive == Spec => []OneCallAtATime
<1>1. Init => LockInv
  BY DEF Init, LockInv, Idle
<1>2. CoreInv /\ LockInv /\ [Next]_vars => LockInv'
  BY LockStep DEF CoreInv
<1>3. CoreInv /\ LockInv => OneCallAtATime
  BY DEF CoreInv, CalledOnceInv, FreshInv, LockInv, OneCallAtATime, At
<1> QED BY <1>1, <1>2, <1>3, CoreCorrect, PTL DEF Spec

-----------------------------------------------------------------------------
(* Result and completion                                                    *)

\* Only a publication makes a result or completes a record, and then both.
LEMMA PublishedTogether ==
    ASSUME TypeOK, HoldInv, NEW w \in Workers, WorkerStep(w), NEW e \in Experiments,
           status[e] # "completed"
    PROVE  \/ (e \in results' <=> e \in results) /\ status'[e] # "completed"
           \/ /\ e \in results' /\ status'[e] = "completed"
              /\ Executing(w) /\ worker[w].exp = e /\ worker[w].pc = "next"
              /\ worker[w].pos = Planned
              /\ outcomes' = outcomes /\ \A i \in 1 .. Planned : outcomes[e][i] = "completed"
              /\ Inserted(w, "experiment_completed")
<1>0. status \in [Experiments -> Statuses]
  BY DEF TypeOK
<1>1. CASE Publish(w)
  <2>1. CASE UNCHANGED <<events, results, status>>
    BY <2>1
  <2>2. CASE /\ \A i \in 1 .. Planned : outcomes[Exp(w)][i] = "completed"
             /\ Inserted(w, "experiment_completed")
             /\ results' = results \cup {Exp(w)}
             /\ status' = [status EXCEPT ![Exp(w)] = "completed"]
    <3>1. /\ worker[w].pc = "next" /\ worker[w].pos = Planned /\ outcomes' = outcomes
          /\ Executing(w)
      BY <1>1 DEF Publish, At, Executing
    <3> QED BY <1>0, <2>2, <3>1 DEF Exp
  <2> QED BY <1>1, <2>1, <2>2 DEF Publish
<1>2. CASE ~Publish(w)
  <2>1. results' = results
    BY <1>2 DEF WorkerStep, WorkerNext, Prepare, AcquireLock, Reconcile, AdmissionRead,
         AdmissionUpdate, PlanCreated, IterationStarted, CallReturns, IterationRecorded,
         DeadlinePasses, LimitReached, DeadlineFailed, IterationsFailed, IntegrityFails,
         FailExecution, Return, RequestCancelled, Abandon, Persist, rowVars
  <2>2. \/ UNCHANGED status \/ Reconcile(w) \/ AdmissionUpdate(w) \/ FailExecution(w)
    BY <1>2 DEF WorkerStep, WorkerNext, Prepare, AcquireLock, AdmissionRead,
         PlanCreated, IterationStarted, CallReturns, IterationRecorded,
         DeadlinePasses, LimitReached, DeadlineFailed, IterationsFailed, IntegrityFails,
         Return, RequestCancelled, Abandon, Persist, rowVars
  <2>3. CASE Reconcile(w)
    BY <1>0, <2>1, <2>3 DEF Reconcile
  <2>4. CASE AdmissionUpdate(w) \/ FailExecution(w)
    <3>1. \/ UNCHANGED status
          \/ \E s \in {"running", "failed"} : status' = [status EXCEPT ![Exp(w)] = s]
      BY <2>4 DEF AdmissionUpdate, FailExecution
    <3>2. status'[e] # "completed"
      BY <1>0, <3>1
    <3> QED BY <2>1, <3>2
  <2> QED BY <2>1, <2>2, <2>3, <2>4
<1> QED BY <1>1, <1>2

LEMMA ResultStep == CoreInv /\ ResultMeansCompleted /\ [Next]_vars => ResultMeansCompleted'
<1> DEFINE Backed(e) ==
        /\ e \in results <=> status[e] = "completed"
        /\ e \in results => /\ \A i \in 1 .. Planned : outcomes[e][i] = "completed"
                            /\ Cardinality(events[e]) = 2 * Planned + 2
<1> SUFFICES ASSUME CoreInv, ResultMeansCompleted, [Next]_vars, NEW e \in Experiments PROVE Backed(e)'
  BY DEF ResultMeansCompleted
<1>0. TypeOK /\ FiniteInv /\ HoldInv /\ Backed(e)
  BY DEF CoreInv, ResultMeansCompleted
<1>1. CASE status[e] = "completed"
  <2>1. Forward(e) /\ Kept(e)
    BY <1>0, <1>1, Forwards, Steps, WorkerFrame, OtherFrame DEF Owns
  <2> QED BY <1>0, <1>1, <2>1 DEF Forward, Kept, Terminal
<1>2. CASE status[e] # "completed" /\ (CancelNext \/ DropLock \/ UNCHANGED vars)
  <2>1. results' = results /\ e \notin results
    BY <1>0, <1>2, OtherFrame
  <2>2. status'[e] # "completed"
    BY <1>0, <1>2 DEF CancelNext, CancelChecks, CancelReads, CancelUpdates, DropLock, vars, rowVars, TypeOK
  <2> QED BY <2>1, <2>2
<1>3. ASSUME NEW w \in Workers, WorkerStep(w), status[e] # "completed" PROVE Backed(e)'
  <2>1. CASE (e \in results' <=> e \in results) /\ status'[e] # "completed"
    BY <1>0, <1>3, <2>1
  <2>2. CASE /\ e \in results' /\ status'[e] = "completed"
             /\ Executing(w) /\ worker[w].exp = e /\ worker[w].pc = "next"
             /\ worker[w].pos = Planned
             /\ outcomes' = outcomes /\ \A i \in 1 .. Planned : outcomes[e][i] = "completed"
             /\ Inserted(w, "experiment_completed")
    <3> DEFINE n == worker[w].seq  L == events[e]
               new == [seq |-> n + 1, kind |-> "experiment_completed"]
    <3>1. Holding(w)
      BY <1>0, <2>2 DEF HoldInv
    <3>2. /\ IsFiniteSet(L) /\ L \subseteq EventRecords /\ Cardinality(L) = n
          /\ \A ev \in L : ev.seq <= n
          /\ n = 2 * Planned + 1
      BY <1>0, <2>2, <3>1 DEF FiniteInv, TypeOK, EventRecords, Holding
    <3>3. events'[e] = L \cup {new} /\ new = [seq |-> n + 1, kind |-> "experiment_completed"]
      BY <1>0, <2>2 DEF Inserted, Exp, TypeOK
    <3>4. n \in Nat /\ n + 1 = 2 * Planned + 2
      BY <3>2
    <3> HIDE DEF n, L, new
    <3>5. Cardinality(events'[e]) = 2 * Planned + 2
      BY <3>2, <3>3, <3>4, LogGrows
    <3> QED BY <2>2, <3>5
  <2> QED BY <1>0, <1>3, <2>1, <2>2, PublishedTogether
<1> QED BY <1>1, <1>2, <1>3, Steps

\* A result is there exactly for a completed record, behind evidence of every planned
\* iteration and the whole log, whatever transaction fails or loses its answer.
THEOREM ResultsAreEarned == Spec => []ResultMeansCompleted
<1>1. Init => ResultMeansCompleted
  BY DEF Init, ResultMeansCompleted
<1> QED BY <1>1, ResultStep, CoreCorrect, PTL DEF Spec

-----------------------------------------------------------------------------
(* The event log                                                            *)

\* A log's order, and its agreement with the outcome rows.
Linked(L) ==
    /\ \A ev \in L :
          \/ ev.seq = 1 /\ ev.kind = "plan_created"
          \/ \E before \in L : before.seq = ev.seq - 1 /\ ev.kind \in Follows[before.kind]
    /\ \A ev, other \in L : ev.seq = other.seq => ev = other

Matched(L, rows) ==
    \A i \in 1 .. Planned : \A result \in {"completed", "failed"} :
        rows[i] = result <=> [seq |-> 2 * i + 1, kind |-> EventOf(result)] \in L

LogInv == \A e \in Experiments : Linked(events[e]) /\ Matched(events[e], outcomes[e])

PlanBound ==
    \A e \in Experiments : \A ev \in events[e] :
        ev.kind = "iteration_started" => ev.seq <= 2 * Planned

LEMMA FollowsKinds ==
    /\ "iteration_started" \in Follows["plan_created"]
    /\ "limit_reached" \in Follows["plan_created"]
    /\ \A result \in {"iteration_completed", "iteration_failed"} :
          /\ result \in Follows["iteration_started"]
          /\ {"iteration_started", "limit_reached", "experiment_failed", "experiment_completed"}
                \subseteq Follows[result]
    /\ "experiment_failed" \in Follows["limit_reached"]
  BY DEF Follows, Kinds

LEMMA LinkedGrows ==
    ASSUME NEW L, NEW n \in Nat, L \subseteq EventRecords, \A ev \in L : ev.seq <= n, Linked(L),
           NEW kind, NEW new, new = [seq |-> n + 1, kind |-> kind],
           \/ n = 0 /\ kind = "plan_created"
           \/ \E before \in L : before.seq = n /\ kind \in Follows[before.kind]
    PROVE  Linked(L \cup {new})
<1>1. new.seq = n + 1 /\ new.kind = kind /\ \A ev \in L : ev.seq \in Nat /\ ev.seq # n + 1
  BY DEF EventRecords
<1>2. \A ev \in L \cup {new} :
          \/ ev.seq = 1 /\ ev.kind = "plan_created"
          \/ \E before \in L \cup {new} : before.seq = ev.seq - 1 /\ ev.kind \in Follows[before.kind]
  <2>1. ASSUME NEW ev \in L
        PROVE  \/ ev.seq = 1 /\ ev.kind = "plan_created"
               \/ \E before \in L \cup {new} : before.seq = ev.seq - 1 /\ ev.kind \in Follows[before.kind]
    BY DEF Linked
  <2>2. \/ new.seq = 1 /\ new.kind = "plan_created"
        \/ \E before \in L \cup {new} : before.seq = new.seq - 1 /\ new.kind \in Follows[before.kind]
    <3>1. new.seq - 1 = n
      BY <1>1
    <3> QED BY <1>1, <3>1
  <2> QED BY <2>1, <2>2
<1>3. \A ev, other \in L \cup {new} : ev.seq = other.seq => ev = other
  BY <1>1 DEF Linked
<1> QED BY <1>2, <1>3 DEF Linked

\* An event that ends no iteration, persisted by its executing worker.
LEMMA LogInserts ==
    ASSUME TypeOK, HoldInv, NEW w \in Workers, Executing(w), NEW kind, Inserted(w, kind),
           kind \notin {"iteration_completed", "iteration_failed"},
           \/ worker[w].seq = 0 /\ kind = "plan_created"
           \/ \E before \in events[worker[w].exp] :
                  before.seq = worker[w].seq /\ kind \in Follows[before.kind],
           NEW e \in Experiments, outcomes'[e] = outcomes[e],
           Linked(events[e]), Matched(events[e], outcomes[e])
    PROVE  Linked(events'[e]) /\ Matched(events'[e], outcomes'[e])
<1>1. CASE e # worker[w].exp
  <2>1. events'[e] = events[e]
    BY <1>1 DEF Inserted, Exp, TypeOK
  <2> QED BY <2>1
<1>2. CASE e = worker[w].exp
  <2> DEFINE n == worker[w].seq  L == events[e]  new == [seq |-> n + 1, kind |-> kind]
  <2>1. events'[e] = L \cup {new} /\ new = [seq |-> n + 1, kind |-> kind]
    BY <1>2 DEF Inserted, Exp, TypeOK
  <2>2. n \in Nat /\ L \subseteq EventRecords /\ \A ev \in L : ev.seq <= n
    BY <1>2 DEF HoldInv, Holding, TypeOK, EventRecords
  <2>3. \/ n = 0 /\ kind = "plan_created"
        \/ \E before \in L : before.seq = n /\ kind \in Follows[before.kind]
    BY <1>2
  <2>4. Linked(L) /\ Matched(L, outcomes[e])
    OBVIOUS
  <2> HIDE DEF n, L, new
  <2>5. Linked(L \cup {new})
    BY <2>1, <2>2, <2>3, <2>4, LinkedGrows
  <2>6. Matched(L \cup {new}, outcomes[e])
    <3>1. new.kind = kind
      BY <2>1
    <3>2. \A i \in 1 .. Planned : \A result \in {"completed", "failed"} :
              [seq |-> 2 * i + 1, kind |-> EventOf(result)] # new
      BY <3>1 DEF EventOf
    <3> QED BY <2>4, <3>2 DEF Matched
  <2> QED BY <2>1, <2>5, <2>6
<1> QED BY <1>1, <1>2

\* The event that ends an iteration, with its outcome row.
LEMMA LogRecords ==
    ASSUME TypeOK, HoldInv, NEW w \in Workers, worker[w].pc = "record",
           NEW r \in {"completed", "failed"}, Inserted(w, EventOf(r)),
           outcomes' = [outcomes EXCEPT ![worker[w].exp][worker[w].pos + 1] = r],
           NEW e \in Experiments, Linked(events[e]), Matched(events[e], outcomes[e])
    PROVE  Linked(events'[e]) /\ Matched(events'[e], outcomes'[e])
<1>1. CASE e # worker[w].exp
  <2>1. events'[e] = events[e]
    BY <1>1 DEF Inserted, Exp, TypeOK
  <2>2. outcomes'[e] = outcomes[e]
    BY <1>1 DEF TypeOK
  <2> QED BY <2>1, <2>2
<1>2. CASE e = worker[w].exp
  <2> DEFINE n == worker[w].seq  k == worker[w].pos  L == events[e]  kind == EventOf(r)
             new == [seq |-> n + 1, kind |-> kind]  Os == {"none", "completed", "failed"}
  <2>0. Holding(w)
    BY DEF HoldInv, Executing
  <2>1. events'[e] = L \cup {new} /\ new = [seq |-> n + 1, kind |-> kind]
    BY <1>2 DEF Inserted, Exp, TypeOK
  <2>2. /\ n \in Nat /\ k \in Nat /\ k < Planned /\ n = 2 * k + 2
        /\ L \subseteq EventRecords /\ \A ev \in L : ev.seq <= n
        /\ \E before \in L : before.seq = n /\ before.kind = "iteration_started"
    BY <1>2, <2>0 DEF Holding, TypeOK, EventRecords
  <2>3. \E before \in L : before.seq = n /\ kind \in Follows[before.kind]
    BY <2>2, FollowsKinds DEF EventOf
  <2>4. Linked(L) /\ Matched(L, outcomes[e])
    OBVIOUS
  <2>5. \A i \in 1 .. Planned : outcomes'[e][i] = IF i = k + 1 THEN r ELSE outcomes[e][i]
    <3>1. r \in Os /\ outcomes \in [Experiments -> [1 .. Planned -> Os]] /\ k + 1 \in 1 .. Planned
      BY <2>2 DEF TypeOK
    <3>2. outcomes' = [outcomes EXCEPT ![e][k + 1] = r]
      BY <1>2
    <3> HIDE DEF Os, k, L
    <3> QED BY <3>1, <3>2, NestedUpdate
  <2>6. \A x \in {"completed", "failed"} : EventOf(x) = kind <=> x = r
    BY DEF EventOf
  <2> HIDE DEF n, k, L, kind, new
  <2>7. Linked(L \cup {new})
    BY <2>1, <2>2, <2>3, <2>4, LinkedGrows
  <2>8. Matched(L \cup {new}, outcomes'[e])
    <3> SUFFICES ASSUME NEW i \in 1 .. Planned, NEW x \in {"completed", "failed"}
                 PROVE  outcomes'[e][i] = x <=> [seq |-> 2 * i + 1, kind |-> EventOf(x)] \in L \cup {new}
      BY DEF Matched
    <3> DEFINE ev == [seq |-> 2 * i + 1, kind |-> EventOf(x)]
    <3>0. ev.seq = 2 * i + 1 /\ ev.kind = EventOf(x) /\ new.seq = n + 1 /\ new.kind = kind
      BY <2>1
    <3>1. CASE i = k + 1
      <4>1. 2 * i + 1 = n + 1
        BY <2>2, <3>1
      <4>2. ev \notin L
        BY <2>2, <3>0, <4>1
      <4>3. ev = new <=> x = r
        BY <2>1, <2>6, <3>0, <4>1
      <4>4. outcomes'[e][i] = r
        BY <2>5, <3>1
      <4> QED BY <4>2, <4>3, <4>4
    <3>2. CASE i # k + 1
      <4>0. n = 2 * k + 2 /\ k \in Nat /\ i \in Int
        BY <2>2
      <4>1. 2 * i + 1 # n + 1
        <5>1. \A a, b \in Int : 2 * a + 1 = (2 * b + 2) + 1 => a = b + 1
          OBVIOUS
        <5>2. k \in Int
          BY <4>0
        <5> QED BY <3>2, <4>0, <5>1, <5>2
      <4>2. ev # new
        BY <3>0, <4>1
      <4>3. outcomes'[e][i] = outcomes[e][i]
        BY <2>5, <3>2
      <4> QED BY <2>4, <4>2, <4>3 DEF Matched
    <3> QED BY <3>1, <3>2
  <2> QED BY <2>1, <2>7, <2>8
<1> QED BY <1>1, <1>2

\* Only planned iterations are started.
LEMMA PlanStep == CoreInv /\ PlanBound /\ [Next]_vars => PlanBound'
<1> SUFFICES ASSUME CoreInv, PlanBound, [Next]_vars PROVE PlanBound'
  OBVIOUS
<1>0. TypeOK /\ HoldInv
  BY DEF CoreInv
<1>1. CASE CancelNext \/ DropLock \/ UNCHANGED vars
  BY <1>0, <1>1, OtherFrame DEF PlanBound
<1>2. ASSUME NEW w \in Workers, Inserted(w, "iteration_started"), At(w, "next"),
             worker[w].pos + 1 <= Planned
      PROVE  PlanBound'
  <2>1. worker[w].seq = 2 * worker[w].pos + 1
    BY <1>0, <1>2 DEF HoldInv, Holding, Executing, At
  <2>2. worker[w].pos \in Nat /\ Planned \in Nat
    BY OperatorAssumption, <1>0 DEF TypeOK
  <2>3. worker[w].seq + 1 <= 2 * Planned
    BY <1>2, <2>1, <2>2
  <2>4. \A e \in Experiments : \A ev \in events'[e] :
            ev \in events[e] \/ ev.seq = worker[w].seq + 1
    BY <1>0, <1>2 DEF Inserted, TypeOK
  <2> QED BY <2>3, <2>4 DEF PlanBound
<1>3. ASSUME NEW w \in Workers, NEW kind \in Kinds \ {"iteration_started"},
             Inserted(w, kind)
      PROVE  PlanBound'
  <2>1. \A e \in Experiments : \A ev \in events'[e] : ev \in events[e] \/ ev.kind = kind
    BY <1>0, <1>3 DEF Inserted, TypeOK
  <2> QED BY <1>3, <2>1 DEF PlanBound
<1>4. ASSUME UNCHANGED events PROVE PlanBound'
  BY <1>4 DEF PlanBound
<1>5. ASSUME NEW w \in Workers, WorkerStep(w) PROVE PlanBound'
  <2>1. CASE IterationStarted(w)
    BY <1>2, <1>4, <2>1 DEF IterationStarted, Persist
  <2>2. CASE PlanCreated(w) \/ LimitReached(w) \/ IterationsFailed(w) \/ Publish(w)
             \/ DeadlineFailed(w)
    <3>1. \/ UNCHANGED events
          \/ \E kind \in {"plan_created", "limit_reached", "experiment_failed",
                          "experiment_completed"} : Inserted(w, kind)
      BY <2>2 DEF PlanCreated, LimitReached, IterationsFailed, Publish, DeadlineFailed, Persist
    <3> QED BY <1>3, <1>4, <3>1 DEF Kinds
  <2>3. CASE IterationRecorded(w)
    <3>1. UNCHANGED events \/ \E r \in {"completed", "failed"} : Inserted(w, EventOf(r))
      BY <2>3 DEF IterationRecorded
    <3>2. \A r \in {"completed", "failed"} : EventOf(r) \in Kinds \ {"iteration_started"}
      BY DEF EventOf, Kinds
    <3> QED BY <1>3, <1>4, <3>1, <3>2
  <2>4. CASE ~(PlanCreated(w) \/ IterationStarted(w) \/ LimitReached(w) \/ IterationsFailed(w)
                \/ Publish(w) \/ DeadlineFailed(w) \/ IterationRecorded(w))
    <3>1. UNCHANGED events
      BY <1>5, <2>4 DEF WorkerStep, WorkerNext, Prepare, AcquireLock, Reconcile, AdmissionRead,
           AdmissionUpdate, CallReturns, DeadlinePasses, IntegrityFails, FailExecution, Return,
           RequestCancelled, Abandon, rowVars
    <3> QED BY <1>4, <3>1
  <2> QED BY <2>1, <2>2, <2>3, <2>4
<1> QED BY <1>1, <1>5, Steps

LEMMA LogStep == CoreInv /\ LogInv /\ [Next]_vars => LogInv'
<1> SUFFICES ASSUME CoreInv, LogInv, [Next]_vars, NEW e \in Experiments
             PROVE  Linked(events'[e]) /\ Matched(events'[e], outcomes'[e])
  BY DEF LogInv
<1> DEFINE Goal == Linked(events'[e]) /\ Matched(events'[e], outcomes'[e])
<1>0. /\ TypeOK /\ HoldInv /\ Linked(events[e]) /\ Matched(events[e], outcomes[e])
  BY DEF CoreInv, LogInv
<1>u. ASSUME events'[e] = events[e], outcomes'[e] = outcomes[e] PROVE Goal
  BY <1>0, <1>u
<1>1. CASE CancelNext \/ DropLock \/ UNCHANGED vars
  BY <1>0, <1>1, <1>u, OtherFrame
<1>2. ASSUME NEW w \in Workers, WorkerStep(w) PROVE Goal
  <2>1. CASE PlanCreated(w)
    <3>1. /\ Executing(w) /\ worker[w].pc = "plan" /\ UNCHANGED outcomes
          /\ UNCHANGED events \/ Inserted(w, "plan_created")
      BY <2>1 DEF PlanCreated, Persist, Executing, At
    <3>2. worker[w].seq = 0
      BY <1>0, <3>1 DEF HoldInv, Holding
    <3> QED BY <1>0, <1>u, <3>1, <3>2, LogInserts
  <2>2. CASE IterationStarted(w) \/ LimitReached(w) \/ IterationsFailed(w) \/ Publish(w)
    <3>1. /\ Executing(w) /\ worker[w].pc \in {"next", "limit"} /\ UNCHANGED outcomes
          /\ \/ UNCHANGED events
             \/ \E kind \in {"iteration_started", "limit_reached"} : Inserted(w, kind)
             \/ /\ worker[w].pos = Planned
                /\ \E kind \in {"experiment_failed", "experiment_completed"} : Inserted(w, kind)
      BY <2>2 DEF IterationStarted, LimitReached, IterationsFailed, Publish, Persist, Executing, At
    <3>2. \E before \in events[worker[w].exp] :
             /\ before.seq = worker[w].seq
             /\ before.kind \in IF worker[w].pos = 0 THEN {"plan_created"}
                                ELSE {"iteration_completed", "iteration_failed"}
      BY <1>0, <3>1 DEF HoldInv, Holding
    <3>3. PICK before \in events[worker[w].exp] :
             /\ before.seq = worker[w].seq
             /\ before.kind \in IF worker[w].pos = 0 THEN {"plan_created"}
                                ELSE {"iteration_completed", "iteration_failed"}
      BY <3>2
    <3>4. {"iteration_started", "limit_reached"} \subseteq Follows[before.kind]
      BY <3>3, FollowsKinds
    <3>5. worker[w].pos = Planned =>
             {"experiment_failed", "experiment_completed"} \subseteq Follows[before.kind]
      BY <3>3, FollowsKinds
    <3>6. ASSUME NEW kind \in {"iteration_started", "limit_reached", "experiment_failed",
                              "experiment_completed"},
                 Inserted(w, kind), kind \in Follows[before.kind]
          PROVE  Goal
      BY <1>0, <3>1, <3>3, <3>6, LogInserts
    <3> QED BY <1>u, <3>1, <3>4, <3>5, <3>6
  <2>3. CASE DeadlineFailed(w)
    <3>1. /\ Executing(w) /\ worker[w].pc = "expire" /\ UNCHANGED outcomes
          /\ UNCHANGED events \/ Inserted(w, "experiment_failed")
      BY <2>3 DEF DeadlineFailed, Persist, Executing, At
    <3>2. \E before \in events[worker[w].exp] :
             before.seq = worker[w].seq /\ before.kind = "limit_reached"
      BY <1>0, <3>1 DEF HoldInv, Holding
    <3> QED BY <1>0, <1>u, <3>1, <3>2, FollowsKinds, LogInserts
  <2>4. CASE IterationRecorded(w)
    <3> DEFINE r == IF worker[w].last = "completed" THEN "completed" ELSE "failed"
    <3>1. /\ worker[w].pc = "record" /\ r \in {"completed", "failed"}
          /\ \/ UNCHANGED <<events, outcomes>>
             \/ /\ Inserted(w, EventOf(r))
                /\ outcomes' = [outcomes EXCEPT ![worker[w].exp][worker[w].pos + 1] = r]
      BY <2>4 DEF IterationRecorded, At, Exp
    <3> HIDE DEF r
    <3> QED BY <1>0, <1>u, <3>1, LogRecords
  <2>5. CASE ~(PlanCreated(w) \/ IterationStarted(w) \/ LimitReached(w) \/ IterationsFailed(w)
                \/ Publish(w) \/ DeadlineFailed(w) \/ IterationRecorded(w))
    <3>1. UNCHANGED <<events, outcomes>>
      BY <1>2, <2>5 DEF WorkerStep, WorkerNext, Prepare, AcquireLock, Reconcile, AdmissionRead,
           AdmissionUpdate, CallReturns, DeadlinePasses, IntegrityFails, FailExecution, Return,
           RequestCancelled, Abandon, rowVars
    <3> QED BY <1>u, <3>1
  <2> QED BY <2>1, <2>2, <2>3, <2>4, <2>5
<1> QED BY <1>1, <1>2, Steps

\* However transactions fail and workers change, a log is contiguous, in an order the
\* plan allows, with no more iterations than planned, and an iteration's outcome row
\* stands exactly with its terminal event.
THEOREM LogsAreLegal == Spec => []EventLogIsLegal
<1>1. Init => LogInv /\ PlanBound
  BY DEF Init, LogInv, Linked, Matched, PlanBound
<1>2. LogInv /\ PlanBound => EventLogIsLegal
  BY DEF LogInv, Linked, Matched, PlanBound, EventLogIsLegal
<1> QED BY <1>1, <1>2, LogStep, PlanStep, CoreCorrect, PTL DEF Spec

-----------------------------------------------------------------------------
(* The operator implements ExperimentLifecycle                              *)

\* Only an admission starts a record, and only a read admits a worker to it.
LEMMA AdmissionOnly ==
    ASSUME TypeOK, HoldInv, [Next]_vars,
           ~ \E w \in Workers : AdmissionRead(w) \/ AdmissionUpdate(w)
    PROVE  /\ \A e \in Experiments : status'[e] = "running" => status[e] = "running"
           /\ \A v \in Workers : worker'[v].pc = "admitting" => worker[v].pc = "admitting"
<1>0. worker \in [Workers -> WorkerRecords] /\ status \in [Experiments -> Statuses]
  BY DEF TypeOK, WorkerRecords
<1>1. CASE CancelNext \/ DropLock \/ UNCHANGED vars
  <2>1. UNCHANGED worker
    BY <1>1, OtherFrame
  <2>2. UNCHANGED status \/ status' = [status EXCEPT ![canceller.exp] = "cancelled"]
    BY <1>1 DEF CancelNext, CancelChecks, CancelReads, CancelUpdates, DropLock, vars, rowVars
  <2> QED BY <1>0, <2>1, <2>2
<1>2. ASSUME NEW w \in Workers, WorkerStep(w)
      PROVE  /\ \A e \in Experiments : status'[e] = "running" => status[e] = "running"
             /\ \A v \in Workers : worker'[v].pc = "admitting" => worker[v].pc = "admitting"
  <2>1. worker'[w].pc # "admitting"
    <3>p. ASSUME NEW kind, NEW next, Persist(w, kind, next), next # "admitting"
          PROVE  worker'[w].pc # "admitting"
      BY <1>0, <3>p DEF Persist, Moves, Raises, Goto, WorkerRecords
    <3>1. CASE PlanCreated(w) \/ IterationStarted(w) \/ LimitReached(w) \/ DeadlineFailed(w)
                \/ IterationsFailed(w)
      BY <3>1, <3>p DEF PlanCreated, IterationStarted, LimitReached, DeadlineFailed, IterationsFailed
    <3>2. CASE IterationRecorded(w)
      BY <1>0, <3>2 DEF IterationRecorded, Raises, Goto, WorkerRecords
    <3>g. ASSUME NEW pc, Goto(w, pc), pc # "admitting" PROVE worker'[w].pc # "admitting"
      BY <1>0, <3>g DEF Goto, WorkerRecords
    <3>3. CASE FailExecution(w) \/ DeadlinePasses(w) \/ IntegrityFails(w) \/ RequestCancelled(w)
                \/ Reconcile(w)
      <4>1. \E pc \in {"done", "failing", "limit", "fail", "admit"} : Goto(w, pc)
        BY <3>3 DEF FailExecution, DeadlinePasses, IntegrityFails, RequestCancelled, Reconcile, Raises
      <4> QED BY <3>g, <4>1
    <3>5. CASE Publish(w)
      <4>1. Goto(w, "failing") \/ Moves(w, "done")
        BY <3>5 DEF Publish, Raises
      <4>2. Moves(w, "done") => worker'[w].pc # "admitting"
        BY <1>0 DEF Moves, WorkerRecords
      <4> QED BY <3>g, <4>1, <4>2
    <3>6. CASE CallReturns(w)
      <4>1. PICK r \in {"completed", "failed", "expired"} :
               worker' = [worker EXCEPT ![w].pc = "record", ![w].last = r]
        BY <3>6 DEF CallReturns
      <4>2. worker'[w].pc = "record"
        BY <1>0, <4>1 DEF WorkerRecords
      <4> QED BY <4>2
    <3>7. CASE AcquireLock(w)
      <4>1. Goto(w, "reconcile") \/ worker' = [worker EXCEPT ![w] = Idle]
        BY <3>7 DEF AcquireLock
      <4> QED BY <1>0, <3>g, <4>1, IdleTypes
    <3>4. CASE Return(w) \/ Abandon(w)
      <4>1. worker' = [worker EXCEPT ![w] = Idle]
        BY <3>4 DEF Return, Abandon
      <4> QED BY <1>0, <4>1, IdleTypes
    <3>8. ASSUME NEW e \in Experiments, Prepare(w, e) PROVE worker'[w].pc # "admitting"
      <4>1. worker'[w] = [Idle EXCEPT !.pc = "lock", !.exp = e]
        BY <1>0, <3>8 DEF Prepare
      <4> QED BY <4>1 DEF Idle
    <3> QED BY <1>2, <3>1, <3>2, <3>3, <3>4, <3>5, <3>6, <3>7, <3>8
          DEF WorkerStep, WorkerNext
  <2>2. \A e \in Experiments : status'[e] = "running" => status[e] = "running"
    <3>1. \/ UNCHANGED status \/ Reconcile(w)
          \/ \E s \in {"completed", "failed"} : status' = [status EXCEPT ![Exp(w)] = s]
      BY <1>2 DEF WorkerStep, WorkerNext, Prepare, AcquireLock, PlanCreated, IterationStarted,
           CallReturns, IterationRecorded, DeadlinePasses, LimitReached, DeadlineFailed,
           IterationsFailed, IntegrityFails, Publish, FailExecution, Return, RequestCancelled,
           Abandon, Persist, rowVars
    <3> QED BY <1>0, <3>1 DEF Reconcile
  <2> QED BY <1>2, <2>1, <2>2, WorkerFrame
<1> QED BY <1>1, <1>2, Steps

LEMMA AdmissionStep == TypeOK /\ HoldInv /\ AdmissionInv /\ [Next]_vars => AdmissionInv'
<1> SUFFICES ASSUME TypeOK, HoldInv, AdmissionInv, [Next]_vars PROVE AdmissionInv'
  OBVIOUS
<1>0. worker \in [Workers -> WorkerRecords] /\ status \in [Experiments -> Statuses]
  BY DEF TypeOK, WorkerRecords
<1>1. CASE ~ \E w \in Workers : AdmissionRead(w) \/ AdmissionUpdate(w)
  <2>1. /\ \A e \in Experiments : status'[e] = "running" => status[e] = "running"
        /\ \A v \in Workers : worker'[v].pc = "admitting" => worker[v].pc = "admitting"
    BY <1>1, AdmissionOnly
  <2>2. \A e \in Experiments : status[e] # "running" => status'[e] # "running"
    BY <2>1
  <2> QED BY <2>1, <2>2 DEF AdmissionInv, At
<1>2. ASSUME NEW w \in Workers, AdmissionRead(w) PROVE AdmissionInv'
  <2>1. /\ \A v \in Workers : worker[v].pc # "admitting"
        /\ \A v \in Workers \ {w} : worker'[v] = worker[v]
        /\ status' = status
        /\ \/ worker'[w].pc = "failing"
           \/ \A e \in Experiments : status[e] # "running"
    BY <1>0, <1>2 DEF AdmissionRead, Goto, At, rowVars, WorkerRecords
  <2> QED BY <2>1 DEF AdmissionInv, At
<1>3. ASSUME NEW w \in Workers, AdmissionUpdate(w) PROVE AdmissionInv'
  <2>1. /\ worker[w].pc = "admitting" /\ worker'[w].pc # "admitting"
        /\ \A v \in Workers \ {w} : worker'[v] = worker[v]
    BY <1>0, <1>3 DEF AdmissionUpdate, Goto, At, WorkerRecords
  <2>2. \A v \in Workers : worker'[v].pc # "admitting"
    BY <2>1 DEF AdmissionInv, At
  <2>3. status' = status \/ status' = [status EXCEPT ![Exp(w)] = "running"]
    BY <1>3 DEF AdmissionUpdate
  <2>4. \A e \in Experiments : status[e] # "running"
    BY <2>1 DEF AdmissionInv, At
  <2>5. \A d, e \in Experiments : status'[d] = "running" /\ status'[e] = "running" => d = e
    BY <1>0, <2>3, <2>4
  <2> QED BY <2>2, <2>5 DEF AdmissionInv, At
<1> QED BY <1>1, <1>2, <1>3

\* One more event of a running experiment is an Advance.
LEMMA InsertAdvances ==
    ASSUME TypeOK, FiniteInv, HoldInv, NEW w \in Workers, Executing(w), Fits(w),
           NEW kind, Inserted(w, kind), UNCHANGED <<status, results>>
    PROVE  Lifecycle!LifecycleNext
<1> DEFINE e == worker[w].exp  n == worker[w].seq  L == events[e]
           new == [seq |-> n + 1, kind |-> kind]
           progress == [x \in Experiments |-> Cardinality(events[x])]
<1>1. e \in Experiments /\ Holding(w) /\ status[e] = "running" /\ worker[w].pos \in 0 .. Planned
  BY DEF HoldInv, Poised, Executing, Fits, Owns, Exp, TypeOK
<1>2. /\ IsFiniteSet(L) /\ L \subseteq EventRecords /\ n \in Nat /\ Cardinality(L) = n
      /\ \A ev \in L : ev.seq <= n
  BY <1>1 DEF FiniteInv, TypeOK, EventRecords, Holding
<1>3. n < 2 * Planned + 3
  <2>1. \/ n = 0 \/ n = 2 * worker[w].pos + 1 \/ n = 2 * worker[w].pos + 2
    BY <1>1 DEF Holding, Executing
  <2>2. worker[w].pos \in Int /\ worker[w].pos <= Planned /\ Planned \in Nat
    BY <1>1 DEF OperatorAssumption
  <2> QED BY <2>1, <2>2
<1>4. /\ \A x \in Experiments : x # e => events'[x] = events[x]
      /\ events'[e] = L \cup {new} /\ new = [seq |-> n + 1, kind |-> kind]
  BY <1>1 DEF Inserted, Exp, TypeOK
<1>5. Cardinality(events'[e]) = Cardinality(L) + 1
  <2> HIDE DEF L, new, n, e
  <2> QED BY <1>2, <1>4, LogGrows
<1>6. progress' = [progress EXCEPT ![e] = @ + 1]
  BY <1>1, <1>4, <1>5
<1>7. progress[e] < 2 * Planned + 3
  BY <1>1, <1>2, <1>3
<1> QED BY <1>1, <1>6, <1>7 DEF Lifecycle!LifecycleNext, Lifecycle!Advance

LEMMA LifecycleStep ==
    CoreInv /\ AdmissionInv /\ [Next]_vars => [Lifecycle!LifecycleNext]_(Lifecycle!jobVars)
<1> SUFFICES ASSUME CoreInv, AdmissionInv, [Next]_vars
             PROVE  Lifecycle!LifecycleNext \/ UNCHANGED Lifecycle!jobVars
  OBVIOUS
<1> DEFINE Goal == Lifecycle!LifecycleNext \/ UNCHANGED Lifecycle!jobVars
<1>0. /\ TypeOK /\ FiniteInv /\ HoldInv /\ AdmissionInv
      /\ worker \in [Workers -> WorkerRecords] /\ status \in [Experiments -> Statuses]
  BY DEF CoreInv, TypeOK, WorkerRecords
<1>u. ASSUME UNCHANGED <<status, events, results>> PROVE Goal
  BY <1>u DEF Lifecycle!jobVars
<1>f. ASSUME NEW e \in Experiments, status[e] = "running", status' = [status EXCEPT ![e] = "failed"],
             UNCHANGED <<events, results>>
      PROVE  Goal
  BY <1>f DEF Lifecycle!LifecycleNext, Lifecycle!Fail
<1>1. CASE CancelNext \/ DropLock \/ UNCHANGED vars
  <2>1. UNCHANGED <<events, results>>
    BY <1>0, <1>1, OtherFrame
  <2>2. CASE UNCHANGED status
    BY <1>u, <2>1, <2>2
  <2>3. CASE ~ UNCHANGED status
    <3>1. /\ status[canceller.exp] = "pending"
          /\ status' = [status EXCEPT ![canceller.exp] = "cancelled"]
      BY <1>1, <2>3 DEF CancelNext, CancelChecks, CancelReads, CancelUpdates, DropLock, vars, rowVars
    <3>2. canceller.exp \in Experiments
      BY <1>0, <2>3, <3>1
    <3> QED BY <2>1, <3>1, <3>2 DEF Lifecycle!LifecycleNext, Lifecycle!Withdraw
  <2> QED BY <2>2, <2>3
<1>2. ASSUME NEW w \in Workers, WorkerStep(w) PROVE Goal
  <2>p. ASSUME NEW kind, NEW next, Persist(w, kind, next), Executing(w) PROVE Goal
    <3>1. UNCHANGED events \/ (Fits(w) /\ Inserted(w, kind))
      BY <2>p DEF Persist
    <3>2. UNCHANGED <<status, results>>
      BY <2>p DEF Persist
    <3> QED BY <1>0, <1>u, <2>p, <3>1, <3>2, InsertAdvances
  <2>1. CASE Reconcile(w)
    <3>1. /\ status' = [e \in Experiments |-> IF status[e] = "running" THEN "failed" ELSE status[e]]
          /\ UNCHANGED <<events, results>>
      BY <2>1 DEF Reconcile
    <3>2. CASE \A e \in Experiments : status[e] # "running"
      <4>1. status' = status
        BY <1>0, <3>1, <3>2
      <4> QED BY <1>u, <3>1, <4>1
    <3>3. ASSUME NEW e \in Experiments, status[e] = "running" PROVE Goal
      <4>1. \A d \in Experiments : status[d] = "running" => d = e
        BY <1>0, <3>3 DEF AdmissionInv
      <4>2. status' = [status EXCEPT ![e] = "failed"]
        BY <1>0, <3>1, <3>3, <4>1
      <4> QED BY <1>f, <3>1, <3>3, <4>2
    <3> QED BY <3>2, <3>3
  <2>2. CASE AdmissionUpdate(w)
    <3> DEFINE e == worker[w].exp
    <3>1. /\ UNCHANGED <<events, results>> /\ worker[w].pc = "admitting"
          /\ status' = status \/ (status[e] = "pending" /\ status' = [status EXCEPT ![e] = "running"])
      BY <2>2 DEF AdmissionUpdate, At, Exp
    <3>2. e \in Experiments /\ \A x \in Experiments : status[x] # "running"
      BY <1>0, <3>1 DEF HoldInv, Poised, AdmissionInv, At
    <3>3. Lifecycle!Running = {}
      BY <3>2 DEF Lifecycle!Running
    <3> HIDE DEF e
    <3> QED BY <1>u, <3>1, <3>2, <3>3 DEF Lifecycle!LifecycleNext, Lifecycle!Begin
  <2>3. CASE PlanCreated(w) \/ IterationStarted(w) \/ LimitReached(w) \/ DeadlineFailed(w)
              \/ IterationsFailed(w)
    BY <2>3, <2>p DEF PlanCreated, IterationStarted, LimitReached, DeadlineFailed, IterationsFailed,
         Executing, At
  <2>4. CASE IterationRecorded(w)
    <3>1. UNCHANGED <<status, results>> /\ Executing(w)
      BY <2>4 DEF IterationRecorded, Executing, At
    <3>2. UNCHANGED events \/ \E kind \in {"iteration_completed", "iteration_failed"} :
                                  Fits(w) /\ Inserted(w, kind)
      BY <2>4 DEF IterationRecorded, EventOf
    <3> QED BY <1>0, <1>u, <3>1, <3>2, InsertAdvances
  <2>5. CASE Publish(w)
    <3>1. CASE UNCHANGED <<events, results, status>>
      BY <1>u, <3>1
    <3>2. CASE ~ UNCHANGED <<events, results, status>>
      <4> DEFINE e == worker[w].exp  n == worker[w].seq  L == events[e]
                 new == [seq |-> n + 1, kind |-> "experiment_completed"]
                 progress == [x \in Experiments |-> Cardinality(events[x])]
      <4>1. /\ Fits(w) /\ Inserted(w, "experiment_completed") /\ results' = results \cup {e}
            /\ status' = [status EXCEPT ![e] = "completed"]
            /\ worker[w].pc = "next" /\ worker[w].pos = Planned
        BY <2>5, <3>2 DEF Publish, At, Exp
      <4>2. e \in Experiments /\ Holding(w) /\ status[e] = "running"
        BY <1>0, <4>1 DEF HoldInv, Poised, Executing, Fits, Owns, Exp
      <4>3. /\ IsFiniteSet(L) /\ L \subseteq EventRecords /\ n \in Nat /\ Cardinality(L) = n
            /\ n = 2 * Planned + 1 /\ \A ev \in L : ev.seq <= n
        BY <1>0, <4>1, <4>2 DEF FiniteInv, TypeOK, EventRecords, WorkerRecords, Holding
      <4>4. /\ \A x \in Experiments : x # e => events'[x] = events[x]
            /\ events'[e] = L \cup {new} /\ new = [seq |-> n + 1, kind |-> "experiment_completed"]
        BY <1>0, <4>1, <4>2 DEF Inserted, Exp, TypeOK
      <4>5. Cardinality(events'[e]) = Cardinality(L) + 1
        <5> HIDE DEF L, new, n, e
        <5> QED BY <4>3, <4>4, LogGrows
      <4>6. progress' = [progress EXCEPT ![e] = @ + 1] /\ progress[e] = 2 * Planned + 1
        BY <4>2, <4>3, <4>4, <4>5
      <4> QED BY <4>1, <4>2, <4>6 DEF Lifecycle!LifecycleNext, Lifecycle!Complete
    <3> QED BY <3>1, <3>2
  <2>6. CASE FailExecution(w)
    <3>1. /\ UNCHANGED <<events, results>> /\ worker[w].pc # "idle"
          /\ \/ status' = status
             \/ status[Exp(w)] = "running" /\ status' = [status EXCEPT ![Exp(w)] = "failed"]
      BY <2>6 DEF FailExecution, Owns
    <3>2. Exp(w) \in Experiments
      BY <1>0, <3>1 DEF HoldInv, Poised, Exp
    <3> QED BY <1>f, <1>u, <3>1, <3>2
  <2>7. CASE ~(Reconcile(w) \/ AdmissionUpdate(w) \/ PlanCreated(w) \/ IterationStarted(w)
                \/ LimitReached(w) \/ DeadlineFailed(w) \/ IterationsFailed(w)
                \/ IterationRecorded(w) \/ Publish(w) \/ FailExecution(w))
    <3>1. UNCHANGED <<status, events, results>>
      BY <1>2, <2>7 DEF WorkerStep, WorkerNext, Prepare, AcquireLock, AdmissionRead, CallReturns,
           DeadlinePasses, IntegrityFails, Return, RequestCancelled, Abandon, rowVars
    <3> QED BY <1>u, <3>1
  <2> QED BY <2>1, <2>2, <2>3, <2>4, <2>5, <2>6, <2>7
<1> QED BY <1>0, <1>1, <1>2, Steps

\* The whole machinery of locks, transactions and failures implements the promise that a
\* record is withdrawn or runs once, alone, and appears completed with its whole log and
\* result at one instant.
THEOREM OperatorFollowsLifecycle == Spec => FollowsLifecycle
<1>1. Init => Lifecycle!LifecycleInit
  BY FS_EmptySet DEF Init, Lifecycle!LifecycleInit
<1>2. Init => AdmissionInv
  BY DEF Init, AdmissionInv, At, Idle
<1>3. CoreInv /\ AdmissionInv /\ [Next]_vars => AdmissionInv'
  BY AdmissionStep DEF CoreInv
<1> QED
  BY <1>1, <1>2, <1>3, LifecycleStep, CoreCorrect, PTL DEF Spec, FollowsLifecycle, Lifecycle!LifecycleSpec

=============================================================================
