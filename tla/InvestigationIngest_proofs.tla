------------------------ MODULE InvestigationIngest_proofs ------------------------
(***************************************************************************)
(* What the control plane promises the bridge, for any number of handlers, *)
(* events, retries and aborts: its types, the evidence behind a completed  *)
(* investigation, the finality of a settled record, and that what it has   *)
(* answered for is lost by nothing but a failing commit.                   *)
(***************************************************************************)
EXTENDS InvestigationIngest, TLAPS

\* Nothing but the log grows: what a type is built over stays valid.
LEMMA LogGrows ==
    ASSUME NEW l \in Seq(EventTypes), NEW e \in EventTypes
    PROVE  /\ Append(l, e) \in Seq(EventTypes)
           /\ Len(Append(l, e)) = Len(l) + 1
           /\ DOMAIN l \subseteq DOMAIN Append(l, e)
           /\ \A s \in DOMAIN l : Append(l, e)[s] = l[s]
  OBVIOUS

-----------------------------------------------------------------------------
(* Type correctness.  TypeOK is not inductive: Commit makes `events` of     *)
(* what a transaction holds, so its batch must lie within the log too.      *)

BatchesLogged ==
    \A t \in Txns : /\ txn[t].batch \subseteq DOMAIN log
                    /\ txn[t].ins \subseteq DOMAIN log

TypeInv == TypeOK /\ BatchesLogged

LEMMA TypeInit == Init => TypeInv
  <1> SUFFICES ASSUME Init PROVE TypeInv
    OBVIOUS
  <1>1. Idle \in TxnRecords /\ [Idle EXCEPT !.stage = "launch"] \in TxnRecords
    BY DEF Idle, TxnRecords, Stages, None
  <1>2. txn \in [Txns -> TxnRecords]
    BY <1>1 DEF Init, InitControlPlane
  <1>3. log \in Seq(EventTypes) /\ Len(log) = 0
    BY DEF Init
  <1>4. /\ status \in Statuses \cup {None}
        /\ silent \in BOOLEAN /\ summary \in BOOLEAN /\ launched \in BOOLEAN
        /\ events \subseteq DOMAIN log /\ ignored \subseteq DOMAIN log
        /\ lost \subseteq DOMAIN log
        /\ http \in [Requests -> {"free", "open", "ok", "error"}]
        /\ posting \in Requests \cup {None}
    BY DEF Init, InitControlPlane
  <1>5. acked \in Nat /\ window \in Nat /\ acked + window <= Len(log)
    BY <1>3 DEF Init
  <1>6. BatchesLogged
    BY DEF Init, InitControlPlane, BatchesLogged, Idle
  <1> QED
    BY <1>2, <1>3, <1>4, <1>5, <1>6 DEF TypeInv, TypeOK

\* A server step leaves the bridge alone, types what it writes, and puts into a
\* transaction nothing but numbers of its batch.
LEMMA TypeServerStep ==
    ASSUME TypeInv, NEW r \in Requests, ServerStep(r), UNCHANGED bridgeVars
    PROVE  TypeInv'
  <1> USE DEF bridgeVars, recordVars, historyVars
  <1>0. r \in Txns /\ Idle \in TxnRecords
    BY DEF Txns, Idle, TxnRecords, Stages, None
  <1>1. \A code : code \in {"ok", "error"} /\ Answer(r, code) =>
            http' \in [Requests -> {"free", "open", "ok", "error"}]
    BY DEF Answer, TypeInv, TypeOK
  <1>2. CASE Fail(r) /\ UNCHANGED bridgeVars
    BY <1>0, <1>1, <1>2 DEF Fail, TypeInv, TypeOK, BatchesLogged, Idle
  <1>3. CASE AcceptOpen(r)
    BY <1>0, <1>3 DEF AcceptOpen, TypeInv, TypeOK, BatchesLogged, TxnRecords, Stages
  <1>4. CASE AcceptClosing(r)
    BY <1>0, <1>4 DEF AcceptClosing, TypeInv, TypeOK, BatchesLogged, TxnRecords, Stages
  <1>5. CASE IgnoreTerminal(r)
    BY <1>0, <1>1, <1>5
    DEF IgnoreTerminal, TypeInv, TypeOK, BatchesLogged, TxnRecords, Stages
  <1>6. CASE PromoteToRunning(r)
    BY <1>0, <1>6
    DEF PromoteToRunning, TypeInv, TypeOK, BatchesLogged, TxnRecords, Stages, Statuses
  <1>7. CASE InsertEvents(r)
    BY <1>0, <1>7
    DEF InsertEvents, TypeInv, TypeOK, BatchesLogged, TxnRecords, Stages
  <1>8. CASE InsertClosing(r)
    BY <1>0, <1>1, <1>8
    DEF InsertClosing, TypeInv, TypeOK, BatchesLogged, TxnRecords, Stages
  <1>9. CASE ProjectBatch(r)
    BY <1>0, <1>1, <1>9
    DEF ProjectBatch, Verdict, TypeInv, TypeOK, BatchesLogged, TxnRecords, Stages,
        Statuses, Terminal, None
  <1>10. CASE UpdateRecord(r)
    BY <1>0, <1>1, <1>10
    DEF UpdateRecord, TypeInv, TypeOK, BatchesLogged, TxnRecords, Stages
  <1> QED
    BY <1>2, <1>3, <1>4, <1>5, <1>6, <1>7, <1>8, <1>9, <1>10
    DEF ServerStep, RejectToken, RejectSecondSummary, AbortRequest

LEMMA TypeControlPlane ==
    ASSUME TypeInv, ControlPlaneNext, UNCHANGED bridgeVars
    PROVE  TypeInv'
  <1> USE DEF bridgeVars, recordVars, historyVars
  <1>0. Idle \in TxnRecords /\ Starter \in Txns /\ Sweeper \in Txns
    BY DEF Txns, Idle, TxnRecords, Stages, None
  <1>1. CASE LaunchSandbox \/ LaunchFails
    <2>1. PICK target \in {"pending", "failed"} :
              txn' = [txn EXCEPT ![Starter].stage = "committing",
                                 ![Starter].target = target]
      BY <1>1 DEF LaunchSandbox, LaunchFails
    <2>2. txn' \in [Txns -> TxnRecords] /\ BatchesLogged'
      BY <1>0, <2>1
      DEF TypeInv, TypeOK, BatchesLogged, TxnRecords, Stages, Statuses, Terminal
    <2> QED
      BY <1>1, <2>2 DEF LaunchSandbox, LaunchFails, TypeInv, TypeOK
  <1>2. CASE SelectStale
    BY <1>0, <1>2
    DEF SelectStale, TypeInv, TypeOK, BatchesLogged, TxnRecords, Stages, Statuses, Terminal
  <1>3. CASE FallSilent
    BY <1>3 DEF FallSilent, TypeInv, TypeOK, BatchesLogged
  <1>4. CASE UpdateRecord(Sweeper)
    <2>1. http' = http
      BY <1>4, TxnAssumption DEF UpdateRecord, Answer, TypeInv, TypeOK
    <2> QED
      BY <1>0, <1>4, <2>1
      DEF UpdateRecord, TypeInv, TypeOK, BatchesLogged, TxnRecords, Stages
  <1>5. ASSUME NEW t \in Txns, Commit(t) \/ CommitFails(t) PROVE TypeInv'
    <2>1. /\ txn' \in [Txns -> TxnRecords]
          /\ txn' = [txn EXCEPT ![t] = Idle]
      BY <1>0, <1>5 DEF Commit, CommitFails, TypeInv, TypeOK
    <2>2. BatchesLogged'
      BY <2>1 DEF BatchesLogged, Idle, TypeInv, TypeOK
    <2>3. events' \cup lost' \subseteq DOMAIN log /\ status' \in Statuses \cup {None}
      BY <1>5 DEF Commit, CommitFails, TypeInv, TypeOK, BatchesLogged, TxnRecords
    <2>4. silent' \in BOOLEAN /\ summary' \in BOOLEAN
      BY <1>5 DEF Commit, CommitFails, TypeInv, TypeOK, TxnRecords
    <2> QED
      BY <1>5, <2>1, <2>2, <2>3, <2>4 DEF Commit, CommitFails, TypeInv, TypeOK
  <1> QED
    BY <1>1, <1>2, <1>3, <1>4, <1>5, TypeServerStep DEF ControlPlaneNext

LEMMA TypeBridge ==
    ASSUME TypeInv,
           \/ \E type \in EventTypes : RecordEvent(type)
           \/ \E r \in Requests, n \in 1 .. MaxEvents : FlushPost(r, n)
           \/ FlushSucceeds \/ FlushFails
    PROVE  TypeInv'
  <1> USE DEF TypeInv, recordVars, historyVars, cpVars
  <1>1. ASSUME NEW type \in EventTypes, RecordEvent(type) PROVE TypeInv'
    <2>1. /\ log' \in Seq(EventTypes) /\ Len(log') = Len(log) + 1
          /\ DOMAIN log \subseteq DOMAIN log'
      BY <1>1, LogGrows DEF RecordEvent, TypeOK
    <2>2. BatchesLogged'
      BY <1>1, <2>1 DEF RecordEvent, BatchesLogged
    <2> QED
      BY <1>1, <2>1, <2>2 DEF RecordEvent, TypeOK
  <1>2. ASSUME NEW r \in Requests, NEW n \in 1 .. MaxEvents, FlushPost(r, n)
        PROVE  TypeInv'
    <2>1. r \in Txns /\ (acked + 1 .. acked + n) \subseteq DOMAIN log
      BY <1>2 DEF FlushPost, TypeOK, Txns
    <2>2. txn' \in [Txns -> TxnRecords] /\ BatchesLogged'
      <3> DEFINE sent == acked + 1 .. acked + n
                 opened == [txn[r] EXCEPT !.stage = "received", !.batch = sent]
      <3>1. txn' = [txn EXCEPT ![r] = opened]
        BY <1>2, <2>1 DEF FlushPost, Receive, TypeOK
      <3>2. sent \in SUBSET Nat /\ sent \subseteq DOMAIN log
        BY <2>1 DEF TypeOK
      <3> HIDE DEF sent
      <3>3. txn' \in [Txns -> TxnRecords]
        <4>1. opened \in TxnRecords
          BY <2>1, <3>2 DEF TypeOK, TxnRecords, Stages
        <4> QED
          BY <2>1, <3>1, <4>1 DEF TypeOK
      <3>4. BatchesLogged'
        <4>1. log' = log
          BY <1>2 DEF FlushPost
        <4>2. \A t \in Txns : /\ txn'[t].batch \in {txn[t].batch, sent}
                              /\ txn'[t].ins = txn[t].ins
          BY <2>1, <3>1 DEF TypeOK, TxnRecords
        <4> QED
          BY <3>2, <4>1, <4>2 DEF BatchesLogged
      <3> QED
        BY <3>3, <3>4
    <2>3. n \in Nat /\ acked + n <= Len(log)
      BY <1>2, MaxEventsAssumption DEF FlushPost, TypeOK
    <2> QED
      BY <1>2, <2>2, <2>3 DEF FlushPost, Receive, TypeOK
  <1>3. CASE FlushSucceeds
    BY <1>3 DEF FlushSucceeds, TypeOK, BatchesLogged
  <1>4. CASE FlushFails
    BY <1>4 DEF FlushFails, TypeOK, BatchesLogged
  <1> QED
    BY <1>1, <1>2, <1>3, <1>4

LEMMA TypeStutter == TypeInv /\ UNCHANGED vars => TypeInv'
  BY DEF vars, cpVars, recordVars, historyVars, bridgeVars, TypeInv, TypeOK, BatchesLogged

LEMMA TypeNext == TypeInv /\ [Next]_vars => TypeInv'
  BY TypeControlPlane, TypeBridge, TypeStutter DEF Next

\* The modules' state variables stay in their types: in particular the bridge
\* never evicts more events than it has recorded (flush_events).
THEOREM TypeCorrect == Spec => []TypeOK
  <1>1. TypeInv => TypeOK
    BY DEF TypeInv
  <1> QED
    BY TypeInit, TypeNext, <1>1, PTL DEF Spec

-----------------------------------------------------------------------------
(* The evidence behind a completion.  A transaction carries its verdict from  *)
(* ProjectBatch to Commit: it must hold, until then, the events and the       *)
(* summary the verdict was passed on.                                         *)

HoldsItsBatch(t) == txn[t].batch \subseteq events \cup txn[t].ins

HoldsEvidence(t) ==
    /\ txn[t].stage \in {"update", "committing"}
    /\ summary \/ txn[t].sum
    /\ HoldsItsBatch(t)
    /\ \E s \in txn[t].batch : log[s] = "finished"

EvidenceInv ==
    /\ CompletedHasEvidence
    /\ \A t \in Txns : /\ txn[t].stage = "project" => HoldsItsBatch(t)
                       /\ txn[t].target = "completed" => HoldsEvidence(t)

LEMMA EvidenceInit == Init => EvidenceInv
  BY DEF Init, InitControlPlane, EvidenceInv, CompletedHasEvidence, HoldsItsBatch,
         HoldsEvidence, Idle, None

\* A step that leaves the committed state alone and changes one transaction
\* keeps the invariant if the changed transaction satisfies its part.
LEMMA EvidenceOneTxn ==
    ASSUME TypeInv, EvidenceInv, NEW t \in Txns,
           UNCHANGED <<status, events, summary, log>>,
           \A u \in Txns \ {t} : txn'[u] = txn[u],
           (txn[t].stage = "project" => HoldsItsBatch(t))',
           (txn[t].target = "completed" => HoldsEvidence(t))'
    PROVE  EvidenceInv'
  BY DEF EvidenceInv, CompletedHasEvidence, HoldsItsBatch, HoldsEvidence

LEMMA EvidenceServerStep ==
    ASSUME TypeInv, EvidenceInv, NEW r \in Requests, ServerStep(r),
           UNCHANGED bridgeVars
    PROVE  EvidenceInv'
  <1> USE DEF bridgeVars, recordVars, historyVars
  <1>0. r \in Txns
    BY DEF Txns
  <1> DEFINE Part == /\ (txn[r].stage = "project" => HoldsItsBatch(r))'
                     /\ (txn[r].target = "completed" => HoldsEvidence(r))'
                     /\ \A u \in Txns \ {r} : txn'[u] = txn[u]
                     /\ UNCHANGED <<status, events, summary>>
  <1>2. CASE Fail(r) /\ UNCHANGED bridgeVars
    <2>1. Part
      BY <1>0, <1>2 DEF Fail, TypeInv, TypeOK, Idle, None
    <2> QED
      BY <1>0, <2>1, EvidenceOneTxn
  <1>3. CASE AcceptOpen(r) \/ AcceptClosing(r) \/ IgnoreTerminal(r) \/ PromoteToRunning(r)
    <2>1. txn[r].stage \in {"received", "promote"}
      BY <1>3 DEF AcceptOpen, AcceptClosing, IgnoreTerminal, PromoteToRunning
    <2>2. txn[r].target # "completed"
      BY <1>0, <2>1 DEF EvidenceInv, HoldsEvidence
    <2>3. /\ txn'[r].stage # "project" /\ txn'[r].target # "completed"
          /\ \A u \in Txns \ {r} : txn'[u] = txn[u]
          /\ UNCHANGED <<status, events, summary>>
      BY <1>0, <1>3, <2>2
      DEF AcceptOpen, AcceptClosing, IgnoreTerminal, PromoteToRunning, TypeInv, TypeOK,
          TxnRecords
    <2> QED
      BY <1>0, <2>3, EvidenceOneTxn
  <1>4. CASE InsertEvents(r) \/ InsertClosing(r)
    <2>1. txn[r].stage \in {"insert", "close"}
      BY <1>4 DEF InsertEvents, InsertClosing
    <2>2. txn[r].target # "completed"
      BY <1>0, <2>1 DEF EvidenceInv, HoldsEvidence
    <2>3. /\ txn'[r].target = txn[r].target /\ txn'[r].batch = txn[r].batch
          /\ txn'[r].ins = txn[r].batch \ events
          /\ \A u \in Txns \ {r} : txn'[u] = txn[u]
          /\ UNCHANGED <<status, events, summary>>
      BY <1>0, <1>4 DEF InsertEvents, InsertClosing, TypeInv, TypeOK, TxnRecords
    <2>4. HoldsItsBatch(r)'
      BY <2>3 DEF HoldsItsBatch
    <2> QED
      BY <1>0, <2>2, <2>3, <2>4, EvidenceOneTxn
  <1>5. CASE ProjectBatch(r)
    <2> DEFINE types == TypesIn(txn[r].batch)
               verdict == Verdict(types, summary \/ "summary" \in types)
    <2>1. txn[r].target # "completed" /\ HoldsItsBatch(r)
      BY <1>0, <1>5 DEF ProjectBatch, EvidenceInv, HoldsEvidence
    <2>2. /\ txn'[r].stage \in {"update", "committing"}
          /\ txn'[r].batch = txn[r].batch /\ txn'[r].ins = txn[r].ins
          /\ txn'[r].sum = ("summary" \in types)
          /\ txn'[r].target = IF verdict = None THEN txn[r].target ELSE verdict
          /\ \A u \in Txns \ {r} : txn'[u] = txn[u]
          /\ UNCHANGED <<status, events, summary>>
      BY <1>0, <1>5 DEF ProjectBatch, TypeInv, TypeOK, TxnRecords
    <2>3. verdict = "completed" =>
              "finished" \in types /\ (summary \/ "summary" \in types)
      BY DEF Verdict, None
    <2>4. "finished" \in types => \E s \in txn[r].batch : log[s] = "finished"
      BY DEF TypesIn
    <2> HIDE DEF types, verdict
    <2>5. txn'[r].target = "completed" => HoldsEvidence(r)'
      BY <2>1, <2>2, <2>3, <2>4 DEF HoldsEvidence, HoldsItsBatch
    <2>6. txn'[r].stage # "project"
      BY <2>2
    <2> QED
      BY <1>0, <2>2, <2>5, <2>6, EvidenceOneTxn
  <1>6. CASE UpdateRecord(r)
    <2>1. /\ txn[r].stage = "update" /\ txn'[r].stage = "committing"
          /\ txn'[r].batch = txn[r].batch /\ txn'[r].ins = txn[r].ins
          /\ txn'[r].sum = txn[r].sum /\ txn'[r].target = txn[r].target
          /\ \A u \in Txns \ {r} : txn'[u] = txn[u]
          /\ UNCHANGED <<status, events, summary>>
      BY <1>0, <1>6 DEF UpdateRecord, TypeInv, TypeOK, TxnRecords
    <2>2. Part
      BY <1>0, <2>1 DEF EvidenceInv, HoldsEvidence, HoldsItsBatch
    <2> QED
      BY <1>0, <2>2, EvidenceOneTxn
  <1> QED
    BY <1>2, <1>3, <1>4, <1>5, <1>6
    DEF ServerStep, RejectToken, RejectSecondSummary, AbortRequest

LEMMA EvidenceControlPlane ==
    ASSUME TypeInv, EvidenceInv, ControlPlaneNext, UNCHANGED bridgeVars
    PROVE  EvidenceInv'
  <1> USE DEF bridgeVars, recordVars, historyVars
  <1>0. Starter \in Txns /\ Sweeper \in Txns
    BY DEF Txns
  <1>1. CASE LaunchSandbox \/ LaunchFails
    <2>1. /\ txn'[Starter].stage = "committing" /\ txn'[Starter].target # "completed"
          /\ \A u \in Txns \ {Starter} : txn'[u] = txn[u]
          /\ UNCHANGED <<status, events, summary>>
      BY <1>0, <1>1 DEF LaunchSandbox, LaunchFails, TypeInv, TypeOK, TxnRecords
    <2> QED
      BY <1>0, <2>1, EvidenceOneTxn
  <1>2. CASE SelectStale
    <2>1. /\ txn'[Sweeper].stage = "update" /\ txn'[Sweeper].target # "completed"
          /\ \A u \in Txns \ {Sweeper} : txn'[u] = txn[u]
          /\ UNCHANGED <<status, events, summary>>
      BY <1>0, <1>2 DEF SelectStale, TypeInv, TypeOK, TxnRecords
    <2> QED
      BY <1>0, <2>1, EvidenceOneTxn
  <1>3. CASE FallSilent
    BY <1>3 DEF FallSilent, EvidenceInv, CompletedHasEvidence, HoldsItsBatch, HoldsEvidence
  <1>4. CASE UpdateRecord(Sweeper)
    <2>1. /\ txn[Sweeper].stage = "update" /\ txn'[Sweeper].stage = "committing"
          /\ txn'[Sweeper].batch = txn[Sweeper].batch
          /\ txn'[Sweeper].ins = txn[Sweeper].ins
          /\ txn'[Sweeper].sum = txn[Sweeper].sum
          /\ txn'[Sweeper].target = txn[Sweeper].target
          /\ \A u \in Txns \ {Sweeper} : txn'[u] = txn[u]
          /\ UNCHANGED <<status, events, summary>>
      BY <1>0, <1>4 DEF UpdateRecord, TypeInv, TypeOK, TxnRecords
    <2>2. (txn[Sweeper].target = "completed" => HoldsEvidence(Sweeper))'
      BY <1>0, <2>1 DEF EvidenceInv, HoldsEvidence, HoldsItsBatch
    <2> QED
      BY <1>0, <2>1, <2>2, EvidenceOneTxn
  <1>5. ASSUME NEW t \in Txns, Commit(t) PROVE EvidenceInv'
    <2>1. /\ events \subseteq events' /\ txn[t].ins \subseteq events'
          /\ summary => summary'
          /\ txn[t].sum => summary'
      BY <1>5 DEF Commit, TypeInv, TypeOK, TxnRecords
    <2>2. /\ \A u \in Txns \ {t} : txn'[u] = txn[u]
          /\ txn'[t].stage # "project" /\ txn'[t].target # "completed"
      BY <1>5 DEF Commit, TypeInv, TypeOK, Idle, None
    <2>3. status' = "completed" => status = "completed" \/ txn[t].target = "completed"
      BY <1>5 DEF Commit
    <2>4. CompletedHasEvidence'
      BY <2>1, <2>3 DEF EvidenceInv, CompletedHasEvidence, HoldsEvidence, HoldsItsBatch
    <2> QED
      BY <2>1, <2>2, <2>4 DEF EvidenceInv, HoldsEvidence, HoldsItsBatch
  <1>6. ASSUME NEW t \in Txns, CommitFails(t) PROVE EvidenceInv'
    <2>1. /\ \A u \in Txns \ {t} : txn'[u] = txn[u]
          /\ txn'[t].stage # "project" /\ txn'[t].target # "completed"
          /\ UNCHANGED <<status, events, summary>>
      BY <1>6 DEF CommitFails, TypeInv, TypeOK, Idle, None
    <2> QED
      BY <2>1, EvidenceOneTxn
  <1> QED
    BY <1>1, <1>2, <1>3, <1>4, <1>5, <1>6, EvidenceServerStep DEF ControlPlaneNext

\* The bridge and the database share nothing here but the log, which only grows.
LEMMA EvidenceBridge ==
    ASSUME TypeInv, EvidenceInv,
           \/ \E type \in EventTypes : RecordEvent(type)
           \/ \E r \in Requests, n \in 1 .. MaxEvents : FlushPost(r, n)
           \/ FlushSucceeds \/ FlushFails
    PROVE  EvidenceInv'
  <1> USE DEF recordVars, historyVars, cpVars
  <1>1. ASSUME NEW type \in EventTypes, RecordEvent(type) PROVE EvidenceInv'
    <2>1. /\ \A s \in DOMAIN log : log'[s] = log[s]
          /\ UNCHANGED <<status, events, summary, txn>>
      BY <1>1, LogGrows DEF RecordEvent, TypeInv, TypeOK
    <2>2. CompletedHasEvidence'
      BY <2>1 DEF EvidenceInv, CompletedHasEvidence, TypeInv, TypeOK
    <2>3. \A t \in Txns : HoldsEvidence(t) => HoldsEvidence(t)'
      BY <2>1 DEF HoldsEvidence, HoldsItsBatch, TypeInv, BatchesLogged
    <2> QED
      BY <2>1, <2>2, <2>3 DEF EvidenceInv, HoldsItsBatch
  <1>2. ASSUME NEW r \in Requests, NEW n \in 1 .. MaxEvents, FlushPost(r, n)
        PROVE  EvidenceInv'
    <2>1. r \in Txns /\ txn[r].stage = "idle"
      BY <1>2 DEF FlushPost, Receive, Txns
    <2>2. txn[r].target # "completed"
      BY <2>1 DEF EvidenceInv, HoldsEvidence
    <2>3. /\ txn'[r].stage = "received" /\ txn'[r].target = txn[r].target
          /\ \A u \in Txns \ {r} : txn'[u] = txn[u]
          /\ UNCHANGED <<status, events, summary, log>>
      BY <1>2, <2>1 DEF FlushPost, Receive, TypeInv, TypeOK, TxnRecords
    <2> QED
      BY <2>1, <2>2, <2>3, EvidenceOneTxn
  <1>3. CASE FlushSucceeds \/ FlushFails
    BY <1>3 DEF FlushSucceeds, FlushFails, EvidenceInv, CompletedHasEvidence,
                HoldsItsBatch, HoldsEvidence
  <1> QED
    BY <1>1, <1>2, <1>3

LEMMA EvidenceStutter == EvidenceInv /\ UNCHANGED vars => EvidenceInv'
  BY DEF vars, cpVars, recordVars, historyVars, bridgeVars, EvidenceInv,
         CompletedHasEvidence, HoldsItsBatch, HoldsEvidence

LEMMA EvidenceNext == TypeInv /\ EvidenceInv /\ [Next]_vars => EvidenceInv'
  BY EvidenceControlPlane, EvidenceBridge, EvidenceStutter DEF Next

\* An investigation is completed only on a persisted summary and a persisted
\* investigation_finished event (record_events, transition_status).
THEOREM CompletionIsBacked == Spec => []CompletedHasEvidence
  <1>1. EvidenceInv => CompletedHasEvidence
    BY DEF EvidenceInv
  <1> QED
    BY TypeInit, TypeNext, EvidenceInit, EvidenceNext, <1>1, PTL DEF Spec

-----------------------------------------------------------------------------
(* Finality.  A transaction that has read nothing yet, or that read a closed  *)
(* record, has no status to write.                                            *)

Undecided == {"idle", "received", "close"}

NoTargetInv == \A t \in Txns : txn[t].stage \in Undecided => txn[t].target = None

LEMMA NoTargetInit == Init => NoTargetInv
  BY DEF Init, InitControlPlane, NoTargetInv, Idle, Undecided

LEMMA NoTargetControlPlane ==
    ASSUME TypeInv, NoTargetInv, ControlPlaneNext
    PROVE  NoTargetInv'
  <1> USE DEF NoTargetInv, Undecided
  <1>0. Starter \in Txns /\ Sweeper \in Txns /\ \A r \in Requests : r \in Txns
    BY DEF Txns
  <1>1. CASE LaunchSandbox \/ LaunchFails \/ SelectStale \/ FallSilent
    BY <1>0, <1>1
    DEF LaunchSandbox, LaunchFails, SelectStale, FallSilent, TypeInv, TypeOK, TxnRecords
  <1>2. ASSUME NEW t \in Txns, UpdateRecord(t) \/ Commit(t) \/ CommitFails(t)
        PROVE  NoTargetInv'
    <2>1. CASE UpdateRecord(t)
      BY <2>1 DEF UpdateRecord, TypeInv, TypeOK, TxnRecords
    <2>2. CASE Commit(t) \/ CommitFails(t)
      BY <2>2 DEF Commit, CommitFails, TypeInv, TypeOK, Idle
    <2> QED
      BY <1>2, <2>1, <2>2
  <1>3. ASSUME NEW r \in Requests, ServerStep(r) PROVE NoTargetInv'
    <2>1. CASE Fail(r)
      BY <1>0, <2>1 DEF Fail, TypeInv, TypeOK, Idle
    <2>2. CASE AcceptOpen(r) \/ AcceptClosing(r) \/ IgnoreTerminal(r)
      <3>1. PICK stage \in {"insert", "promote", "close", "committing"} :
                txn' = [txn EXCEPT ![r].stage = stage]
        BY <2>2 DEF AcceptOpen, AcceptClosing, IgnoreTerminal
      <3>2. txn[r].target = None
        BY <1>0, <2>2 DEF AcceptOpen, AcceptClosing, IgnoreTerminal
      <3> QED
        BY <1>0, <3>1, <3>2 DEF TypeInv, TypeOK, TxnRecords
    <2>3. CASE PromoteToRunning(r) \/ InsertEvents(r) \/ InsertClosing(r)
      BY <1>0, <2>3
      DEF PromoteToRunning, InsertEvents, InsertClosing, TypeInv, TypeOK, TxnRecords
    <2>4. CASE ProjectBatch(r)
      <3>1. /\ txn'[r].stage \in {"update", "committing"}
            /\ \A u \in Txns \ {r} : txn'[u] = txn[u]
        BY <1>0, <2>4 DEF ProjectBatch, TypeInv, TypeOK, TxnRecords
      <3> QED
        BY <3>1
    <2> QED
      BY <1>0, <1>2, <1>3, <2>1, <2>2, <2>3, <2>4
      DEF ServerStep, RejectToken, RejectSecondSummary, AbortRequest
  <1> QED
    BY <1>0, <1>1, <1>2, <1>3 DEF ControlPlaneNext

LEMMA NoTargetNext == TypeInv /\ NoTargetInv /\ [Next]_vars => NoTargetInv'
  <1> SUFFICES ASSUME TypeInv, NoTargetInv, [Next]_vars PROVE NoTargetInv'
    OBVIOUS
  <1> USE DEF recordVars, historyVars, cpVars
  <1>1. CASE ControlPlaneNext
    BY <1>1, NoTargetControlPlane
  <1>2. ASSUME NEW r \in Requests, NEW n \in 1 .. MaxEvents, FlushPost(r, n)
        PROVE  NoTargetInv'
    BY <1>2 DEF FlushPost, Receive, NoTargetInv, Undecided, TypeInv, TypeOK, TxnRecords,
                Txns
  <1>3. CASE \/ \E type \in EventTypes : RecordEvent(type)
             \/ FlushSucceeds \/ FlushFails \/ UNCHANGED vars
    BY <1>3 DEF RecordEvent, FlushSucceeds, FlushFails, NoTargetInv, vars
  <1> QED
    BY <1>1, <1>2, <1>3 DEF Next

LEMMA SettledStays ==
    ASSUME TypeInv, NoTargetInv, Settled, [Next]_vars
    PROVE  Settled' /\ status' = status
  <1> USE DEF recordVars, historyVars, cpVars
  <1> DEFINE Quiet(t) == \/ txn[t].stage \in Undecided
                         \/ txn[t].stage = "committing" /\ txn[t].target = None
  <1>0. \A t \in Txns : Quiet(t)
    BY DEF Settled, Undecided
  <1>a. /\ Starter \in Txns /\ Sweeper \in Txns
        /\ \A r \in Requests : r \in Txns
    BY DEF Txns
  \* Only one transaction changes, it stays quiet, and none writes a status.
  <1>b. ASSUME NEW t \in Txns, \A u \in Txns \ {t} : txn'[u] = txn[u],
               Quiet(t)', status' = status
        PROVE  Settled' /\ status' = status
    BY <1>0, <1>b DEF Settled, Undecided
  <1>1. ASSUME NEW r \in Requests, ServerStep(r) PROVE Settled' /\ status' = status
    <2>1. CASE Fail(r)
      BY <1>a, <1>b, <2>1 DEF Fail, TypeInv, TypeOK, Idle, Undecided
    <2>2. CASE AcceptClosing(r) \/ IgnoreTerminal(r) \/ InsertClosing(r)
      <3>1. txn[r].target = None
        BY <1>a, <2>2
        DEF AcceptClosing, IgnoreTerminal, InsertClosing, NoTargetInv, Undecided
      <3>2. /\ txn'[r].stage \in {"close", "committing"} /\ txn'[r].target = None
            /\ \A u \in Txns \ {r} : txn'[u] = txn[u]
            /\ status' = status
        BY <1>a, <2>2, <3>1
        DEF AcceptClosing, IgnoreTerminal, InsertClosing, TypeInv, TypeOK, TxnRecords
      <3> QED
        BY <1>a, <1>b, <3>2 DEF Undecided
    <2>3. ~AcceptOpen(r)
      BY DEF AcceptOpen, Settled
    <2> QED
      BY <1>0, <1>1, <1>a, <2>1, <2>2, <2>3
      DEF ServerStep, RejectToken, PromoteToRunning, InsertEvents, ProjectBatch,
          RejectSecondSummary, UpdateRecord, AbortRequest, Undecided
  <1>2. ASSUME NEW t \in Txns, Commit(t) \/ CommitFails(t)
        PROVE  Settled' /\ status' = status
    <2>1. status' = status
      BY <1>0, <1>2 DEF Commit, CommitFails, Undecided
    <2>2. Quiet(t)' /\ \A u \in Txns \ {t} : txn'[u] = txn[u]
      BY <1>2 DEF Commit, CommitFails, TypeInv, TypeOK, Idle, Undecided
    <2> QED
      BY <1>b, <2>1, <2>2
  <1>3. ~(LaunchSandbox \/ LaunchFails \/ SelectStale \/ FallSilent \/ UpdateRecord(Sweeper))
    BY <1>0, <1>a
    DEF LaunchSandbox, LaunchFails, SelectStale, FallSilent, UpdateRecord, Settled,
        Undecided, Terminal
  <1>4. ASSUME NEW r \in Requests, NEW n \in 1 .. MaxEvents, FlushPost(r, n)
        PROVE  Settled' /\ status' = status
    BY <1>4, <1>a, <1>b DEF FlushPost, Receive, Undecided, TypeInv, TypeOK, TxnRecords
  <1>5. CASE \/ \E type \in EventTypes : RecordEvent(type)
             \/ FlushSucceeds \/ FlushFails \/ UNCHANGED vars
    BY <1>5 DEF RecordEvent, FlushSucceeds, FlushFails, Settled, vars
  <1> QED
    BY <1>1, <1>2, <1>3, <1>4, <1>5 DEF Next, ControlPlaneNext

\* Once no transaction that read the record open is left, no retry, late batch,
\* sweep or closing event changes its status (record_events, sweep_stale).
THEOREM SettlementIsFinal == Spec => SettledIsFinal
  <1>1. TypeInv /\ NoTargetInv /\ [Next]_vars
            => [Settled => (Settled' /\ status' = status)]_vars
    BY SettledStays
  <1> QED
    BY TypeInit, TypeNext, NoTargetInit, NoTargetNext, <1>1, PTL DEF Spec, SettledIsFinal

-----------------------------------------------------------------------------
(* Nothing acknowledged is lost.  The bridge evicts on the strength of an    *)
(* answer, so the invariant follows the batch of the POST it waits for: what *)
(* the handler holds while the POST is open, what is kept once it is         *)
(* answered.  A commit that fails moves what it held into `lost`.            *)

IsKept(s) == \/ s \in events \cup ignored \cup lost
             \/ \E r \in Requests : txn[r].stage = "committing" /\ s \in txn[r].ins

Window == acked + 1 .. acked + window

KeptInv ==
    /\ AckedIsKept
    /\ \A r \in Requests : txn[r].stage \in {"project", "update"} => HoldsItsBatch(r)
    /\ posting # None =>
          /\ http[posting] = "open" => /\ txn[posting].stage \notin {"idle", "committing"}
                                       /\ txn[posting].batch = Window
          /\ http[posting] = "ok"   => \A s \in Window : IsKept(s)

LEMMA KeptInit == Init => KeptInv
  BY DEF Init, InitControlPlane, KeptInv, AckedIsKept, HoldsItsBatch, Idle, Txns

\* A handler of r took one step: it kept what was kept, and if it answered ok it
\* keeps its batch.
LEMMA KeptOneTxn ==
    ASSUME TypeInv, KeptInv, NEW r \in Requests,
           UNCHANGED bridgeVars, UNCHANGED <<events, lost>>, ignored \subseteq ignored',
           \A u \in Txns \ {r} : txn'[u] = txn[u],
           txn[r].stage # "committing",
           (txn[r].stage \in {"project", "update"} => HoldsItsBatch(r))',
           \/ /\ http' = http
              /\ txn'[r].stage \notin {"idle", "committing"}
              /\ txn'[r].batch = txn[r].batch
           \/ Answer(r, "error")
           \/ /\ Answer(r, "ok")
              /\ \A s \in txn[r].batch :
                    \/ s \in events \cup ignored'
                    \/ txn'[r].stage = "committing" /\ s \in txn'[r].ins
    PROVE  KeptInv'
  <1> USE DEF bridgeVars
  <1>0. r \in Txns /\ \A u \in Requests : u \in Txns
    BY DEF Txns
  <1>1. \A s : IsKept(s) => IsKept(s)'
    BY <1>0 DEF IsKept
  <1>2. AckedIsKept'
    BY <1>1 DEF KeptInv, AckedIsKept, IsKept
  <1>3. (\A u \in Requests : txn[u].stage \in {"project", "update"} => HoldsItsBatch(u))'
    BY <1>0 DEF KeptInv, HoldsItsBatch
  <1>4. ASSUME posting # None
        PROVE  /\ http'[posting] = "open" => /\ txn'[posting].stage \notin {"idle", "committing"}
                                             /\ txn'[posting].batch = Window
               /\ http'[posting] = "ok" => \A s \in Window : IsKept(s)'
    <2>1. posting \in Requests
      BY <1>4 DEF TypeInv, TypeOK
    <2>2. CASE posting # r \/ http' = http
      <3>1. http'[posting] = http[posting]
        BY <2>1, <2>2 DEF Answer, TypeInv, TypeOK
      <3> QED
        BY <1>0, <1>1, <1>4, <2>1, <2>2, <3>1 DEF KeptInv, Answer
    <2>3. CASE posting = r /\ Answer(r, "error")
      <3>1. http'[r] = IF http[r] = "open" THEN "error" ELSE http[r]
        BY <2>3 DEF Answer, TypeInv, TypeOK
      <3> QED
        BY <1>1, <1>4, <2>3, <3>1 DEF KeptInv
    <2>4. CASE /\ posting = r /\ Answer(r, "ok")
               /\ \A s \in txn[r].batch :
                    \/ s \in events \cup ignored'
                    \/ txn'[r].stage = "committing" /\ s \in txn'[r].ins
      <3>1. http'[r] = IF http[r] = "open" THEN "ok" ELSE http[r]
        BY <2>4 DEF Answer, TypeInv, TypeOK
      <3>2. http[r] = "open" => \A s \in Window : IsKept(s)'
        BY <1>4, <2>4 DEF KeptInv, IsKept
      <3> QED
        BY <1>1, <1>4, <2>4, <3>1, <3>2 DEF KeptInv
    <2> QED
      BY <2>2, <2>3, <2>4
  <1> QED
    BY <1>2, <1>3, <1>4 DEF KeptInv, Window

LEMMA KeptServerStep ==
    ASSUME TypeInv, KeptInv, NEW r \in Requests, ServerStep(r), UNCHANGED bridgeVars
    PROVE  KeptInv'
  <1> USE DEF recordVars, historyVars
  <1>0. r \in Txns
    BY DEF Txns
  <1>1. CASE Fail(r) /\ txn[r].stage # "committing"
    <2>1. /\ \A u \in Txns \ {r} : txn'[u] = txn[u]
          /\ txn'[r].stage = "idle" /\ Answer(r, "error")
          /\ UNCHANGED <<events, ignored, lost>>
      BY <1>0, <1>1 DEF Fail, TypeInv, TypeOK, Idle
    <2> QED
      BY <1>1, <2>1, KeptOneTxn
  <1>2. CASE AcceptOpen(r) \/ AcceptClosing(r) \/ PromoteToRunning(r)
    <2>1. /\ \A u \in Txns \ {r} : txn'[u] = txn[u]
          /\ txn[r].stage \in {"received", "promote"}
          /\ txn'[r].stage \in {"insert", "promote", "close"}
          /\ txn'[r].batch = txn[r].batch
          /\ http' = http /\ UNCHANGED <<events, ignored, lost>>
      BY <1>0, <1>2
      DEF AcceptOpen, AcceptClosing, PromoteToRunning, TypeInv, TypeOK, TxnRecords
    <2> QED
      BY <2>1, KeptOneTxn
  <1>3. CASE IgnoreTerminal(r)
    <2>1. /\ \A u \in Txns \ {r} : txn'[u] = txn[u]
          /\ txn[r].stage = "received" /\ txn'[r].stage = "committing"
          /\ ignored' = ignored \cup txn[r].batch
          /\ Answer(r, "ok") /\ UNCHANGED <<events, lost>>
      BY <1>0, <1>3 DEF IgnoreTerminal, TypeInv, TypeOK, TxnRecords
    <2> QED
      BY <2>1, KeptOneTxn
  <1>4. CASE InsertEvents(r)
    <2>1. /\ \A u \in Txns \ {r} : txn'[u] = txn[u]
          /\ txn[r].stage = "insert" /\ txn'[r].stage = "project"
          /\ txn'[r].batch = txn[r].batch
          /\ txn'[r].ins = txn[r].batch \ events
          /\ http' = http /\ UNCHANGED <<events, ignored, lost>>
      BY <1>0, <1>4 DEF InsertEvents, TypeInv, TypeOK, TxnRecords
    <2>2. HoldsItsBatch(r)'
      BY <2>1 DEF HoldsItsBatch
    <2> QED
      BY <2>1, <2>2, KeptOneTxn
  <1>5. CASE InsertClosing(r)
    <2>1. /\ \A u \in Txns \ {r} : txn'[u] = txn[u]
          /\ txn[r].stage = "close" /\ txn'[r].stage = "committing"
          /\ txn'[r].ins = txn[r].batch \ events
          /\ Answer(r, "ok") /\ UNCHANGED <<events, ignored, lost>>
      BY <1>0, <1>5 DEF InsertClosing, TypeInv, TypeOK, TxnRecords
    <2> QED
      BY <2>1, KeptOneTxn
  <1>6. CASE ProjectBatch(r)
    <2>1. /\ \A u \in Txns \ {r} : txn'[u] = txn[u]
          /\ txn[r].stage = "project"
          /\ txn'[r].batch = txn[r].batch /\ txn'[r].ins = txn[r].ins
          /\ \/ txn'[r].stage = "update" /\ http' = http
             \/ txn'[r].stage = "committing" /\ Answer(r, "ok")
          /\ UNCHANGED <<events, ignored, lost>>
      BY <1>0, <1>6 DEF ProjectBatch, TypeInv, TypeOK, TxnRecords
    <2>2. HoldsItsBatch(r) /\ HoldsItsBatch(r)'
      BY <2>1 DEF KeptInv, HoldsItsBatch
    <2>3. CASE txn'[r].stage = "update" /\ http' = http
      BY <2>1, <2>2, <2>3, KeptOneTxn
    <2>4. CASE txn'[r].stage = "committing" /\ Answer(r, "ok")
      <3>1. \A s \in txn[r].batch : s \in events \cup ignored' \/ s \in txn'[r].ins
        BY <2>1, <2>2 DEF HoldsItsBatch
      <3> QED
        BY <2>1, <2>2, <2>4, <3>1, KeptOneTxn
    <2> QED
      BY <2>1, <2>3, <2>4
  <1>7. CASE UpdateRecord(r)
    <2>1. /\ \A u \in Txns \ {r} : txn'[u] = txn[u]
          /\ txn[r].stage = "update" /\ txn'[r].stage = "committing"
          /\ txn'[r].batch = txn[r].batch /\ txn'[r].ins = txn[r].ins
          /\ Answer(r, "ok") /\ UNCHANGED <<events, ignored, lost>>
      BY <1>0, <1>7 DEF UpdateRecord, TypeInv, TypeOK, TxnRecords
    <2>2. \A s \in txn[r].batch : s \in events \cup ignored' \/ s \in txn'[r].ins
      BY <2>1 DEF KeptInv, HoldsItsBatch
    <2> QED
      BY <2>1, <2>2, KeptOneTxn
  <1> QED
    BY <1>1, <1>2, <1>3, <1>4, <1>5, <1>6, <1>7
    DEF ServerStep, RejectToken, RejectSecondSummary, AbortRequest

\* What the starter and the sweeper do concerns no event; a commit makes
\* persistent what a handler held.
LEMMA KeptControlPlane ==
    ASSUME TypeInv, KeptInv, ControlPlaneNext, UNCHANGED bridgeVars
    PROVE  KeptInv'
  <1> USE DEF recordVars, historyVars, bridgeVars
  <1>0. \A r \in Requests : r \in Txns /\ r # Starter /\ r # Sweeper
    BY TxnAssumption DEF Txns
  <1>1. CASE LaunchSandbox \/ LaunchFails \/ SelectStale \/ FallSilent \/ UpdateRecord(Sweeper)
    <2>1. http' = http
      BY <1>1, TxnAssumption
      DEF LaunchSandbox, LaunchFails, SelectStale, FallSilent, UpdateRecord, Answer,
          TypeInv, TypeOK
    <2>2. /\ \A r \in Requests : txn'[r] = txn[r]
          /\ UNCHANGED <<events, ignored, lost>>
      BY <1>0, <1>1
      DEF LaunchSandbox, LaunchFails, SelectStale, FallSilent, UpdateRecord,
          TypeInv, TypeOK
    <2>3. posting \in Requests \cup {None}
      BY DEF TypeInv, TypeOK
    <2>4. AckedIsKept' /\ \A s : IsKept(s) => IsKept(s)'
      BY <2>2 DEF KeptInv, AckedIsKept, IsKept
    <2>5. (\A r \in Requests : txn[r].stage \in {"project", "update"} => HoldsItsBatch(r))'
      BY <2>2 DEF KeptInv, HoldsItsBatch
    <2> QED
      BY <2>1, <2>2, <2>3, <2>4, <2>5 DEF KeptInv, Window
  <1>2. ASSUME NEW t \in Txns, Commit(t) \/ CommitFails(t) PROVE KeptInv'
    <2>1. /\ \/ events' = events \cup txn[t].ins /\ lost' = lost
             \/ events' = events /\ lost' = lost \cup txn[t].ins
          /\ \A u \in Txns \ {t} : txn'[u] = txn[u]
          /\ txn'[t].stage = "idle" /\ txn[t].stage = "committing"
          /\ UNCHANGED <<ignored, http>>
      BY <1>2 DEF Commit, CommitFails, TypeInv, TypeOK, Idle
    <2>2. \A s : IsKept(s) => IsKept(s)'
      BY <1>0, <2>1 DEF IsKept
    <2>3. AckedIsKept'
      BY <2>2 DEF KeptInv, AckedIsKept, IsKept
    <2>4. (\A r \in Requests : txn[r].stage \in {"project", "update"} => HoldsItsBatch(r))'
      BY <1>0, <2>1 DEF KeptInv, HoldsItsBatch
    <2>5. posting \in Requests \cup {None}
      BY DEF TypeInv, TypeOK
    <2> QED
      BY <1>0, <2>1, <2>2, <2>3, <2>4, <2>5 DEF KeptInv, Window
  <1> QED
    BY <1>1, <1>2, KeptServerStep DEF ControlPlaneNext

LEMMA KeptBridge ==
    ASSUME TypeInv, KeptInv,
           \/ \E type \in EventTypes : RecordEvent(type)
           \/ \E r \in Requests, n \in 1 .. MaxEvents : FlushPost(r, n)
           \/ FlushSucceeds \/ FlushFails
    PROVE  KeptInv'
  <1> USE DEF recordVars, historyVars, cpVars
  <1>1. ASSUME NEW type \in EventTypes, RecordEvent(type) PROVE KeptInv'
    BY <1>1 DEF RecordEvent, KeptInv, AckedIsKept, IsKept, Window, HoldsItsBatch
  <1>2. ASSUME NEW r \in Requests, NEW n \in 1 .. MaxEvents, FlushPost(r, n)
        PROVE  KeptInv'
    <2>1. r \in Txns /\ \A u \in Requests : u \in Txns
      BY DEF Txns
    <2>2. /\ \A u \in Txns \ {r} : txn'[u] = txn[u]
          /\ txn[r].stage = "idle" /\ txn'[r].stage = "received"
          /\ txn'[r].batch = (acked + 1 .. acked + n)
          /\ http'[r] = "open" /\ posting' = r /\ window' = n
          /\ UNCHANGED <<events, ignored, lost, acked>>
      BY <1>2, <2>1 DEF FlushPost, Receive, TypeInv, TypeOK, TxnRecords
    <2>3. AckedIsKept'
      BY <2>1, <2>2 DEF KeptInv, AckedIsKept
    <2>4. (\A u \in Requests : txn[u].stage \in {"project", "update"} => HoldsItsBatch(u))'
      BY <2>1, <2>2 DEF KeptInv, HoldsItsBatch
    <2> QED
      BY <2>2, <2>3, <2>4 DEF KeptInv, Window
  <1>3. CASE FlushSucceeds
    <2>1. /\ \A s \in Window : IsKept(s)
          /\ acked' = acked + window /\ posting' = None
          /\ UNCHANGED <<events, ignored, lost, txn>>
      BY <1>3 DEF FlushSucceeds, KeptInv
    <2>2. \A s \in 1 .. acked' : s \in 1 .. acked \/ s \in Window
      BY <2>1 DEF Window, TypeInv, TypeOK
    <2>3. AckedIsKept'
      BY <2>1, <2>2 DEF KeptInv, AckedIsKept, IsKept
    <2> QED
      BY <2>1, <2>3 DEF KeptInv, HoldsItsBatch
  <1>4. CASE FlushFails
    BY <1>4 DEF FlushFails, KeptInv, AckedIsKept, HoldsItsBatch
  <1> QED
    BY <1>1, <1>2, <1>3, <1>4

LEMMA KeptStutter == TypeInv /\ KeptInv /\ UNCHANGED vars => KeptInv'
  BY DEF vars, cpVars, recordVars, historyVars, bridgeVars, KeptInv, AckedIsKept, IsKept,
         Window, HoldsItsBatch

\* Every event the bridge has evicted is persisted, about to be, was ignored by a
\* terminal record, or fell to a failing teardown commit (flush_events,
\* record_events, get_session).
THEOREM AcknowledgedIsKept == Spec => []AckedIsKept
  <1>1. TypeInv /\ KeptInv /\ [Next]_vars => KeptInv'
    BY KeptControlPlane, KeptBridge, KeptStutter DEF Next
  <1>2. KeptInv => AckedIsKept
    BY DEF KeptInv
  <1> QED
    BY TypeInit, TypeNext, KeptInit, <1>1, <1>2, PTL DEF Spec

-----------------------------------------------------------------------------
(* InvestigationIngest implements EventDelivery: posting delivers the       *)
(* events in order and without a gap.  A window starts no later than the    *)
(* first event the bridge still holds, all before that one are kept, and a  *)
(* handler that answers keeps its whole window.                             *)

LEMMA KeptMembers ==
    \A s : (s \in Kept <=> IsKept(s)) /\ (s \in Kept' <=> IsKept(s)')
  BY DEF Kept, IsKept

\* The window of a request: it starts within reach of what was evicted.
IsWindow(batch) ==
    \E lo \in 1 .. acked + 1, hi \in 1 .. Len(log) : batch = lo .. hi

WindowInv ==
    \A t \in Txns : /\ txn[t].ins \subseteq txn[t].batch
                    /\ t \in Requests /\ txn[t].stage # "idle" => IsWindow(txn[t].batch)
                    /\ t \notin Requests \/ txn[t].stage = "idle" => txn[t].batch = {}

LEMMA WindowInit == Init => WindowInv
  <1> SUFFICES ASSUME Init PROVE WindowInv
    OBVIOUS
  <1>1. \A t \in Txns : txn[t].batch = {} /\ txn[t].ins = {}
    BY DEF Init, InitControlPlane, Idle
  <1>2. \A t \in Requests : txn[t].stage = "idle"
    BY TxnAssumption DEF Init, InitControlPlane, Idle, Txns
  <1> QED
    BY <1>1, <1>2 DEF WindowInv

\* A window stays one when events are recorded and evicted.
LEMMA WindowLasts ==
    ASSUME TypeInv, TypeInv', acked <= acked', Len(log) <= Len(log'), NEW batch, IsWindow(batch)
    PROVE  IsWindow(batch)'
  <1>1. PICK lo \in 1 .. acked + 1, hi \in 1 .. Len(log) : batch = lo .. hi
    BY DEF IsWindow
  <1>2. acked \in Nat /\ acked' \in Nat /\ Len(log) \in Nat /\ Len(log') \in Nat
    BY DEF TypeInv, TypeOK
  <1>3. acked <= acked' /\ Len(log) <= Len(log')
    OBVIOUS
  <1>4. \A m, n \in Nat : m <= n => 1 .. m + 1 \subseteq 1 .. n + 1 /\ 1 .. m \subseteq 1 .. n
    OBVIOUS
  <1>5. 1 .. acked + 1 \subseteq 1 .. acked' + 1 /\ 1 .. Len(log) \subseteq 1 .. Len(log')
    BY <1>2, <1>3, <1>4, Zenon
  <1> QED
    BY <1>1, <1>5 DEF IsWindow

\* A step of one transaction that leaves the bridge alone.
LEMMA WindowOneTxn ==
    ASSUME TypeInv, WindowInv, UNCHANGED <<log, acked>>, NEW t \in Txns,
           \A u \in Txns \ {t} : txn'[u] = txn[u],
           \/ txn'[t].batch = {} /\ txn'[t].ins = {} /\ txn'[t].stage = "idle"
           \/ /\ txn'[t].batch = txn[t].batch /\ txn'[t].ins \subseteq txn[t].batch
              /\ t \in Requests => txn[t].stage # "idle" /\ txn'[t].stage # "idle"
    PROVE  WindowInv'
  BY DEF WindowInv, IsWindow

LEMMA WindowServerStep ==
    ASSUME TypeInv, WindowInv, NEW r \in Requests, ServerStep(r), UNCHANGED bridgeVars
    PROVE  WindowInv'
  <1>0. r \in Txns /\ UNCHANGED <<log, acked>>
    BY DEF Txns, bridgeVars
  <1>1. CASE Fail(r)
    <2>1. /\ \A u \in Txns \ {r} : txn'[u] = txn[u]
          /\ txn'[r].batch = {} /\ txn'[r].ins = {} /\ txn'[r].stage = "idle"
      BY <1>0, <1>1 DEF Fail, TypeInv, TypeOK, Idle
    <2> QED
      BY <1>0, <2>1, WindowOneTxn
  <1>2. CASE \/ AcceptOpen(r) \/ AcceptClosing(r) \/ IgnoreTerminal(r)
             \/ PromoteToRunning(r) \/ ProjectBatch(r) \/ UpdateRecord(r)
    <2>1. /\ \A u \in Txns \ {r} : txn'[u] = txn[u]
          /\ txn'[r].batch = txn[r].batch /\ txn'[r].ins = txn[r].ins
          /\ txn[r].stage # "idle" /\ txn'[r].stage # "idle"
      BY <1>0, <1>2
      DEF AcceptOpen, AcceptClosing, IgnoreTerminal, PromoteToRunning, ProjectBatch,
          UpdateRecord, TypeInv, TypeOK, TxnRecords
    <2>2. txn[r].ins \subseteq txn[r].batch
      BY <1>0 DEF WindowInv
    <2> QED
      BY <1>0, <2>1, <2>2, WindowOneTxn
  <1>3. CASE InsertEvents(r) \/ InsertClosing(r)
    <2>1. /\ \A u \in Txns \ {r} : txn'[u] = txn[u]
          /\ txn'[r].batch = txn[r].batch /\ txn'[r].ins \subseteq txn[r].batch
          /\ txn[r].stage # "idle" /\ txn'[r].stage # "idle"
      BY <1>0, <1>3 DEF InsertEvents, InsertClosing, TypeInv, TypeOK, TxnRecords
    <2> QED
      BY <1>0, <2>1, WindowOneTxn
  <1> QED
    BY <1>1, <1>2, <1>3 DEF ServerStep, RejectToken, RejectSecondSummary, AbortRequest

LEMMA WindowControlPlane ==
    ASSUME TypeInv, WindowInv, ControlPlaneNext, UNCHANGED bridgeVars
    PROVE  WindowInv'
  <1>0. /\ Starter \in Txns /\ Sweeper \in Txns
        /\ Starter \notin Requests /\ Sweeper \notin Requests
        /\ UNCHANGED <<log, acked>>
    BY TxnAssumption DEF Txns, bridgeVars
  <1>1. CASE LaunchSandbox \/ LaunchFails
    <2>1. /\ \A u \in Txns \ {Starter} : txn'[u] = txn[u]
          /\ txn'[Starter].batch = txn[Starter].batch /\ txn'[Starter].ins = txn[Starter].ins
      BY <1>0, <1>1 DEF LaunchSandbox, LaunchFails, TypeInv, TypeOK, TxnRecords
    <2> QED
      BY <1>0, <2>1, WindowOneTxn DEF WindowInv
  <1>2. CASE SelectStale \/ UpdateRecord(Sweeper)
    <2>1. /\ \A u \in Txns \ {Sweeper} : txn'[u] = txn[u]
          /\ txn'[Sweeper].batch = txn[Sweeper].batch /\ txn'[Sweeper].ins = txn[Sweeper].ins
      BY <1>0, <1>2 DEF SelectStale, UpdateRecord, TypeInv, TypeOK, TxnRecords
    <2> QED
      BY <1>0, <2>1, WindowOneTxn DEF WindowInv
  <1>3. CASE FallSilent
    BY <1>0, <1>3 DEF FallSilent, WindowInv, IsWindow
  <1>4. ASSUME NEW t \in Txns, Commit(t) \/ CommitFails(t) PROVE WindowInv'
    <2>1. /\ \A u \in Txns \ {t} : txn'[u] = txn[u]
          /\ txn'[t].batch = {} /\ txn'[t].ins = {} /\ txn'[t].stage = "idle"
      BY <1>4 DEF Commit, CommitFails, TypeInv, TypeOK, Idle
    <2> QED
      BY <1>0, <2>1, WindowOneTxn
  <1> QED
    BY <1>1, <1>2, <1>3, <1>4, WindowServerStep DEF ControlPlaneNext

LEMMA WindowNext ==
    ASSUME TypeInv, TypeInv', WindowInv, [Next]_vars
    PROVE  WindowInv'
  <1>0. acked \in Nat /\ Len(log) \in Nat /\ acked' \in Nat /\ window \in Nat
    BY DEF TypeInv, TypeOK
  <1>1. CASE ControlPlaneNext /\ UNCHANGED bridgeVars
    BY <1>1, WindowControlPlane
  <1>2. ASSUME NEW type \in EventTypes, RecordEvent(type) PROVE WindowInv'
    <2>1. UNCHANGED <<txn, acked>> /\ Len(log) <= Len(log')
      BY <1>0, <1>2, LogGrows DEF RecordEvent, cpVars, TypeInv, TypeOK
    <2> QED
      BY <1>0, <2>1, WindowLasts DEF WindowInv
  <1>3. ASSUME NEW r \in Requests, NEW n \in 1 .. MaxEvents, FlushPost(r, n)
        PROVE  WindowInv'
    <2>1. r \in Txns
      BY DEF Txns
    <2>2. /\ \A u \in Txns \ {r} : txn'[u] = txn[u]
          /\ txn'[r].batch = acked + 1 .. acked + n /\ txn'[r].ins = txn[r].ins
          /\ txn'[r].stage # "idle" /\ UNCHANGED <<log, acked>>
      BY <1>3, <2>1 DEF FlushPost, Receive, TypeInv, TypeOK, TxnRecords
    <2>3. n \in Nat /\ n >= 1 /\ acked + n <= Len(log)
      BY <1>0, <1>3, MaxEventsAssumption DEF FlushPost
    <2>4. IsWindow(acked + 1 .. acked + n)
      <3>1. acked + 1 \in 1 .. acked + 1 /\ acked + n \in 1 .. Len(log)
        BY <1>0, <2>3
      <3> QED
        BY <3>1 DEF IsWindow
    <2>5. txn[r].ins = {}
      BY <1>3, <2>1 DEF FlushPost, Receive, WindowInv
    <2> QED
      BY <2>1, <2>2, <2>4, <2>5 DEF WindowInv, IsWindow
  <1>4. CASE FlushSucceeds \/ FlushFails
    <2>1. UNCHANGED <<txn, log>> /\ acked <= acked' /\ Len(log) <= Len(log')
      BY <1>0, <1>4 DEF FlushSucceeds, FlushFails
    <2> QED
      BY <1>0, <2>1, WindowLasts DEF WindowInv
  <1>5. CASE UNCHANGED vars
    BY <1>5 DEF vars, cpVars, bridgeVars, WindowInv, IsWindow
  <1> QED
    BY <1>1, <1>2, <1>3, <1>4, <1>5 DEF Next

-----------------------------------------------------------------------------
(* Steps map to steps.                                                      *)

\* Keeping a window is delivering everything up to its end.
LEMMA KeepingDelivers ==
    ASSUME TypeInv, AckedIsKept, NEW batch, IsWindow(batch), UNCHANGED <<log, acked>>,
           Kept' = Kept \cup batch
    PROVE  Delivery!Deliver
  <1>1. PICK lo \in 1 .. acked + 1, hi \in 1 .. Len(log) : batch = lo .. hi
    BY DEF IsWindow
  <1>2. acked \in Nat /\ Len(log) \in Nat
    BY DEF TypeInv, TypeOK
  <1>3. \A s \in 1 .. acked : s \in Kept
    BY KeptMembers DEF AckedIsKept, IsKept
  <1>4. \A s \in 1 .. hi : s \in 1 .. acked \/ s \in lo .. hi
    BY <1>2
  <1>5. \A s \in lo .. hi : s \in 1 .. hi
    BY <1>2
  <1>6. Kept' = Kept \cup 1 .. hi
    BY <1>1, <1>3, <1>4, <1>5
  <1> QED
    BY <1>6 DEF Delivery!Deliver

\* A request that does not start or end in committing keeps what was kept.
LEMMA KeptUnchanged ==
    ASSUME NEW t \in Txns, \A u \in Txns \ {t} : txn'[u] = txn[u],
           UNCHANGED <<events, ignored, lost>>,
           txn[t].stage # "committing" \/ t \notin Requests,
           txn'[t].stage # "committing" \/ t \notin Requests
    PROVE  Kept' = Kept
  <1>1. \A s : IsKept(s)' <=> IsKept(s)
    BY DEF IsKept, Txns
  <1> QED
    BY <1>1, KeptMembers

\* A request that reaches its commit keeps its batch.
LEMMA KeptGrows ==
    ASSUME TypeInv, WindowInv, NEW r \in Requests,
           \A u \in Txns \ {r} : txn'[u] = txn[u],
           UNCHANGED <<events, lost>>, ignored \subseteq ignored',
           ignored' \subseteq ignored \cup txn[r].batch,
           txn[r].stage # "committing", txn'[r].stage = "committing",
           txn'[r].ins \subseteq txn[r].batch,
           txn[r].batch \subseteq events \cup ignored' \cup txn'[r].ins
    PROVE  Kept' = Kept \cup txn[r].batch
  <1>1. \A s : IsKept(s)' <=> IsKept(s) \/ s \in txn[r].batch
    BY DEF IsKept, Txns
  <1> QED
    BY <1>1, KeptMembers

LEMMA DeliveryServerStep ==
    ASSUME TypeInv, KeptInv, WindowInv, NEW r \in Requests, ServerStep(r),
           UNCHANGED bridgeVars
    PROVE  Kept' = Kept \/ Delivery!Deliver
  <1>0. r \in Txns /\ UNCHANGED <<log, acked>> /\ AckedIsKept
    BY DEF Txns, bridgeVars, KeptInv
  <1>1. txn[r].stage # "idle" =>
            IsWindow(txn[r].batch) /\ txn[r].ins \subseteq txn[r].batch
    BY <1>0 DEF WindowInv
  <1>2. CASE Fail(r) /\ txn[r].stage # "committing"
    <2>1. /\ \A u \in Txns \ {r} : txn'[u] = txn[u]
          /\ txn'[r].stage = "idle" /\ UNCHANGED <<events, ignored, lost>>
      BY <1>0, <1>2 DEF Fail, recordVars, historyVars, TypeInv, TypeOK, Idle
    <2> QED
      BY <1>0, <1>2, <2>1, KeptUnchanged
  <1>3. CASE \/ AcceptOpen(r) \/ AcceptClosing(r) \/ PromoteToRunning(r)
             \/ InsertEvents(r)
    <2>1. /\ \A u \in Txns \ {r} : txn'[u] = txn[u]
          /\ txn[r].stage # "committing" /\ txn'[r].stage # "committing"
          /\ UNCHANGED <<events, ignored, lost>>
      BY <1>0, <1>3
      DEF AcceptOpen, AcceptClosing, PromoteToRunning, InsertEvents, recordVars,
          historyVars, TypeInv, TypeOK, TxnRecords
    <2> QED
      BY <1>0, <2>1, KeptUnchanged
  <1>4. CASE IgnoreTerminal(r)
    <2>1. /\ \A u \in Txns \ {r} : txn'[u] = txn[u]
          /\ txn[r].stage = "received" /\ txn'[r].stage = "committing"
          /\ ignored' = ignored \cup txn[r].batch /\ UNCHANGED <<events, lost>>
          /\ txn'[r].ins = txn[r].ins
      BY <1>0, <1>4 DEF IgnoreTerminal, recordVars, historyVars, TypeInv, TypeOK, TxnRecords
    <2> QED
      BY <1>0, <1>1, <2>1, KeptGrows, KeepingDelivers
  <1>5. CASE InsertClosing(r)
    <2>1. /\ \A u \in Txns \ {r} : txn'[u] = txn[u]
          /\ txn[r].stage = "close" /\ txn'[r].stage = "committing"
          /\ txn'[r].ins = txn[r].batch \ events /\ UNCHANGED <<events, ignored, lost>>
      BY <1>0, <1>5 DEF InsertClosing, recordVars, historyVars, TypeInv, TypeOK, TxnRecords
    <2> QED
      BY <1>0, <1>1, <2>1, KeptGrows, KeepingDelivers
  <1>6. CASE ProjectBatch(r) \/ UpdateRecord(r)
    <2>1. /\ \A u \in Txns \ {r} : txn'[u] = txn[u]
          /\ txn[r].stage \in {"project", "update"}
          /\ txn'[r].stage \in {"update", "committing"}
          /\ txn'[r].ins = txn[r].ins /\ UNCHANGED <<events, ignored, lost>>
      BY <1>0, <1>6
      DEF ProjectBatch, UpdateRecord, recordVars, historyVars, TypeInv, TypeOK, TxnRecords
    <2>2. txn[r].batch \subseteq events \cup txn[r].ins
      BY <2>1 DEF KeptInv, HoldsItsBatch
    <2>3. CASE txn'[r].stage = "update"
      BY <1>0, <2>1, <2>3, KeptUnchanged
    <2>4. CASE txn'[r].stage = "committing"
      BY <1>0, <1>1, <2>1, <2>2, <2>4, KeptGrows, KeepingDelivers
    <2> QED
      BY <2>1, <2>3, <2>4
  <1> QED
    BY <1>2, <1>3, <1>4, <1>5, <1>6
    DEF ServerStep, RejectToken, RejectSecondSummary, AbortRequest

LEMMA DeliveryControlPlane ==
    ASSUME TypeInv, KeptInv, WindowInv, ControlPlaneNext,
           UNCHANGED bridgeVars
    PROVE  Kept' = Kept \/ Delivery!Deliver
  <1>0. /\ Starter \in Txns /\ Sweeper \in Txns
        /\ Starter \notin Requests /\ Sweeper \notin Requests
    BY TxnAssumption DEF Txns
  <1>1. CASE LaunchSandbox \/ LaunchFails
    <2>1. /\ \A u \in Txns \ {Starter} : txn'[u] = txn[u]
          /\ UNCHANGED <<events, ignored, lost>>
      BY <1>1 DEF LaunchSandbox, LaunchFails, recordVars, historyVars, TypeInv, TypeOK
    <2> QED
      BY <1>0, <2>1, KeptUnchanged
  <1>2. CASE SelectStale \/ UpdateRecord(Sweeper)
    <2>1. /\ \A u \in Txns \ {Sweeper} : txn'[u] = txn[u]
          /\ UNCHANGED <<events, ignored, lost>>
      BY <1>2 DEF SelectStale, UpdateRecord, recordVars, historyVars, TypeInv, TypeOK
    <2> QED
      BY <1>0, <2>1, KeptUnchanged
  <1>3. CASE FallSilent
    BY <1>3 DEF FallSilent, historyVars, Kept
  <1>4. ASSUME NEW t \in Txns, Commit(t) \/ CommitFails(t) PROVE Kept' = Kept
    <2>1. /\ \/ events' = events \cup txn[t].ins /\ lost' = lost
             \/ events' = events /\ lost' = lost \cup txn[t].ins
          /\ \A u \in Txns \ {t} : txn'[u] = txn[u]
          /\ txn'[t].stage = "idle" /\ txn[t].stage = "committing"
          /\ UNCHANGED ignored
      BY <1>4 DEF Commit, CommitFails, recordVars, historyVars, TypeInv, TypeOK, Idle
    <2>2. t \notin Requests => txn[t].ins = {}
      BY DEF WindowInv
    <2>3. \A s : IsKept(s)' <=> IsKept(s)
      BY <2>1, <2>2 DEF IsKept, Txns
    <2> QED
      BY <2>3, KeptMembers
  <1> QED
    BY <1>1, <1>2, <1>3, <1>4, DeliveryServerStep DEF ControlPlaneNext

LEMMA DeliveryStep ==
    ASSUME TypeInv, KeptInv, KeptInv', WindowInv, [Next]_vars
    PROVE  [Delivery!Next]_<<log, Kept, acked>>
  <1>0. acked \in Nat /\ window \in Nat /\ Len(log) \in Nat /\ acked + window <= Len(log)
    BY DEF TypeInv, TypeOK
  <1>1. CASE ControlPlaneNext /\ UNCHANGED bridgeVars
    BY <1>1, DeliveryControlPlane DEF Delivery!Next, bridgeVars
  <1>2. ASSUME NEW type \in EventTypes, RecordEvent(type)
        PROVE  [Delivery!Next]_<<log, Kept, acked>>
    <2>1. log' = Append(log, type) /\ UNCHANGED <<events, ignored, lost, txn, acked>>
      BY <1>2 DEF RecordEvent, cpVars, recordVars, historyVars
    <2>2. Kept' = Kept
      BY <2>1 DEF Kept
    <2> QED
      BY <2>1, <2>2 DEF Delivery!Next, Delivery!Record
  <1>3. ASSUME NEW r \in Requests, NEW n \in 1 .. MaxEvents, FlushPost(r, n)
        PROVE  [Delivery!Next]_<<log, Kept, acked>>
    <2>1. /\ \A u \in Txns \ {r} : txn'[u] = txn[u]
          /\ txn[r].stage = "idle" /\ txn'[r].stage = "received"
          /\ UNCHANGED <<events, ignored, lost, log, acked>>
      BY <1>3 DEF FlushPost, Receive, recordVars, historyVars, TypeInv, TypeOK,
                  TxnRecords, Txns
    <2> QED
      BY <2>1, KeptUnchanged DEF Txns
  <1>4. CASE FlushSucceeds
    <2>1. acked' = acked + window /\ UNCHANGED <<events, ignored, lost, txn, log>>
      BY <1>4 DEF FlushSucceeds, recordVars, historyVars
    <2>2. Kept' = Kept
      BY <2>1 DEF Kept
    <2>3. \A s \in 1 .. acked' : s \in Kept'
      <3>1. \A s \in 1 .. acked' : IsKept(s)'
        BY DEF KeptInv, AckedIsKept, IsKept
      <3> QED
        BY <3>1, KeptMembers
    <2>4. CASE acked' = 0
      BY <1>0, <2>1, <2>2, <2>4
    <2>5. CASE acked' # 0
      <3>1. acked' \in 1 .. Len(log) /\ acked <= acked'
        BY <1>0, <2>1, <2>5
      <3> QED
        BY <2>1, <2>2, <2>3, <3>1 DEF Delivery!Next, Delivery!Discard
    <2> QED
      BY <2>4, <2>5
  <1>5. CASE FlushFails
    BY <1>5 DEF FlushFails, recordVars, historyVars, Kept
  <1>6. CASE UNCHANGED vars
    BY <1>6 DEF vars, cpVars, recordVars, historyVars, bridgeVars, Kept
  <1> QED
    BY <1>1, <1>2, <1>3, <1>4, <1>5, <1>6 DEF Next

\* The bridge and the control plane implement an ordered delivery without a gap:
\* flush_events, record_events and get_session together, for any number of handlers,
\* timeouts, retries, aborts and failing commits.
THEOREM PostingDeliversInOrder == Spec => DeliversInOrder
  <1>1. Init => Delivery!Init
    <2> SUFFICES ASSUME Init PROVE Delivery!Init
      OBVIOUS
    <2>1. \A s : ~IsKept(s)
      BY TxnAssumption DEF Init, InitControlPlane, IsKept, Idle, Txns
    <2>2. Kept = {}
      BY <2>1, KeptMembers
    <2> QED
      BY <2>2 DEF Init, Delivery!Init
  <1>2. TypeInv /\ KeptInv /\ [Next]_vars => KeptInv'
    BY KeptControlPlane, KeptBridge, KeptStutter DEF Next
  <1>3. TypeInv /\ TypeInv' /\ WindowInv /\ [Next]_vars => WindowInv'
    BY WindowNext
  <1>4. /\ TypeInv /\ KeptInv /\ KeptInv' /\ WindowInv /\ [Next]_vars
        => [Delivery!Next]_<<log, Kept, acked>>
    BY DeliveryStep
  <1> QED
    BY TypeInit, TypeNext, KeptInit, WindowInit, <1>1, <1>2, <1>3, <1>4, PTL
    DEF Spec, DeliversInOrder, Delivery!Spec
=============================================================================
