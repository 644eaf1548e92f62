------------------------ MODULE InvestigationControlPlane ------------------------
(***************************************************************************)
(* The control plane's side of one investigation: InvestigationService and *)
(* SqlAlchemyInvestigationRepository, at the granularity of the SQL they   *)
(* issue.  Every handler is one READ COMMITTED transaction on a session of *)
(* its own: what it has flushed is invisible to the others until Commit,   *)
(* but the rows and unique keys it has touched are locked from the flush   *)
(* on.  A handler decides on the status its first SELECT read (the session *)
(* keeps the loaded record), whatever has been committed since.            *)
(*                                                                         *)
(* An event is its place in the order of the sequence numbers, whose gaps  *)
(* mean nothing here; `log` gives its type, which is all the handlers look *)
(* at.  The response leaves before the session's teardown commits:         *)
(* `get_session` is a dependency with yield, whose exit code the pinned    *)
(* framework runs once the response has been sent.                         *)
(***************************************************************************)
EXTENDS Naturals, Sequences, FiniteSets

CONSTANTS Requests,       \* POST /internal/events handlers open at one time
          Starter,        \* the POST /investigations handler
          Sweeper,        \* the startup sweep of a control-plane process
          HandlersMayDie, \* whether a handler may be cut off before it answers
          CommitMayFail   \* whether a teardown commit may fail

ASSUME TxnAssumption ==
    /\ Starter \notin Requests
    /\ Sweeper \notin Requests
    /\ Starter # Sweeper
    /\ HandlersMayDie \in BOOLEAN /\ CommitMayFail \in BOOLEAN

Txns == Requests \cup {Starter, Sweeper}

EventTypes == {"progress", "heartbeat", "summary", "finished", "error"}
Terminal   == {"completed", "failed", "cancelled"}
Statuses   == {"pending", "provisioning", "running"} \cup Terminal
None       == "none"

VARIABLES
    log,        \* the bridge's events: log[s] is the type of the event numbered s
    status,     \* committed InvestigationRecord.status, None before the first commit
    silent,     \* the last committed heartbeat is older than the silence cutoff
    events,     \* committed investigation_events.seq
    summary,    \* a committed investigation_summaries row exists
    launched,   \* create_sandbox has returned a handle
    ignored,    \* history: events answered with 200 but not recorded
    lost,       \* history: events answered with 200 whose commit then failed
    txn,        \* the open transactions
    http        \* client end of each POST: "free", "open", "ok" or "error"

recordVars == <<status, silent, events, summary>>
historyVars == <<ignored, lost>>
cpVars     == <<recordVars, launched, historyVars, txn, http>>

Stages == {"idle", "launch", "received", "promote", "insert", "close",
           "project", "update", "committing"}

Idle == [stage |-> "idle", batch |-> {}, ins |-> {}, sum |-> FALSE,
         row |-> FALSE, target |-> None]

TxnRecords == [stage : Stages, batch : SUBSET Nat, ins : SUBSET Nat,
               sum : BOOLEAN, row : BOOLEAN, target : Statuses \cup {None}]

TypesIn(batch) == {log[s] : s \in batch}

\* Locks: the record's row, the (investigation_id, seq) keys, the summary key.
RowFree(t)       == \A u \in Txns \ {t} : ~txn[u].row
KeysFree(t)      == \A u \in Txns \ {t} : txn[u].ins \cap txn[t].batch = {}
SummaryFree(t)   == \A u \in Txns \ {t} : ~txn[u].sum

\* The response of t reaches whoever still waits for it.
Answer(t, code) ==
    http' = [r \in Requests |-> IF r = t /\ http[r] = "open" THEN code ELSE http[r]]

InitControlPlane ==
    /\ status = None /\ silent = FALSE /\ events = {} /\ summary = FALSE
    /\ launched = FALSE /\ ignored = {} /\ lost = {}
    /\ txn = [t \in Txns |-> IF t = Starter THEN [Idle EXCEPT !.stage = "launch"]
                                            ELSE Idle]
    /\ http = [r \in Requests |-> "free"]

-----------------------------------------------------------------------------
(* start(): the record is flushed as pending, then the sandbox is created. *)

LaunchSandbox ==
    /\ txn[Starter].stage = "launch"
    /\ txn' = [txn EXCEPT ![Starter].stage = "committing", ![Starter].target = "pending"]
    /\ launched' = TRUE
    /\ UNCHANGED <<recordVars, historyVars, http>>

LaunchFails ==
    /\ txn[Starter].stage = "launch"
    /\ txn' = [txn EXCEPT ![Starter].stage = "committing", ![Starter].target = "failed"]
    /\ UNCHANGED <<recordVars, launched, historyVars, http>>

-----------------------------------------------------------------------------
(* record_events(), one action per statement that reads or locks.          *)

Receive(r, batch) ==
    /\ txn[r].stage = "idle" /\ http[r] = "free"
    /\ txn' = [txn EXCEPT ![r].stage = "received", ![r].batch = batch]
    /\ http' = [http EXCEPT ![r] = "open"]
    /\ UNCHANGED <<recordVars, launched, historyVars>>

\* The handler raises: the session rolls back, the client gets an error status.
Fail(r) ==
    /\ txn' = [txn EXCEPT ![r] = Idle]
    /\ Answer(r, "error")
    /\ UNCHANGED <<recordVars, launched, historyVars>>

RejectToken(r) ==
    /\ txn[r].stage = "received" /\ status = None
    /\ Fail(r)

\* Mutant: the terminal check of record_events is left out.
AcceptOpenUnchecked(r) ==
    /\ txn[r].stage = "received" /\ status # None
    /\ txn' = [txn EXCEPT ![r].stage = IF status = "running" THEN "insert" ELSE "promote"]
    /\ UNCHANGED <<recordVars, launched, historyVars, http>>

AcceptOpen(r) ==
    /\ txn[r].stage = "received" /\ status \in Statuses \ Terminal
    /\ txn' = [txn EXCEPT ![r].stage = IF status = "running" THEN "insert" ELSE "promote"]
    /\ UNCHANGED <<recordVars, launched, historyVars, http>>

\* A completed investigation still takes a batch of closing events only.
AcceptClosing(r) ==
    /\ txn[r].stage = "received" /\ status = "completed"
    /\ TypesIn(txn[r].batch) \subseteq {"finished", "error"}
    /\ txn' = [txn EXCEPT ![r].stage = "close"]
    /\ UNCHANGED <<recordVars, launched, historyVars, http>>

IgnoreTerminal(r) ==
    /\ txn[r].stage = "received" /\ status \in Terminal
    /\ status = "completed" => ~(TypesIn(txn[r].batch) \subseteq {"finished", "error"})
    /\ txn' = [txn EXCEPT ![r].stage = "committing"]
    /\ ignored' = ignored \cup txn[r].batch
    /\ Answer(r, "ok")
    /\ UNCHANGED <<recordVars, launched, lost>>

\* pending -> provisioning -> running, two UPDATEs of one transaction.
PromoteToRunning(r) ==
    /\ txn[r].stage = "promote" /\ RowFree(r)
    /\ txn' = [txn EXCEPT ![r].stage = "insert", ![r].row = TRUE, ![r].target = "running"]
    /\ UNCHANGED <<recordVars, launched, historyVars, http>>

\* INSERT ... ON CONFLICT DO NOTHING waits for an uncommitted duplicate.
InsertEvents(r) ==
    /\ txn[r].stage = "insert" /\ KeysFree(r)
    /\ txn' = [txn EXCEPT ![r].stage = "project", ![r].ins = txn[r].batch \ events]
    /\ UNCHANGED <<recordVars, launched, historyVars, http>>

InsertClosing(r) ==
    /\ txn[r].stage = "close" /\ KeysFree(r)
    /\ txn' = [txn EXCEPT ![r].stage = "committing", ![r].ins = txn[r].batch \ events]
    /\ Answer(r, "ok")
    /\ UNCHANGED <<recordVars, launched, historyVars>>

\* Mutant: the end of the run completes it, summary or not.
VerdictWithoutSummary(types, available) ==
    CASE "error" \in types    -> "failed"
      [] "error" \notin types /\ "finished" \in types -> "completed"
      [] OTHER                -> None

\* Mutant: an end without a summary leaves the record open, waiting for one.
VerdictWaits(types, available) ==
    CASE "error" \in types    -> "failed"
      [] "error" \notin types /\ "finished" \in types /\ available -> "completed"
      [] OTHER                -> None

\* What the batch makes of the record; an error wins over the end of the run.
Verdict(types, available) ==
    CASE "error" \in types    -> "failed"
      [] "error" \notin types /\ "finished" \in types
                              -> IF available THEN "completed" ELSE "failed"
      [] OTHER                -> None

\* get_summary, and save_summary for a summary_submitted event: a plain INSERT,
\* which waits for an uncommitted summary and violates the key of a committed one.
ProjectBatch(r) ==
    LET types   == TypesIn(txn[r].batch)
        verdict == Verdict(types, summary \/ "summary" \in types)
        quiet   == verdict = None /\ "heartbeat" \notin types
    IN  /\ txn[r].stage = "project"
        /\ "summary" \in types => SummaryFree(r) /\ ~summary
        /\ txn' = [txn EXCEPT ![r].sum    = "summary" \in types,
                              ![r].target = IF verdict = None THEN @ ELSE verdict,
                              ![r].stage  = IF quiet THEN "committing" ELSE "update"]
        /\ IF quiet THEN Answer(r, "ok") ELSE UNCHANGED http
        /\ UNCHANGED <<recordVars, launched, historyVars>>

RejectSecondSummary(r) ==
    /\ txn[r].stage = "project"
    /\ "summary" \in TypesIn(txn[r].batch) /\ summary
    /\ Fail(r)

\* The UPDATEs of update_heartbeat and transition_status, and the response.
UpdateRecord(t) ==
    /\ txn[t].stage = "update" /\ RowFree(t)
    /\ txn' = [txn EXCEPT ![t].stage = "committing", ![t].row = TRUE]
    /\ Answer(t, "ok")
    /\ UNCHANGED <<recordVars, launched, historyVars>>

\* A database error, a deadlock victim or a dying process before the response.
AbortRequest(r) ==
    /\ HandlersMayDie
    /\ txn[r].stage \notin {"idle", "committing"}
    /\ Fail(r)

-----------------------------------------------------------------------------
(* sweep_stale(), at the startup of a control-plane process.               *)

SelectStale ==
    /\ txn[Sweeper].stage = "idle" /\ status = "running" /\ silent
    /\ txn' = [txn EXCEPT ![Sweeper].stage = "update", ![Sweeper].target = "failed"]
    /\ UNCHANGED <<recordVars, launched, historyVars, http>>

FallSilent ==
    /\ status = "running" /\ ~silent
    /\ silent' = TRUE
    /\ UNCHANGED <<status, events, summary, launched, historyVars, txn, http>>

-----------------------------------------------------------------------------
(* get_session()'s teardown, and a process that dies before it.            *)

Commit(t) ==
    /\ txn[t].stage = "committing"
    /\ events'  = events \cup txn[t].ins
    /\ summary' = (summary \/ txn[t].sum)
    /\ status'  = IF txn[t].target = None THEN status ELSE txn[t].target
    /\ silent'  = (silent /\ ~(txn[t].row /\ "heartbeat" \in TypesIn(txn[t].batch)))
    /\ txn'     = [txn EXCEPT ![t] = Idle]
    /\ UNCHANGED <<launched, historyVars, http>>

CommitFails(t) ==
    /\ CommitMayFail
    /\ txn[t].stage = "committing"
    /\ lost' = lost \cup txn[t].ins
    /\ txn' = [txn EXCEPT ![t] = Idle]
    /\ UNCHANGED <<recordVars, launched, ignored, http>>

ServerStep(r) ==
    \/ RejectToken(r) \/ AcceptOpen(r) \/ AcceptClosing(r) \/ IgnoreTerminal(r)
    \/ PromoteToRunning(r) \/ InsertEvents(r) \/ InsertClosing(r) \/ ProjectBatch(r)
    \/ RejectSecondSummary(r) \/ UpdateRecord(r) \/ AbortRequest(r)

ControlPlaneNext ==
    \/ LaunchSandbox \/ LaunchFails
    \/ \E r \in Requests : ServerStep(r)
    \/ SelectStale \/ FallSilent \/ UpdateRecord(Sweeper)
    \/ \E t \in Txns : Commit(t) \/ CommitFails(t)

=============================================================================
