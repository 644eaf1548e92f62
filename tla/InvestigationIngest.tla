--------------------------- MODULE InvestigationIngest ---------------------------
(***************************************************************************)
(* The control plane fed by the bridge's flush_events: the events recorded *)
(* so far form a log, the first `acked` of them have been evicted from the *)
(* buffer, and at most one POST is awaited at a time (the flush lock).  A  *)
(* POST that fails or times out leaves the buffer alone and is repeated    *)
(* with a window that starts at the same event and may be longer; the      *)
(* handler of the abandoned one may still be running.                      *)
(***************************************************************************)
EXTENDS InvestigationControlPlane

CONSTANT MaxEvents      \* bound: events the bridge records

ASSUME MaxEventsAssumption == MaxEvents \in Nat

VARIABLES
    acked,      \* events deleted from the front of event_buffer
    posting,    \* the request the flush lock's holder awaits, or None
    window      \* len(batch_to_send) of that request

bridgeVars == <<log, acked, posting, window>>
vars       == <<cpVars, bridgeVars>>

Init ==
    /\ InitControlPlane
    /\ log = <<>> /\ acked = 0 /\ posting = None /\ window = 0

\* investigation_started comes first, or the error of a gateway that did not start;
\* a progress event later on changes nothing that is stated here.  The gateway
\* emits summary_submitted once, however often it is called.  What is recorded
\* during a POST is only sent by a later one, so it is recorded when that one is built.
RecordEvent(type) ==
    /\ launched /\ posting = None /\ Len(log) < MaxEvents
    /\ type = "progress" => log = <<>>
    /\ log = <<>> => type \in {"progress", "error"}
    /\ type = "summary" => \A s \in DOMAIN log : log[s] # "summary"
    /\ log' = Append(log, type)
    /\ UNCHANGED <<cpVars, acked, posting, window>>

FlushPost(r, n) ==
    /\ posting = None
    /\ n \in 1 .. Len(log) - acked
    /\ Receive(r, acked + 1 .. acked + n)
    /\ posting' = r /\ window' = n
    /\ UNCHANGED <<log, acked>>

\* Mutant: the whole buffer is cleared, not the batch that was sent.
FlushClearsBuffer ==
    /\ posting # None /\ http[posting] = "ok"
    /\ acked' = Len(log)
    /\ http' = [http EXCEPT ![posting] = "free"]
    /\ posting' = None /\ window' = 0
    /\ UNCHANGED <<recordVars, launched, historyVars, txn, log>>

\* Mutant: one event too many is deleted.
FlushEvictsOneMore ==
    /\ posting # None /\ http[posting] = "ok"
    /\ acked' = acked + window + 1
    /\ http' = [http EXCEPT ![posting] = "free"]
    /\ posting' = None /\ window' = 0
    /\ UNCHANGED <<recordVars, launched, historyVars, txn, log>>

FlushSucceeds ==
    /\ posting # None /\ http[posting] = "ok"
    /\ acked' = acked + window
    /\ http' = [http EXCEPT ![posting] = "free"]
    /\ posting' = None /\ window' = 0
    /\ UNCHANGED <<recordVars, launched, historyVars, txn, log>>

\* Mutant: the batch is deleted before the outcome of the POST is known.
FlushFailsButEvicts ==
    /\ posting # None /\ http[posting] \in {"open", "ok", "error"}
    /\ acked' = acked + window
    /\ http' = [http EXCEPT ![posting] = "free"]
    /\ posting' = None /\ window' = 0
    /\ UNCHANGED <<recordVars, launched, historyVars, txn, log>>

\* An HTTP error status, a connection error, or the 10s timeout.
FlushFails ==
    /\ posting # None /\ http[posting] \in {"open", "ok", "error"}
    /\ http' = [http EXCEPT ![posting] = "free"]
    /\ posting' = None /\ window' = 0
    /\ UNCHANGED <<recordVars, launched, historyVars, txn, log, acked>>

Next ==
    \/ ControlPlaneNext /\ UNCHANGED bridgeVars
    \/ \E type \in EventTypes : RecordEvent(type)
    \/ \E r \in Requests, n \in 1 .. MaxEvents : FlushPost(r, n)
    \/ FlushSucceeds \/ FlushFails

Spec == Init /\ [][Next]_vars

-----------------------------------------------------------------------------
TypeOK ==
    /\ log \in Seq(EventTypes)
    /\ status \in Statuses \cup {None}
    /\ silent \in BOOLEAN /\ summary \in BOOLEAN /\ launched \in BOOLEAN
    /\ events \subseteq DOMAIN log /\ ignored \subseteq DOMAIN log
    /\ lost \subseteq DOMAIN log
    /\ txn \in [Txns -> TxnRecords]
    /\ http \in [Requests -> {"free", "open", "ok", "error"}]
    /\ acked \in Nat /\ window \in Nat /\ acked + window <= Len(log)
    /\ posting \in Requests \cup {None}

\* record_events completes an investigation only on a persisted summary and a
\* persisted investigation_finished event, however the handlers overlap, abort
\* or are repeated.
CompletedHasEvidence ==
    status = "completed" => /\ summary
                            /\ \E s \in events : log[s] = "finished"

\* What the control plane has answered for: committed, about to be committed,
\* declined for good, or lost with a commit that failed after the answer.
Kept ==
    events \cup ignored \cup lost
    \cup UNION {txn[r].ins : r \in {q \in Requests : txn[q].stage = "committing"}}

\* Every event the bridge has deleted from its buffer is persisted, held by the
\* handler that acknowledged it and is about to commit, or was ignored because
\* the record was terminal: only a failing commit can lose one.
AckedIsKept ==
    \A s \in 1 .. acked :
        \/ s \in events \cup ignored \cup lost
        \/ \E r \in Requests : txn[r].stage = "committing" /\ s \in txn[r].ins

Delivery == INSTANCE EventDelivery WITH Types <- EventTypes, delivered <- Kept

\* Whatever the handlers do to each other, posting delivers the events in order and
\* without a gap, and the bridge discards only what was delivered: windows start at
\* the first event that was not evicted.
DeliversInOrder == Delivery!Spec

\* The record is terminal and no transaction that read it open is left.
Settled ==
    /\ status \in Terminal
    /\ \A t \in Txns : \/ txn[t].stage \in {"idle", "received", "close"}
                       \/ txn[t].stage = "committing" /\ txn[t].target = None

\* Once the transactions that overlapped the one that ended the investigation
\* are gone, no retry, late batch, sweep or closing event changes its status.
SettledIsFinal == [][Settled => (Settled' /\ status' = status)]_vars

=============================================================================
