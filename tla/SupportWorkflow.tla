--------------------------- MODULE SupportWorkflow ---------------------------
(***************************************************************************)
(* The checkpointed support workflow.  A request (start, confirm, reject)  *)
(* builds a WorkflowService of its own, so the service's lock serializes   *)
(* nothing between requests.  The graph writes its checkpoint after every  *)
(* node, on a connection of its own; what its nodes do to the order and    *)
(* the tickets is in the request's session and committed after the answer. *)
(*                                                                         *)
(* LangGraph and its Postgres saver are external: a run continues from the *)
(* latest checkpoint, and a resume value is used only where the checkpoint *)
(* still waits for one.                                                    *)
(***************************************************************************)
EXTENDS Naturals, FiniteSets

CONSTANTS Requests, NoRequest,
          TransientFaults  \* a model or a retrieval may fail transiently

ASSUME WorkflowAssumption == NoRequest \notin Requests /\ TransientFaults \in BOOLEAN

MAX_NODE_ATTEMPTS == 2

VARIABLES
    case,        \* what the workflow is about: the intent, the actor, the reference
    order,       \* the committed status of the order
    orderLock,   \* the request whose uncommitted UPDATE holds the order's row
    checkpoint,  \* the latest checkpoint of the workflow
    expired,     \* its confirmation deadline has passed
    request,     \* the API requests
    decisions,   \* history: the requests whose decision the graph recorded
    refunds,     \* history: the requests whose refund is committed
    tickets,     \* history: the requests whose ticket is committed
    lostEffects  \* history: the requests answered whose commit failed

workflowVars == <<case, order, orderLock, checkpoint, expired, request,
                  decisions, refunds, tickets, lostEffects>>
historyVars  == <<decisions, refunds, tickets, lostEffects>>

\* A checkpoint: the node to run next, the status, the evidence, the decision.
Unstarted == [next |-> "none", status |-> "none", seen |-> "none", policy |-> FALSE,
              decision |-> "pending"]

Waiting == [pc |-> "idle", decision |-> "none", view |-> Unstarted, attempt |-> 0,
            ticket |-> FALSE, answer |-> "none"]

Situations == [intent : {"refund", "policy", "order_status", "escalate"},
          owner : BOOLEAN, reference : BOOLEAN, policy : BOOLEAN]

WorkflowInit ==
    /\ case \in Situations
    /\ order \in {"delivered", "shipped", "missing"}
    /\ orderLock = NoRequest
    /\ checkpoint = Unstarted
    /\ expired = FALSE
    /\ request = [r \in Requests |-> Waiting]
    /\ decisions = {} /\ refunds = {} /\ tickets = {} /\ lostEffects = {}

Runs(r, node) == request[r].pc = "running" /\ request[r].view.next = node

\* A node returns its delta: the state goes on and is checkpointed.
Delta(r, view) ==
    /\ checkpoint' = view
    /\ request' = [request EXCEPT ![r].view = view, ![r].attempt = 0]

Escalating(view) == [view EXCEPT !.next = "escalate", !.status = "escalating"]

\* A transient failure: tried again, then escalated.
Transient(r) ==
    /\ TransientFaults
    /\ IF request[r].attempt + 1 < MAX_NODE_ATTEMPTS
       THEN request' = [request EXCEPT ![r].attempt = @ + 1] /\ UNCHANGED checkpoint
       ELSE Delta(r, Escalating(request[r].view))

Pure == UNCHANGED <<case, order, orderLock, expired, historyVars>>

-----------------------------------------------------------------------------
(* start()                                                                  *)

StartWorkflow(r) ==
    /\ request[r].pc = "idle" /\ checkpoint = Unstarted
    /\ LET view == [Unstarted EXCEPT !.next = "route", !.status = "received"] IN
       /\ checkpoint' = view
       /\ request' = [request EXCEPT ![r] = [Waiting EXCEPT !.pc = "running", !.view = view]]
    /\ Pure

Routed == [refund |-> "retrieve_order", order_status |-> "retrieve_order",
           policy |-> "retrieve_policy", escalate |-> "escalate"]

RouteNode(r) ==
    /\ Runs(r, "route")
    /\ \/ Delta(r, [request[r].view EXCEPT !.next = Routed[case.intent], !.status = "routed"])
       \/ Transient(r)
    /\ Pure

AfterEvidence(view) ==
    IF case.intent # "refund" THEN "respond"
    ELSE IF view.policy THEN "propose_refund" ELSE "retrieve_policy"

Evidence(r, view) ==
    Delta(r, [view EXCEPT !.status = "evidence_ready", !.next = AfterEvidence(view)])

RetrieveOrderNode(r) ==
    /\ Runs(r, "retrieve_order")
    /\ \/ IF case.reference /\ order # "missing" /\ case.owner
          THEN Evidence(r, [request[r].view EXCEPT !.seen = order])
          ELSE Delta(r, Escalating(request[r].view))
       \/ case.reference /\ Transient(r)
    /\ Pure

RetrievePolicyNode(r) ==
    /\ Runs(r, "retrieve_policy")
    /\ \/ IF case.policy THEN Evidence(r, [request[r].view EXCEPT !.policy = TRUE])
          ELSE Delta(r, Escalating(request[r].view))
       \/ Transient(r)
    /\ Pure

\* Mutant: the proposal leads straight to the refund.
ProposeAndExecuteNode(r) ==
    /\ Runs(r, "propose_refund")
    /\ IF request[r].view.seen = "delivered"
       THEN Delta(r, [request[r].view EXCEPT !.next = "execute_refund", !.status = "confirmed"])
       ELSE Delta(r, Escalating(request[r].view))
    /\ Pure

\* The order it was shown, which may have changed since.
ProposeRefundNode(r) ==
    /\ Runs(r, "propose_refund")
    /\ IF request[r].view.seen = "delivered"
       THEN Delta(r, [request[r].view EXCEPT !.next = "confirmation", !.status = "awaiting_confirmation"])
       ELSE Delta(r, Escalating(request[r].view))
    /\ Pure

RespondNode(r) ==
    /\ Runs(r, "respond")
    /\ \/ Delta(r, [request[r].view EXCEPT !.next = "end", !.status = "completed"])
       \/ Transient(r)
    /\ Pure

\* Mutant: an escalation that creates no ticket.
EscalationWithoutTicket(r) ==
    /\ Runs(r, "escalate")
    /\ Delta(r, [request[r].view EXCEPT !.next = "end", !.status = "escalated"])
    /\ Pure

EscalationNode(r) ==
    /\ Runs(r, "escalate")
    /\ LET view == [request[r].view EXCEPT !.next = "end", !.status = "escalated"] IN
       /\ checkpoint' = view
       /\ request' = [request EXCEPT ![r].view = view, ![r].ticket = TRUE]
    /\ Pure

-----------------------------------------------------------------------------
(* confirm() and reject()                                                   *)

\* inspect: the deadline, the actor and the request id, and the interrupt.
Inspect(r, decision) ==
    /\ request[r].pc = "idle"
    /\ ~expired
    /\ checkpoint.status = "awaiting_confirmation" /\ checkpoint.next = "confirmation"
    /\ request' = [request EXCEPT ![r] = [Waiting EXCEPT !.pc = "inspected", !.decision = decision]]
    /\ UNCHANGED checkpoint /\ Pure

\* ainvoke(Command(resume)) loads whatever is the latest checkpoint by then.
Invoke(r) ==
    /\ request[r].pc = "inspected"
    /\ request' = [request EXCEPT ![r].pc = "running", ![r].view = checkpoint]
    /\ UNCHANGED checkpoint /\ Pure

ConfirmationNode(r) ==
    LET d == request[r].decision IN
    /\ Runs(r, "confirmation") /\ d # "none"
    /\ Delta(r, [request[r].view EXCEPT !.decision = d,
                     !.status = IF d = "confirm" THEN "confirmed" ELSE "rejected",
                     !.next = IF d = "confirm" THEN "execute_refund" ELSE "reject"])
    /\ decisions' = decisions \cup {r}
    /\ UNCHANGED <<case, order, orderLock, expired, refunds, tickets, lostEffects>>

\* Mutant: the order that was shown decides.
ExecuteRefundAsSeen(r) ==
    LET view == request[r].view IN
    /\ Runs(r, "execute_refund") /\ orderLock = NoRequest
    /\ orderLock' = r
    /\ Delta(r, [view EXCEPT !.next = "end", !.status = "completed", !.seen = "refunded"])
    /\ UNCHANGED <<case, order, expired, historyVars>>

\* request_refund: the order is read, then updated where it is still delivered;
\* the update waits for a transaction that holds the row.
ExecuteRefundNode(r) ==
    LET view == request[r].view IN
    /\ Runs(r, "execute_refund") /\ orderLock = NoRequest
    /\ IF order = "delivered" /\ case.owner
       THEN /\ orderLock' = r
            /\ Delta(r, [view EXCEPT !.next = "end", !.status = "completed", !.seen = "refunded"])
       ELSE /\ Delta(r, Escalating(view))
            /\ UNCHANGED orderLock
    /\ UNCHANGED <<case, order, expired, historyVars>>

RejectionNode(r) ==
    /\ Runs(r, "reject")
    /\ Delta(r, [request[r].view EXCEPT !.next = "end", !.status = "rejected"])
    /\ Pure

-----------------------------------------------------------------------------
(* The end of a request                                                     *)

\* aget_state: the answer is the latest checkpoint, whoever wrote it.
Answer(r) ==
    /\ request[r].pc = "running"
    /\ request[r].view.next = "end"
       \/ (request[r].view.next = "confirmation" /\ request[r].decision = "none")
    /\ request' = [request EXCEPT ![r].pc = "answered", ![r].answer = checkpoint.status]
    /\ UNCHANGED checkpoint /\ Pure

\* Mutant: a session that is not closed keeps its row.
EndsHoldingRow(r, pc) ==
    /\ request' = [request EXCEPT ![r].pc = pc, ![r].view = Unstarted, ![r].attempt = 0]
    /\ UNCHANGED orderLock

Ends(r, pc) ==
    /\ request' = [request EXCEPT ![r].pc = pc, ![r].view = Unstarted, ![r].attempt = 0]
    /\ orderLock' = IF orderLock = r THEN NoRequest ELSE orderLock

CommitRequest(r) ==
    /\ request[r].pc = "answered"
    /\ Ends(r, "done")
    /\ order'   = IF orderLock = r THEN "refunded" ELSE order
    /\ refunds' = IF orderLock = r THEN refunds \cup {r} ELSE refunds
    /\ tickets' = IF request[r].ticket THEN tickets \cup {r} ELSE tickets
    /\ UNCHANGED <<case, checkpoint, expired, decisions, lostEffects>>

\* An exception, a failed commit or the death of the process: the session is
\* rolled back, the checkpoints stay.
FailRequest(r) ==
    /\ request[r].pc \in {"inspected", "running", "answered"}
    /\ Ends(r, "failed")
    /\ lostEffects' = IF orderLock = r \/ request[r].ticket THEN lostEffects \cup {r} ELSE lostEffects
    /\ UNCHANGED <<case, order, checkpoint, expired, decisions, refunds, tickets>>

\* The deadline passes.
Expire ==
    /\ ~expired /\ checkpoint # Unstarted
    /\ expired' = TRUE
    /\ UNCHANGED <<case, order, orderLock, checkpoint, request, historyVars>>

\* Another request of the support domain refunds the order.
RefundElsewhere ==
    /\ order = "delivered" /\ orderLock = NoRequest
    /\ order' = "refunded"
    /\ refunds' = refunds \cup {NoRequest}
    /\ UNCHANGED <<case, orderLock, checkpoint, expired, request, decisions, tickets, lostEffects>>

RequestNext(r) ==
    \/ RouteNode(r) \/ RetrieveOrderNode(r) \/ RetrievePolicyNode(r) \/ ProposeRefundNode(r)
    \/ RespondNode(r) \/ EscalationNode(r)
    \/ Invoke(r) \/ ConfirmationNode(r) \/ ExecuteRefundNode(r) \/ RejectionNode(r)
    \/ Answer(r) \/ CommitRequest(r)

WorkflowNext ==
    \/ \E r \in Requests :
          \/ StartWorkflow(r)
          \/ \E d \in {"confirm", "reject"} : Inspect(r, d)
          \/ RequestNext(r)
          \/ FailRequest(r)
    \/ Expire \/ RefundElsewhere

\* A request that is running goes on: its model calls, its database statements and
\* its commit end.
WorkflowFairness == \A r \in Requests : WF_workflowVars(RequestNext(r))

WorkflowSpec == WorkflowInit /\ [][WorkflowNext]_workflowVars /\ WorkflowFairness

-----------------------------------------------------------------------------
WorkflowTypeOK ==
    /\ order \in {"delivered", "shipped", "missing", "refunded"}
    /\ orderLock \in Requests \cup {NoRequest}
    /\ checkpoint.next \in {"none", "route", "retrieve_order", "retrieve_policy", "propose_refund",
                            "confirmation", "execute_refund", "reject", "respond", "escalate", "end"}
    /\ \A r \in Requests :
          /\ request[r].pc \in {"idle", "inspected", "running", "answered", "done", "failed"}
          /\ request[r].attempt \in 0 .. MAX_NODE_ATTEMPTS - 1

\* An order is refunded at most once, whatever races: two confirms, a retry, or a
\* refund by another part of the system.
RefundedOnce ==
    /\ Cardinality(refunds) <= 1
    /\ order = "refunded" <=> refunds # {}
    /\ orderLock # NoRequest => refunds = {}

\* A refund by the workflow, committed or about to be, follows a confirm decision
\* that the graph recorded, for an order its actor owns.
RefundWasConfirmed ==
    refunds \cap Requests # {} \/ orderLock # NoRequest
    => /\ \E r \in decisions : request[r].decision = "confirm"
       /\ case.intent = "refund" /\ case.owner

\* Where only one decision was ever recorded, the checkpoint tells what happened:
\* a rejected workflow made no refund, a completed refund has one, an escalated
\* workflow has a ticket, unless the commit that would have carried it was lost.
Carriers(done) == refunds \cup tickets \cup lostEffects \cup done
CheckpointTellsTheEffect ==
    LET held == {r \in Requests : orderLock = r \/ request[r].ticket} IN
    /\ checkpoint.status = "rejected" /\ Cardinality(decisions) = 1
       => refunds \cap Requests = {} /\ orderLock = NoRequest
    /\ checkpoint.status = "escalated" \/ (checkpoint.status = "completed" /\ case.intent = "refund")
       => (Carriers(held) \cap Requests) # {}

\* Every request that got past its check is answered or fails, although requests
\* wait for each other's rows and go on from each other's checkpoints.
RequestsReturn ==
    \A r \in Requests :
        request[r].pc \in {"inspected", "running"} ~> request[r].pc \in {"done", "failed"}
=============================================================================
