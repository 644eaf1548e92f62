----------------------- MODULE SupportWorkflow_proofs -----------------------
(***************************************************************************)
(* The refund of the checkpointed workflow, for any number of requests:    *)
(* it happens once, a confirm decision that the graph recorded stands      *)
(* behind it, and the checkpoint tells the truth about it, however many    *)
(* requests go on from the same checkpoint.                                *)
(***************************************************************************)
EXTENDS SupportWorkflow, FiniteSetTheorems, TLAPS

USE WorkflowAssumption

Nodes == {"none", "route", "retrieve_order", "retrieve_policy", "propose_refund", "confirmation",
          "execute_refund", "reject", "respond", "escalate", "end"}
Statuses == {"none", "received", "routed", "evidence_ready", "awaiting_confirmation", "confirmed",
             "rejected", "completed", "escalating", "escalated"}
Views == [next : Nodes, status : Statuses,
          seen : {"none", "delivered", "shipped", "missing", "refunded"}, policy : BOOLEAN,
          decision : {"pending", "confirm", "reject", "none"}]
RequestRecords ==
    [pc : {"idle", "inspected", "running", "answered", "done", "failed"},
     decision : {"none", "confirm", "reject"}, view : Views, attempt : {0, 1},
     ticket : BOOLEAN, answer : Statuses]

WorkflowTypeInv ==
    /\ case \in Situations
    /\ order \in {"delivered", "shipped", "missing", "refunded"}
    /\ orderLock \in Requests \cup {NoRequest}
    /\ checkpoint \in Views
    /\ request \in [Requests -> RequestRecords]
    /\ decisions \subseteq Requests /\ IsFiniteSet(decisions)

\* The row of the order: who holds it found it delivered, and it stays so.
OrderInv ==
    /\ orderLock # NoRequest => order = "delivered"
    /\ order = "refunded" <=> refunds # {}
    /\ refunds = {} \/ \E r \in Requests \cup {NoRequest} : refunds = {r}

ConfirmRecorded == \E r \in decisions : request[r].decision = "confirm"

RejectRecorded  == \E r \in decisions : request[r].decision = "reject"

\* Some request of the workflow has committed its refund or its ticket, is about to,
\* or has lost it.
Carried ==
    \E r \in Requests : orderLock = r \/ request[r].ticket \/ r \in refunds \cup tickets \cup lostEffects

\* What a checkpoint's next node and its status tell of how the graph came there.
Reached(view) ==
    /\ view.next \in {"propose_refund", "confirmation", "execute_refund"} => case.intent = "refund"
    /\ view.next = "execute_refund" => ConfirmRecorded
    /\ view.next = "respond" => case.intent # "refund"
    /\ view.next = "reject" \/ view.status = "rejected" => RejectRecorded
    /\ view.status = "escalated" \/ (view.status = "completed" /\ case.intent = "refund") => Carried

GraphInv ==
    /\ Reached(checkpoint) /\ \A r \in Requests : Reached(request[r].view)
    /\ \A r \in decisions : request[r].pc # "idle"
    /\ \A r \in Requests : request[r].pc = "idle" => ~request[r].ticket
    /\ refunds \cap Requests # {} \/ orderLock # NoRequest =>
          ConfirmRecorded /\ case.intent = "refund" /\ case.owner

WorkflowInv == WorkflowTypeInv /\ OrderInv /\ GraphInv

LEMMA WorkflowInitInv == WorkflowInit => WorkflowInv
<1> SUFFICES ASSUME WorkflowInit PROVE WorkflowInv
  OBVIOUS
<1>1. Unstarted \in Views /\ Unstarted.next = "none" /\ Unstarted.status = "none"
  BY DEF Unstarted, Views, Nodes, Statuses
<1>2. Waiting \in RequestRecords /\ Waiting.view = Unstarted /\ ~Waiting.ticket
  BY <1>1 DEF Waiting, RequestRecords, Statuses
<1>3. WorkflowTypeInv
  BY <1>1, <1>2, FS_EmptySet DEF WorkflowInit, WorkflowTypeInv
<1>4. OrderInv
  BY DEF WorkflowInit, OrderInv
<1>5. GraphInv
  BY <1>1, <1>2 DEF WorkflowInit, GraphInv, Reached
<1> QED BY <1>3, <1>4, <1>5 DEF WorkflowInv

\* The views that the nodes make.
LEMMA EscalatingView ==
    ASSUME NEW view \in Views
    PROVE  Escalating(view) \in Views /\ Reached(Escalating(view))
<1>1. Escalating(view).next = "escalate" /\ Escalating(view).status = "escalating"
      /\ Escalating(view) \in Views
  BY DEF Escalating, Views, Nodes, Statuses
<1> QED BY <1>1 DEF Reached

LEMMA OwnView ==
    ASSUME WorkflowInv, NEW r \in Requests
    PROVE  request[r].view \in Views /\ Reached(request[r].view)
  BY DEF WorkflowInv, WorkflowTypeInv, GraphInv, RequestRecords

\* A request goes on to a view that the graph may have reached.
LEMMA GoingOn ==
    ASSUME WorkflowInv, Pure, NEW r \in Requests, NEW rec \in RequestRecords,
           request' = [request EXCEPT ![r] = rec],
           checkpoint' = checkpoint \/ checkpoint' = rec.view,
           \/ Reached(rec.view)
           \/ rec.view.next = "end" /\ rec.view.status = "escalated" /\ rec.ticket,
           rec.decision = request[r].decision \/ request[r].pc = "idle",
           request[r].ticket => rec.ticket,
           rec.pc # "idle"
    PROVE  WorkflowInv'
<1>1. WorkflowTypeInv'
  BY DEF WorkflowInv, WorkflowTypeInv, Pure, historyVars, RequestRecords
<1>2. OrderInv'
  BY DEF WorkflowInv, OrderInv, Pure, historyVars
<1>3. UNCHANGED <<case, orderLock, decisions, refunds, tickets, lostEffects>>
  BY DEF Pure, historyVars
<1>4. /\ request'[r] = rec
      /\ \A q \in Requests \ {r} : request'[q] = request[q]
  BY DEF WorkflowInv, WorkflowTypeInv
<1>5. /\ ConfirmRecorded => ConfirmRecorded'
      /\ RejectRecorded => RejectRecorded'
  BY <1>3, <1>4 DEF WorkflowInv, WorkflowTypeInv, GraphInv, ConfirmRecorded, RejectRecorded
<1>6. (Carried => Carried') /\ (rec.ticket => Carried')
  BY <1>3, <1>4 DEF Carried
<1>7. \A view : Reached(view) => Reached(view)'
  BY <1>3, <1>5, <1>6 DEF Reached
<1>8. Reached(rec.view)'
  BY <1>6, <1>7 DEF Reached
<1>9. Reached(checkpoint)'
  BY <1>7, <1>8 DEF WorkflowInv, GraphInv, Reached
<1>10. \A q \in Requests : Reached(request[q].view)'
  BY <1>4, <1>7, <1>8 DEF WorkflowInv, GraphInv, Reached
<1>11. GraphInv'
  BY <1>3, <1>4, <1>5, <1>9, <1>10 DEF WorkflowInv, WorkflowTypeInv, GraphInv
<1> QED BY <1>1, <1>2, <1>11 DEF WorkflowInv

\* A node's delta, and a transient failure.
LEMMA DeltaKeeps ==
    ASSUME WorkflowInv, Pure, NEW r \in Requests, NEW view \in Views, Reached(view),
           request[r].pc = "running", Delta(r, view)
    PROVE  WorkflowInv'
<1> DEFINE rec == [request[r] EXCEPT !.view = view, !.attempt = 0]
<1>1. rec \in RequestRecords /\ rec.view = view /\ rec.pc = "running"
      /\ rec.decision = request[r].decision /\ rec.ticket = request[r].ticket
  BY DEF WorkflowInv, WorkflowTypeInv, RequestRecords
<1>2. request' = [request EXCEPT ![r] = rec] /\ checkpoint' = view
  BY DEF Delta, WorkflowInv, WorkflowTypeInv, RequestRecords
<1> HIDE DEF rec
<1> QED BY <1>1, <1>2, GoingOn

LEMMA TransientKeeps ==
    ASSUME WorkflowInv, Pure, NEW r \in Requests, request[r].pc = "running", Transient(r)
    PROVE  WorkflowInv'
<1>1. CASE request[r].attempt + 1 < MAX_NODE_ATTEMPTS
  <2> DEFINE rec == [request[r] EXCEPT !.attempt = @ + 1]
  <2>1. rec \in RequestRecords /\ rec.view = request[r].view /\ rec.pc = "running"
        /\ rec.decision = request[r].decision /\ rec.ticket = request[r].ticket
    BY <1>1 DEF WorkflowInv, WorkflowTypeInv, RequestRecords, MAX_NODE_ATTEMPTS
  <2>2. request' = [request EXCEPT ![r] = rec] /\ checkpoint' = checkpoint
    BY <1>1 DEF Transient, WorkflowInv, WorkflowTypeInv, RequestRecords
  <2>3. Reached(request[r].view)
    BY DEF WorkflowInv, GraphInv
  <2> HIDE DEF rec
  <2> QED BY <2>1, <2>2, <2>3, GoingOn
<1>2. CASE ~(request[r].attempt + 1 < MAX_NODE_ATTEMPTS)
  <2>1. Delta(r, Escalating(request[r].view))
    BY <1>2 DEF Transient
  <2>2. Escalating(request[r].view) \in Views /\ Reached(Escalating(request[r].view))
    BY OwnView, EscalatingView
  <2> QED BY <2>1, <2>2, DeltaKeeps
<1> QED BY <1>1, <1>2

LEMMA EvidenceKeeps ==
    ASSUME WorkflowInv, Pure, NEW r \in Requests, NEW view \in Views,
           request[r].pc = "running", Evidence(r, view)
    PROVE  WorkflowInv'
<1> DEFINE to == [view EXCEPT !.status = "evidence_ready", !.next = AfterEvidence(view)]
<1>1. Delta(r, to)
  BY DEF Evidence
<1>2. AfterEvidence(view) \in {"respond", "propose_refund", "retrieve_policy"}
      /\ (AfterEvidence(view) = "propose_refund" => case.intent = "refund")
      /\ (AfterEvidence(view) = "respond" => case.intent # "refund")
  BY DEF AfterEvidence
<1>3. to \in Views /\ Reached(to)
  <2>1. to \in Views /\ to.next = AfterEvidence(view) /\ to.status = "evidence_ready"
    BY <1>2 DEF Views, Nodes, Statuses
  <2> QED BY <2>1, <1>2 DEF Reached
<1> QED BY <1>1, <1>3, DeltaKeeps

\* The nodes that touch nothing but the state of the graph.
LEMMA NodeStep ==
    ASSUME WorkflowInv, NEW r \in Requests,
           \/ RouteNode(r) \/ RetrieveOrderNode(r) \/ RetrievePolicyNode(r)
           \/ ProposeRefundNode(r) \/ RespondNode(r) \/ EscalationNode(r) \/ RejectionNode(r)
    PROVE  WorkflowInv'
<1> DEFINE view == request[r].view
<1>0. Pure /\ request[r].pc = "running"
  BY DEF RouteNode, RetrieveOrderNode, RetrievePolicyNode, ProposeRefundNode, RespondNode,
     EscalationNode, RejectionNode, Runs
<1>1. CASE RouteNode(r)
  <2>1. Routed[case.intent] \in {"retrieve_order", "retrieve_policy", "escalate"}
    BY DEF WorkflowInv, WorkflowTypeInv, Situations, Routed
  <2>2. CASE Delta(r, [view EXCEPT !.next = Routed[case.intent], !.status = "routed"])
    <3> DEFINE to == [view EXCEPT !.next = Routed[case.intent], !.status = "routed"]
    <3>1. to \in Views /\ to.next \in {"retrieve_order", "retrieve_policy", "escalate"}
          /\ to.status = "routed"
      BY <2>1, OwnView DEF Views, Nodes, Statuses
    <3>2. Reached(to)
      BY <3>1 DEF Reached
    <3> QED BY <1>0, <2>2, <3>1, <3>2, DeltaKeeps
  <2> QED BY <1>0, <1>1, <2>2, TransientKeeps DEF RouteNode
<1>2. CASE RetrieveOrderNode(r)
  <2>1. CASE Evidence(r, [view EXCEPT !.seen = order])
    <3>1. [view EXCEPT !.seen = order] \in Views
      BY OwnView DEF WorkflowInv, WorkflowTypeInv, Views
    <3> QED BY <1>0, <2>1, <3>1, EvidenceKeeps
  <2>2. CASE Delta(r, Escalating(view))
    BY <1>0, <2>2, OwnView, EscalatingView, DeltaKeeps
  <2> QED BY <1>0, <1>2, <2>1, <2>2, TransientKeeps DEF RetrieveOrderNode
<1>3. CASE RetrievePolicyNode(r)
  <2>1. CASE Evidence(r, [view EXCEPT !.policy = TRUE])
    <3>1. [view EXCEPT !.policy = TRUE] \in Views
      BY OwnView DEF Views
    <3> QED BY <1>0, <2>1, <3>1, EvidenceKeeps
  <2>2. CASE Delta(r, Escalating(view))
    BY <1>0, <2>2, OwnView, EscalatingView, DeltaKeeps
  <2> QED BY <1>0, <1>3, <2>1, <2>2, TransientKeeps DEF RetrievePolicyNode
<1>4. CASE ProposeRefundNode(r)
  <2> DEFINE to == [view EXCEPT !.next = "confirmation", !.status = "awaiting_confirmation"]
  <2>1. to \in Views /\ Reached(to)
    <3>1. to \in Views /\ to.next = "confirmation" /\ to.status = "awaiting_confirmation"
      BY OwnView DEF Views, Nodes, Statuses
    <3>2. case.intent = "refund"
      BY <1>4, OwnView DEF ProposeRefundNode, Runs, Reached
    <3> QED BY <3>1, <3>2 DEF Reached
  <2>2. CASE Delta(r, to)
    BY <1>0, <2>1, <2>2, DeltaKeeps
  <2>3. CASE Delta(r, Escalating(view))
    BY <1>0, <2>3, OwnView, EscalatingView, DeltaKeeps
  <2> QED BY <1>4, <2>2, <2>3 DEF ProposeRefundNode
<1>5. CASE RespondNode(r)
  <2>1. CASE Delta(r, [view EXCEPT !.next = "end", !.status = "completed"])
    <3> DEFINE to == [view EXCEPT !.next = "end", !.status = "completed"]
    <3>1. to \in Views /\ to.next = "end" /\ to.status = "completed"
      BY OwnView DEF Views, Nodes, Statuses
    <3>2. case.intent # "refund"
      BY <1>5, OwnView DEF RespondNode, Runs, Reached
    <3>3. Reached(to)
      BY <3>1, <3>2 DEF Reached
    <3> QED BY <1>0, <2>1, <3>1, <3>3, DeltaKeeps
  <2> QED BY <1>0, <1>5, <2>1, TransientKeeps DEF RespondNode
<1>6. CASE EscalationNode(r)
  <2> DEFINE to == [view EXCEPT !.next = "end", !.status = "escalated"]
             rec == [request[r] EXCEPT !.view = to, !.ticket = TRUE]
  <2>1. to \in Views /\ to.next = "end" /\ to.status = "escalated"
    BY OwnView DEF Views, Nodes, Statuses
  <2> HIDE DEF to
  <2>2. rec \in RequestRecords /\ rec.view = to /\ rec.pc = "running"
        /\ rec.decision = request[r].decision /\ rec.ticket
    BY <1>0, <2>1 DEF WorkflowInv, WorkflowTypeInv, RequestRecords
  <2>3. request' = [request EXCEPT ![r] = rec] /\ checkpoint' = to
    BY <1>6 DEF EscalationNode, WorkflowInv, WorkflowTypeInv, RequestRecords, to
  <2> HIDE DEF rec
  <2> QED BY <1>0, <2>1, <2>2, <2>3, GoingOn
<1>7. CASE RejectionNode(r)
  <2> DEFINE to == [view EXCEPT !.next = "end", !.status = "rejected"]
  <2>1. to \in Views /\ to.next = "end" /\ to.status = "rejected"
    BY OwnView DEF Views, Nodes, Statuses
  <2>2. RejectRecorded
    BY <1>7, OwnView DEF RejectionNode, Runs, Reached
  <2>3. Reached(to)
    BY <2>1, <2>2 DEF Reached
  <2> QED BY <1>0, <1>7, <2>1, <2>3, DeltaKeeps DEF RejectionNode
<1> QED BY <1>1, <1>2, <1>3, <1>4, <1>5, <1>6, <1>7
\* A request that starts, resumes or is answered.
LEMMA RequestStep ==
    ASSUME WorkflowInv, NEW r \in Requests,
           \/ StartWorkflow(r) \/ (\E d \in {"confirm", "reject"} : Inspect(r, d))
           \/ Invoke(r) \/ Answer(r)
    PROVE  WorkflowInv'
<1>1. CASE StartWorkflow(r)
  <2> DEFINE to == [Unstarted EXCEPT !.next = "route", !.status = "received"]
             rec == [Waiting EXCEPT !.pc = "running", !.view = to]
  <2>1. to \in Views /\ to.next = "route" /\ to.status = "received"
    BY DEF Unstarted, Views, Nodes, Statuses
  <2>2. Reached(to)
    BY <2>1 DEF Reached
  <2> HIDE DEF to
  <2>3. rec \in RequestRecords /\ rec.view = to /\ rec.pc = "running"
    BY <2>1 DEF Waiting, RequestRecords, Statuses
  <2>4. /\ request' = [request EXCEPT ![r] = rec] /\ checkpoint' = to
        /\ request[r].pc = "idle" /\ Pure
    BY <1>1 DEF StartWorkflow, to
  <2>5. ~request[r].ticket
    BY <2>4 DEF WorkflowInv, GraphInv
  <2> HIDE DEF rec
  <2> QED BY <2>1, <2>2, <2>3, <2>4, <2>5, GoingOn
<1>2. ASSUME NEW d \in {"confirm", "reject"}, Inspect(r, d) PROVE WorkflowInv'
  <2> DEFINE rec == [Waiting EXCEPT !.pc = "inspected", !.decision = d]
  <2>1. Unstarted \in Views /\ Unstarted.next = "none" /\ Unstarted.status = "none"
    BY DEF Unstarted, Views, Nodes, Statuses
  <2>2. rec \in RequestRecords /\ rec.view = Unstarted /\ rec.pc = "inspected"
    BY <2>1 DEF Waiting, RequestRecords, Statuses
  <2>3. Reached(Unstarted)
    BY <2>1 DEF Reached
  <2>4. /\ request' = [request EXCEPT ![r] = rec] /\ checkpoint' = checkpoint
        /\ request[r].pc = "idle" /\ Pure
    BY <1>2 DEF Inspect
  <2>5. ~request[r].ticket
    BY <2>4 DEF WorkflowInv, GraphInv
  <2> HIDE DEF rec
  <2> QED BY <2>2, <2>3, <2>4, <2>5, GoingOn
<1>3. CASE Invoke(r)
  <2> DEFINE rec == [request[r] EXCEPT !.pc = "running", !.view = checkpoint]
  <2>1. rec \in RequestRecords /\ rec.view = checkpoint /\ rec.pc = "running"
        /\ rec.decision = request[r].decision /\ rec.ticket = request[r].ticket
    BY DEF WorkflowInv, WorkflowTypeInv, RequestRecords
  <2>2. request' = [request EXCEPT ![r] = rec] /\ checkpoint' = checkpoint /\ Pure
    BY <1>3 DEF Invoke, WorkflowInv, WorkflowTypeInv, RequestRecords
  <2>3. Reached(checkpoint)
    BY DEF WorkflowInv, GraphInv
  <2> HIDE DEF rec
  <2> QED BY <2>1, <2>2, <2>3, GoingOn
<1>4. CASE Answer(r)
  <2> DEFINE rec == [request[r] EXCEPT !.pc = "answered", !.answer = checkpoint.status]
  <2>1. rec \in RequestRecords /\ rec.view = request[r].view /\ rec.pc = "answered"
        /\ rec.decision = request[r].decision /\ rec.ticket = request[r].ticket
    <3>1. checkpoint.status \in Statuses
      BY DEF WorkflowInv, WorkflowTypeInv, Views
    <3> QED BY <3>1 DEF WorkflowInv, WorkflowTypeInv, RequestRecords
  <2>2. request' = [request EXCEPT ![r] = rec] /\ checkpoint' = checkpoint /\ Pure
    BY <1>4 DEF Answer, WorkflowInv, WorkflowTypeInv, RequestRecords
  <2> HIDE DEF rec
  <2> QED BY <2>1, <2>2, OwnView, GoingOn
<1> QED BY <1>1, <1>2, <1>3, <1>4

\* The decision is recorded with the checkpoint that follows it.
LEMMA ConfirmationStep ==
    ASSUME WorkflowInv, NEW r \in Requests, ConfirmationNode(r)
    PROVE  WorkflowInv'
<1> DEFINE d == request[r].decision
           to == [request[r].view EXCEPT !.decision = d,
                     !.status = IF d = "confirm" THEN "confirmed" ELSE "rejected",
                     !.next = IF d = "confirm" THEN "execute_refund" ELSE "reject"]
           rec == [request[r] EXCEPT !.view = to, !.attempt = 0]
<1>1. /\ request[r].pc = "running" /\ d \in {"confirm", "reject"}
      /\ decisions' = decisions \cup {r}
      /\ UNCHANGED <<case, order, orderLock, refunds, tickets, lostEffects>>
  BY DEF ConfirmationNode, Runs, WorkflowInv, WorkflowTypeInv, RequestRecords
<1>2. case.intent = "refund"
  BY OwnView DEF ConfirmationNode, Runs, Reached
<1>3. to \in Views /\ to.next = (IF d = "confirm" THEN "execute_refund" ELSE "reject")
      /\ to.status = (IF d = "confirm" THEN "confirmed" ELSE "rejected")
  BY <1>1, OwnView DEF Views, Nodes, Statuses
<1> HIDE DEF to
<1>4. rec \in RequestRecords /\ rec.view = to /\ rec.pc = "running" /\ rec.decision = d
      /\ rec.ticket = request[r].ticket
  BY <1>1, <1>3 DEF WorkflowInv, WorkflowTypeInv, RequestRecords
<1>5. request' = [request EXCEPT ![r] = rec] /\ checkpoint' = to
  BY DEF ConfirmationNode, Delta, WorkflowInv, WorkflowTypeInv, RequestRecords, to
<1> HIDE DEF rec
<1>6. WorkflowTypeInv'
  BY <1>1, <1>3, <1>4, <1>5, FS_AddElement DEF WorkflowInv, WorkflowTypeInv
<1>7. OrderInv'
  BY <1>1 DEF WorkflowInv, OrderInv
<1>8. request'[r] = rec /\ \A q \in Requests \ {r} : request'[q] = request[q]
  BY <1>5 DEF WorkflowInv, WorkflowTypeInv
<1>9. /\ ConfirmRecorded \/ d = "confirm" => ConfirmRecorded'
      /\ RejectRecorded \/ d = "reject" => RejectRecorded'
  <2>1. request'[r].decision = d /\ r \in decisions' /\ decisions \subseteq decisions'
    BY <1>1, <1>4, <1>8
  <2>2. \A q \in decisions : request'[q].decision = request[q].decision
    BY <1>8, <2>1 DEF WorkflowInv, WorkflowTypeInv
  <2> QED BY <2>1, <2>2 DEF ConfirmRecorded, RejectRecorded
<1>10. Carried => Carried'
  BY <1>1, <1>4, <1>8 DEF Carried
<1>11. \A view : Reached(view) => Reached(view)'
  BY <1>1, <1>9, <1>10 DEF Reached
<1>12. Reached(checkpoint)' /\ Reached(request[r].view)'
  BY <1>1, <1>2, <1>3, <1>4, <1>5, <1>8, <1>9 DEF Reached
<1>13. ASSUME NEW q \in Requests \ {r} PROVE Reached(request[q].view)'
  <2>1. Reached(request[q].view) /\ request'[q] = request[q]
    BY <1>8 DEF WorkflowInv, GraphInv
  <2> QED BY <1>11, <2>1 DEF Reached
<1>14. \A q \in Requests : Reached(request[q].view)'
  BY <1>12, <1>13
<1>15. GraphInv'
  BY <1>1, <1>4, <1>5, <1>8, <1>9, <1>12, <1>14 DEF WorkflowInv, GraphInv
<1> QED BY <1>6, <1>7, <1>15 DEF WorkflowInv

\* The refund's UPDATE, and its failing precondition.
LEMMA ExecutionStep ==
    ASSUME WorkflowInv, NEW r \in Requests, ExecuteRefundNode(r)
    PROVE  WorkflowInv'
<1> DEFINE view == request[r].view
<1>0. request[r].pc = "running" /\ view.next = "execute_refund" /\ orderLock = NoRequest
  BY DEF ExecuteRefundNode, Runs
<1>1. CASE order = "delivered" /\ case.owner
  <2> DEFINE to == [view EXCEPT !.next = "end", !.status = "completed", !.seen = "refunded"]
             rec == [request[r] EXCEPT !.view = to, !.attempt = 0]
  <2>1. to \in Views /\ to.next = "end" /\ to.status = "completed"
    BY OwnView DEF Views, Nodes, Statuses
  <2> HIDE DEF to
  <2>2. rec \in RequestRecords /\ rec.view = to /\ rec.pc = "running"
        /\ rec.decision = request[r].decision /\ rec.ticket = request[r].ticket
    BY <1>0, <2>1 DEF WorkflowInv, WorkflowTypeInv, RequestRecords
  <2>3. /\ request' = [request EXCEPT ![r] = rec] /\ checkpoint' = to /\ orderLock' = r
        /\ UNCHANGED <<case, order, decisions, refunds, tickets, lostEffects>>
    BY <1>1 DEF ExecuteRefundNode, Delta, historyVars, WorkflowInv, WorkflowTypeInv,
       RequestRecords, to
  <2> HIDE DEF rec
  <2>4. WorkflowTypeInv'
    BY <2>1, <2>2, <2>3 DEF WorkflowInv, WorkflowTypeInv
  <2>5. OrderInv'
    BY <1>1, <2>3 DEF WorkflowInv, OrderInv
  <2>6. ConfirmRecorded /\ case.intent = "refund"
    BY <1>0, OwnView DEF Reached
  <2>7. request'[r] = rec /\ \A q \in Requests \ {r} : request'[q] = request[q]
    BY <2>3 DEF WorkflowInv, WorkflowTypeInv
  <2>8. ConfirmRecorded' /\ (RejectRecorded => RejectRecorded')
    <3>1. \A q \in Requests : request'[q].decision = request[q].decision
      BY <2>2, <2>7
    <3> QED BY <2>3, <2>6, <3>1 DEF WorkflowInv, WorkflowTypeInv, ConfirmRecorded, RejectRecorded
  <2>9. Carried'
    BY <2>3 DEF Carried
  <2>10. \A v : Reached(v) => Reached(v)'
    BY <2>3, <2>8, <2>9 DEF Reached
  <2>11. Reached(checkpoint)' /\ Reached(request[r].view)'
    BY <2>1, <2>2, <2>3, <2>7, <2>9 DEF Reached
  <2>12. Reached(checkpoint)' /\ \A q \in Requests : Reached(request[q].view)'
    <3>1. ASSUME NEW q \in Requests \ {r} PROVE Reached(request[q].view)'
      <4>1. Reached(request[q].view) /\ request'[q] = request[q]
        BY <2>7 DEF WorkflowInv, GraphInv
      <4> QED BY <2>10, <4>1 DEF Reached
    <3> QED BY <2>11, <3>1
  <2>13. GraphInv'
    BY <1>1, <2>2, <2>3, <2>6, <2>7, <2>8, <2>12, <1>0 DEF WorkflowInv, GraphInv
  <2> QED BY <2>4, <2>5, <2>13 DEF WorkflowInv
<1>2. CASE ~(order = "delivered" /\ case.owner)
  BY <1>0, <1>2, OwnView, EscalatingView, DeltaKeeps DEF ExecuteRefundNode, Pure
<1> QED BY <1>1, <1>2

\* The end of a request frees the order's row, with or without the refund.
LEMMA EndStep ==
    ASSUME WorkflowInv, NEW r \in Requests, CommitRequest(r) \/ FailRequest(r)
    PROVE  WorkflowInv'
<1>1. PICK pc \in {"done", "failed"} : Ends(r, pc)
  BY DEF CommitRequest, FailRequest
<1> DEFINE rec == [request[r] EXCEPT !.pc = pc, !.view = Unstarted, !.attempt = 0]
<1>2. Unstarted \in Views /\ Unstarted.next = "none" /\ Unstarted.status = "none"
  BY DEF Unstarted, Views, Nodes, Statuses
<1>3. rec \in RequestRecords /\ rec.view = Unstarted /\ rec.pc = pc
      /\ rec.decision = request[r].decision /\ rec.ticket = request[r].ticket
  BY <1>2 DEF WorkflowInv, WorkflowTypeInv, RequestRecords
<1>4. /\ request' = [request EXCEPT ![r] = rec]
      /\ orderLock' = IF orderLock = r THEN NoRequest ELSE orderLock
      /\ UNCHANGED <<case, checkpoint, decisions>>
      /\ \/ UNCHANGED <<order, refunds>>
         \/ orderLock = r /\ order' = "refunded" /\ refunds' = refunds \cup {r}
      /\ refunds \subseteq refunds' /\ tickets \subseteq tickets' /\ lostEffects \subseteq lostEffects'
      /\ orderLock = r => r \in refunds' \cup lostEffects'
  BY <1>1 DEF Ends, CommitRequest, FailRequest, WorkflowInv, WorkflowTypeInv, RequestRecords
<1> HIDE DEF rec
<1>5. WorkflowTypeInv'
  BY <1>3, <1>4 DEF WorkflowInv, WorkflowTypeInv
<1>6. OrderInv'
  <2>1. orderLock = r => refunds = {}
    BY DEF WorkflowInv, WorkflowTypeInv, OrderInv
  <2> QED BY <1>4, <2>1 DEF WorkflowInv, WorkflowTypeInv, OrderInv
<1>7. request'[r] = rec /\ \A q \in Requests \ {r} : request'[q] = request[q]
  BY <1>4 DEF WorkflowInv, WorkflowTypeInv
<1>8. /\ ConfirmRecorded => ConfirmRecorded'
      /\ RejectRecorded => RejectRecorded'
  <2>1. \A q \in Requests : request'[q].decision = request[q].decision
    BY <1>3, <1>7
  <2> QED BY <1>4, <2>1 DEF WorkflowInv, WorkflowTypeInv, ConfirmRecorded, RejectRecorded
<1>9. Carried => Carried'
  <2>1. \A q \in Requests : request[q].ticket => request'[q].ticket
    BY <1>3, <1>7
  <2>2. \A q \in Requests : orderLock = q => orderLock' = q \/ q \in refunds' \cup lostEffects'
    BY <1>4
  <2> QED BY <1>4, <2>1, <2>2 DEF Carried
<1>10. Reached(checkpoint)' /\ \A q \in Requests : Reached(request[q].view)'
  <2>1. \A view : Reached(view) => Reached(view)'
    BY <1>4, <1>8, <1>9 DEF Reached
  <2>2. Reached(Unstarted)'
    BY <1>2 DEF Reached
  <2> QED BY <1>3, <1>4, <1>7, <2>1, <2>2 DEF WorkflowInv, GraphInv, Reached
<1>11. refunds' \cap Requests # {} \/ orderLock' # NoRequest =>
           refunds \cap Requests # {} \/ orderLock # NoRequest
  BY <1>4
<1>12. GraphInv'
  BY <1>3, <1>4, <1>7, <1>8, <1>10, <1>11 DEF WorkflowInv, WorkflowTypeInv, GraphInv
<1> QED BY <1>5, <1>6, <1>12 DEF WorkflowInv

LEMMA WorldStep ==
    ASSUME WorkflowInv, Expire \/ RefundElsewhere \/ UNCHANGED workflowVars
    PROVE  WorkflowInv'
<1>1. /\ UNCHANGED <<case, orderLock, checkpoint, request, decisions, tickets, lostEffects>>
      /\ \/ UNCHANGED <<order, refunds>>
         \/ /\ order = "delivered" /\ orderLock = NoRequest
            /\ order' = "refunded" /\ refunds' = refunds \cup {NoRequest}
  BY DEF Expire, RefundElsewhere, workflowVars, historyVars
<1>2. WorkflowTypeInv' /\ OrderInv'
  BY <1>1 DEF WorkflowInv, WorkflowTypeInv, OrderInv
<1>3. /\ ConfirmRecorded' <=> ConfirmRecorded
      /\ RejectRecorded' <=> RejectRecorded
      /\ Carried => Carried'
  BY <1>1 DEF ConfirmRecorded, RejectRecorded, Carried
<1>4. \A view : Reached(view) => Reached(view)'
  BY <1>1, <1>3 DEF Reached
<1>5. Reached(checkpoint)' /\ \A q \in Requests : Reached(request[q].view)'
  BY <1>1, <1>4 DEF WorkflowInv, GraphInv, Reached
<1>6. GraphInv'
  BY <1>1, <1>3, <1>5 DEF WorkflowInv, GraphInv
<1> QED BY <1>2, <1>6 DEF WorkflowInv

LEMMA WorkflowInvariant == WorkflowSpec => []WorkflowInv
<1>1. WorkflowInv /\ [WorkflowNext]_workflowVars => WorkflowInv'
  BY NodeStep, RequestStep, ConfirmationStep, ExecutionStep, EndStep, WorldStep
  DEF WorkflowNext, RequestNext
<1> QED BY <1>1, WorkflowInitInv, PTL DEF WorkflowSpec

\* request_refund repays an order at most once, whoever else resumes the workflow or
\* refunds the order elsewhere.
THEOREM OrderIsRefundedOnce == WorkflowSpec => []RefundedOnce
<1>1. WorkflowInv => RefundedOnce
  <2> SUFFICES ASSUME WorkflowInv PROVE RefundedOnce
    OBVIOUS
  <2>1. Cardinality(refunds) <= 1
    <3>1. CASE refunds = {}
      BY <3>1, FS_EmptySet
    <3>2. ASSUME NEW r, refunds = {r} PROVE Cardinality(refunds) <= 1
      BY <3>2, FS_Singleton
    <3> QED BY <3>1, <3>2 DEF WorkflowInv, OrderInv
  <2> QED BY <2>1 DEF WorkflowInv, OrderInv, RefundedOnce
<1> QED BY <1>1, WorkflowInvariant, PTL

\* No refund by the workflow without a recorded confirm decision, for an order that is
\* not its actor's, or in a workflow about something else.
THEOREM RefundIsConfirmed == WorkflowSpec => []RefundWasConfirmed
<1>1. WorkflowInv => RefundWasConfirmed
  BY DEF WorkflowInv, GraphInv, ConfirmRecorded, RefundWasConfirmed
<1> QED BY <1>1, WorkflowInvariant, PTL

\* The checkpoint that answers a request is true of the effects: whoever reads
\* "rejected" after one decision, "completed" or "escalated" is not deceived.
THEOREM CheckpointIsTrue == WorkflowSpec => []CheckpointTellsTheEffect
<1>1. WorkflowInv => CheckpointTellsTheEffect
  <2> SUFFICES ASSUME WorkflowInv PROVE CheckpointTellsTheEffect
    OBVIOUS
  <2>1. ASSUME checkpoint.status = "rejected", Cardinality(decisions) = 1
        PROVE  refunds \cap Requests = {} /\ orderLock = NoRequest
    <3>1. PICK q \in decisions : request[q].decision = "reject"
      BY <2>1 DEF WorkflowInv, GraphInv, Reached, RejectRecorded
    <3>2. ASSUME NEW p \in decisions, request[p].decision = "confirm" PROVE FALSE
      <4>1. IsFiniteSet(decisions) /\ {p, q} \subseteq decisions /\ p # q
        BY <3>1, <3>2 DEF WorkflowInv, WorkflowTypeInv
      <4>2. Cardinality({p, q}) <= 1
        BY <2>1, <4>1, FS_Subset
      <4>3. Cardinality({p}) = 1 /\ IsFiniteSet({p}) /\ {p, q} = {p} \cup {q} /\ q \notin {p}
        BY <4>1, FS_Singleton
      <4>4. Cardinality({p, q}) = 2
        <5>1. Cardinality({p} \cup {q}) = Cardinality({p}) + 1
          BY <4>3, FS_AddElement
        <5> QED BY <4>3, <5>1
      <4> QED BY <4>2, <4>4
    <3>3. ~ConfirmRecorded
      BY <3>2 DEF ConfirmRecorded
    <3> QED BY <3>3 DEF WorkflowInv, GraphInv
  <2>2. ASSUME checkpoint.status = "escalated" \/ (checkpoint.status = "completed" /\ case.intent = "refund")
        PROVE  Carriers({r \in Requests : orderLock = r \/ request[r].ticket}) \cap Requests # {}
    BY <2>2 DEF WorkflowInv, GraphInv, Reached, Carried, Carriers
  <2> QED BY <2>1, <2>2 DEF CheckpointTellsTheEffect
<1> QED BY <1>1, WorkflowInvariant, PTL

\* Order, lock, checkpoint and requests stay well-typed, and no node runs more often
\* than the graph's RETRY_POLICY allows.
THEOREM WorkflowTypes == WorkflowSpec => []WorkflowTypeOK
<1>1. WorkflowInv => WorkflowTypeOK
  <2> SUFFICES ASSUME WorkflowInv PROVE WorkflowTypeOK
    OBVIOUS
  <2>1. checkpoint.next \in Nodes
    BY DEF WorkflowInv, WorkflowTypeInv, Views
  <2>2. \A r \in Requests : request[r].attempt \in {0, 1}
          /\ request[r].pc \in {"idle", "inspected", "running", "answered", "done", "failed"}
    BY DEF WorkflowInv, WorkflowTypeInv, RequestRecords
  <2>3. {0, 1} = 0 .. MAX_NODE_ATTEMPTS - 1
    BY DEF MAX_NODE_ATTEMPTS
  <2> QED BY <2>1, <2>2, <2>3 DEF WorkflowInv, WorkflowTypeInv, WorkflowTypeOK, Nodes
<1> QED BY <1>1, WorkflowInvariant, PTL
=============================================================================
