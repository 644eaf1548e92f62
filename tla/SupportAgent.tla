---------------------------- MODULE SupportAgent ----------------------------
(***************************************************************************)
(* One turn of the support agent after another (POST /agent/turns): the    *)
(* routing, the tools the model may call in any order and on any order id, *)
(* the refund that is executed after the model's answer, the response that *)
(* is assembled from what the service remembers, and the commit after it.  *)
(*                                                                         *)
(* The model is external: it may call any tool of its intent, draft an     *)
(* answer of any intent, or fail.  Other requests refund orders meanwhile. *)
(* A session keeps a row only as long as somebody holds it, so every look  *)
(* at an order is a SELECT of its own.                                     *)
(***************************************************************************)
EXTENDS Naturals

CONSTANTS Orders, NoOrder

ASSUME AgentAssumption == NoOrder \notin Orders

VARIABLES
    turn,      \* the request, the service's memory, the response
    book,      \* the committed status of each order, "foreign" when not the customer's
    repaid     \* history: the committed refunds of each order

agentVars == <<turn, book, repaid>>

Intents == {"order_status", "policy", "refund", "escalate"}

\* TOOLS_BY_INTENT
ToolsByIntent ==
    [order_status |-> {"get_order_status", "escalate"}, policy |-> {"get_policy", "escalate"},
     refund |-> {"get_order_status", "propose_refund", "confirm_refund", "escalate"}, escalate |-> {}]

NewTurn(confirmed) ==
    [pc |-> "route", refundConfirmed |-> confirmed, intent |-> "none", order |-> NoOrder,
     pending |-> {}, asked |-> NoOrder, confirmedIds |-> {}, lastOrder |-> NoOrder,
     lastError |-> "none", grounded |-> FALSE, ticket |-> FALSE, draft |-> "none", reason |-> "none"]

AgentInit ==
    /\ book \in [Orders -> {"delivered", "shipped", "missing", "foreign"}]
    /\ \E confirmed \in BOOLEAN : turn = NewTurn(confirmed)
    /\ repaid = [o \in Orders |-> 0]

Remember(t) == turn' = t /\ UNCHANGED <<book, repaid>>

Respond(t, reason) == Remember([t EXCEPT !.pc = "answered", !.reason = reason])

-----------------------------------------------------------------------------
(* _route and plan_turn                                                     *)

Route(intent, o) ==
    LET t == [turn EXCEPT !.intent = intent, !.order = o] IN
    /\ turn.pc = "route"
    /\ CASE intent = "escalate" -> Respond([t EXCEPT !.ticket = TRUE], "escalated")
         [] intent \in {"order_status", "refund"} /\ o = NoOrder ->
                Respond([t EXCEPT !.ticket = TRUE], "missing_reference")
         [] OTHER -> Remember([t EXCEPT !.pc = "answer"])

\* The routing or the answering model raises, runs into its usage limit, or calls a
\* tool that times out and has no retry left.
ModelFails ==
    /\ turn.pc \in {"route", "answer"}
    /\ Respond(turn, "model_error")

-----------------------------------------------------------------------------
(* The tools                                                                *)

MayCall(tool) ==
    turn.pc = "answer" /\ turn.asked = NoOrder /\ tool \in ToolsByIntent[turn.intent]

\* The turn's transaction sees its own UPDATEs, and what others have committed.
Fetched(o) == IF o \in turn.confirmedIds THEN "refunded" ELSE book[o]
Own(o)     == Fetched(o) \notin {"missing", "foreign"}

GetOrderStatus(o) ==
    /\ MayCall("get_order_status")
    /\ Remember(IF Own(o) THEN [turn EXCEPT !.lastOrder = o] ELSE turn)

GetPolicy ==
    /\ MayCall("get_policy")
    /\ \E accepted \in BOOLEAN : Remember([turn EXCEPT !.grounded = accepted])

ProposalError(o) ==
    CASE Fetched(o) = "missing" -> "order_not_found"
      [] Fetched(o) = "foreign" -> "refund_blocked_forbidden"
      [] Fetched(o) = "delivered" -> "none"
      [] OTHER -> "refund_blocked_ineligible"

ProposeRefund(o) ==
    /\ MayCall("propose_refund")
    /\ Remember([turn EXCEPT
           !.lastError = ProposalError(o),
           !.lastOrder = IF Own(o) THEN o ELSE @,
           !.pending   = IF Fetched(o) = "delivered" THEN @ \cup {o} ELSE @])

Executable(o) == o \in turn.pending /\ turn.refundConfirmed

\* request_refund reads the order first.
ConfirmRefund(o) ==
    /\ MayCall("confirm_refund")
    /\ \/ /\ ~Executable(o)
          /\ Remember([turn EXCEPT !.lastError = "refund_blocked_unconfirmed"])
       \/ /\ Executable(o)
          /\ Remember(IF Fetched(o) = "delivered" THEN [turn EXCEPT !.asked = o] ELSE turn)

\* Mutant: an UPDATE without the condition on the status.
RefundableAsRead(o) == turn.asked = o

\* The condition of refund_order_if_delivered's UPDATE.
Refundable(o) == Fetched(o) = "delivered"

Refunded(o) == [turn EXCEPT !.pending = @ \ {o}, !.confirmedIds = @ \cup {o}, !.asked = NoOrder,
                            !.lastOrder = o, !.lastError = "none"]

RefundRow(o) ==
    /\ turn.pc = "answer" /\ turn.asked = o
    /\ Remember(IF Refundable(o) THEN Refunded(o) ELSE [turn EXCEPT !.asked = NoOrder])

Escalate ==
    /\ MayCall("escalate")
    /\ Remember([turn EXCEPT !.ticket = TRUE])

-----------------------------------------------------------------------------
(* _answer and _assemble                                                    *)

ConfirmedRefundFor(t, o) == o \in t.confirmedIds /\ t.lastOrder = o

ReasonFor(t, draft) ==
    CASE draft = "order_status" -> IF t.lastOrder = NoOrder THEN "order_not_found" ELSE "order_status_ok"
      [] draft = "policy" -> IF t.grounded THEN "policy_answer" ELSE "policy_answer_ungrounded"
      [] draft = "escalate" -> IF t.ticket THEN "escalated" ELSE "tool_error"
      [] draft = "refund" /\ ConfirmedRefundFor(t, t.order) -> "refund_confirmed"
      [] draft = "refund" /\ ~ConfirmedRefundFor(t, t.order) ->
            IF t.order \in t.pending THEN "refund_proposed"
            ELSE IF t.lastError # "none" THEN t.lastError ELSE "refund_blocked_unconfirmed"

\* The confirmed refund that the model proposed and did not execute.
Owed == turn.intent = "refund" /\ Executable(turn.order) /\ ~ConfirmedRefundFor(turn, turn.order)

ModelAnswers(draft) ==
    /\ turn.pc = "answer" /\ turn.asked = NoOrder
    /\ IF Owed THEN Remember([turn EXCEPT !.pc = "confirm", !.draft = draft])
               ELSE Respond(turn, ReasonFor(turn, draft))

\* The same refund after the answer; an error of it leaves the turn, and the session is
\* rolled back.
ReadAfterAnswer ==
    /\ turn.pc = "confirm" /\ turn.asked = NoOrder
    /\ Remember(IF Fetched(turn.order) = "delivered" THEN [turn EXCEPT !.asked = turn.order]
                                                     ELSE [turn EXCEPT !.pc = "raised"])

ConfirmAfterAnswer ==
    LET o == turn.order IN
    /\ turn.pc = "confirm" /\ turn.asked = o
    /\ IF Refundable(o) THEN Respond(Refunded(o), ReasonFor(Refunded(o), turn.draft))
                        ELSE Remember([turn EXCEPT !.pc = "raised"])

-----------------------------------------------------------------------------
(* The session, the next turn, other requests                               *)

CommitTurn ==
    /\ turn.pc = "answered"
    /\ turn' = [turn EXCEPT !.pc = "committed"]
    /\ book' = [o \in Orders |-> IF o \in turn.confirmedIds THEN "refunded" ELSE book[o]]
    /\ repaid' = [o \in Orders |-> IF o \in turn.confirmedIds THEN repaid[o] + 1 ELSE repaid[o]]

RollBack ==
    /\ turn.pc \notin {"committed", "raised"}
    /\ Remember([turn EXCEPT !.pc = "raised"])

NextTurn(confirmed) ==
    /\ turn.pc \in {"committed", "raised"}
    /\ turn' = NewTurn(confirmed)
    /\ UNCHANGED <<book, repaid>>

\* It waits while the turn's transaction holds the row.
RefundByAnother(o) ==
    /\ book[o] = "delivered"
    /\ o \notin turn.confirmedIds \/ turn.pc \in {"committed", "raised"}
    /\ book' = [book EXCEPT ![o] = "refunded"] /\ repaid' = [repaid EXCEPT ![o] = @ + 1]
    /\ UNCHANGED turn

AgentNext ==
    \/ \E intent \in Intents, o \in Orders \cup {NoOrder} : Route(intent, o)
    \/ \E o \in Orders : \/ GetOrderStatus(o) \/ ProposeRefund(o) \/ ConfirmRefund(o)
                         \/ RefundRow(o) \/ RefundByAnother(o)
    \/ GetPolicy \/ Escalate \/ ModelFails
    \/ \E draft \in Intents : ModelAnswers(draft)
    \/ ReadAfterAnswer \/ ConfirmAfterAnswer \/ CommitTurn \/ RollBack
    \/ \E confirmed \in BOOLEAN : NextTurn(confirmed)

AgentSpec == AgentInit /\ [][AgentNext]_agentVars

-----------------------------------------------------------------------------
AgentTypeOK ==
    /\ book \in [Orders -> {"delivered", "shipped", "missing", "foreign", "refunded"}]
    /\ turn.pc \in {"route", "answer", "confirm", "answered", "committed", "raised"}
    /\ turn.pending \subseteq Orders /\ turn.confirmedIds \subseteq Orders

\* What a turn does and says about refunds agrees with the orders: it repays only
\* what a confirmed refund turn proposed, and no order twice; a confirmed refund was
\* made; a customer who has confirmed is never asked to confirm the proposal again.
TurnTellsTheRefund ==
    /\ turn.confirmedIds # {} => turn.refundConfirmed /\ turn.intent = "refund"
    /\ turn.confirmedIds \cap turn.pending = {}
    /\ \A o \in Orders : repaid[o] <= 1 /\ (repaid[o] = 1 <=> book[o] = "refunded")
    /\ turn.reason = "refund_confirmed" =>
          /\ turn.order \in turn.confirmedIds
          /\ turn.pc = "committed" => book[turn.order] = "refunded"
    /\ turn.reason = "refund_proposed" => ~(turn.refundConfirmed /\ turn.intent = "refund")
=============================================================================
