------------------------------ MODULE EventDelivery ------------------------------
(***************************************************************************)
(* What posting events to the control plane promises: the recorded events  *)
(* are delivered in the order they were recorded, without a gap, and one   *)
(* is only discarded by its sender once it has been delivered.  Handlers,  *)
(* transactions, windows, retries and their overlaps are not visible here. *)
(***************************************************************************)
EXTENDS Naturals, Sequences

CONSTANT Types      \* the types of events

VARIABLES
    log,            \* the events recorded by the sender
    delivered,      \* the numbers of those delivered
    acked           \* how many the sender has discarded

Init == log = <<>> /\ delivered = {} /\ acked = 0

Record ==
    /\ \E type \in Types : log' = Append(log, type)
    /\ UNCHANGED <<delivered, acked>>

\* Everything up to n is delivered now, if it was not before.
Deliver ==
    /\ \E n \in 1 .. Len(log) : delivered' = delivered \cup 1 .. n
    /\ UNCHANGED <<log, acked>>

Discard ==
    /\ \E n \in 1 .. Len(log) : /\ acked <= n /\ 1 .. n \subseteq delivered
                                /\ acked' = n
    /\ UNCHANGED <<log, delivered>>

Next == Record \/ Deliver \/ Discard

Spec == Init /\ [][Next]_<<log, delivered, acked>>

=============================================================================
