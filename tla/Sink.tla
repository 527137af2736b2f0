-------------------------------- MODULE Sink --------------------------------
(***************************************************************************)
(* What internal/storage promises to the callers of Save: a lossy queue in *)
(* front of the alerts table.                                              *)
(*                                                                         *)
(* A row is accepted, or refused when the queue is full.  Accepted rows    *)
(* leave the queue in the order in which they came, some oldest ones at a  *)
(* time, into the table or into the count of lost rows, and in no other    *)
(* way.  The writer may fail to notice that rows were stored, so they can  *)
(* be stored or counted again.  A closed sink stores nothing.              *)
(*                                                                         *)
(* How rows are batched, retried and drained is the business of module     *)
(* Store, which implements this one.                                       *)
(***************************************************************************)
EXTENDS Integers, Sequences

CONSTANTS
    Row,        \* what can be saved
    Capacity    \* a queue with this many rows may refuse the next

VARIABLES
    pending,    \* rows accepted and not settled, oldest first
    table,      \* rows in the table, in the order of their insertion
    lost,       \* how many rows were given up
    closed

vars == <<pending, table, lost, closed>>

Init == pending = <<>> /\ table = <<>> /\ lost = 0 /\ closed = FALSE

Oldest(k) == SubSeq(pending, 1, k)

Rest(k) == SubSeq(pending, k + 1, Len(pending))

Accept(row) ==
    /\ pending' = Append(pending, row)
    /\ UNCHANGED <<table, lost, closed>>

Refuse ==
    /\ Len(pending) >= Capacity
    /\ lost' = lost + 1
    /\ UNCHANGED <<pending, table, closed>>

Deliver(k) ==
    /\ ~closed
    /\ table' = table \o Oldest(k)
    /\ pending' = Rest(k)
    /\ UNCHANGED <<lost, closed>>

DeliverUnnoticed(k) ==
    /\ ~closed
    /\ table' = table \o Oldest(k)
    /\ UNCHANGED <<pending, lost, closed>>

GiveUp(k) ==
    /\ lost' = lost + k
    /\ pending' = Rest(k)
    /\ UNCHANGED <<table, closed>>

Close ==
    /\ closed' = TRUE
    /\ UNCHANGED <<pending, table, lost>>

Next ==
    \/ \E row \in Row : Accept(row)
    \/ Refuse
    \/ \E k \in 1 .. Len(pending) : Deliver(k) \/ DeliverUnnoticed(k) \/ GiveUp(k)
    \/ Close

Spec == Init /\ [][Next]_vars
=============================================================================
