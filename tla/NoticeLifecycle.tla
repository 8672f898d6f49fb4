--------------------------- MODULE NoticeLifecycle ---------------------------
(***************************************************************************)
(* What the pipeline promises about the status of a notice, with nothing   *)
(* about requests, snapshots or analysis documents: each step moves one    *)
(* notice along one edge of a transition table.                            *)
(***************************************************************************)
EXTENDS NoticeStatus

CONSTANTS Notices, Edges

VARIABLE status

Init == status = [n \in Notices |-> NoStatus]

Move(n) == \E t \in Statuses : /\ <<status[n], t>> \in Edges
                               /\ status' = [status EXCEPT ![n] = t]

Next == \E n \in Notices : Move(n)

Spec == Init /\ [][Next]_status
=============================================================================
