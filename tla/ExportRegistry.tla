--------------------------- MODULE ExportRegistry ---------------------------
(***************************************************************************)
(* The generated files of one notice: the rows of notice_exports, their    *)
(* mirror in analysis.document_automation.exports, and the requests that   *)
(* record exports, with the PostgreSQL row locks they take on the way.     *)
(*                                                                         *)
(* _record_export soft-deletes the active row of the same kind and inserts *)
(* a new one; later in the same transaction the handler UPDATEs the notice *)
(* row with the mirror, computed from the document it read at the start.   *)
(* hwp-compose does this twice, the bid form first and then the table, and *)
(* so holds the notice row while it waits for export rows; the others hold *)
(* export rows while they wait for the notice row.  With one of its two    *)
(* parts switched off hwp-compose behaves like "proposal" (two writes), or *)
(* like "hwp"; refused by its checks, like "edit".  A kind stands for the  *)
(* pair (kind, draft_id): the code always uses the same draft_id with it.  *)
(***************************************************************************)
EXTENDS Naturals, Sequences, FiniteSets

CONSTANTS Requests,     \* slots of the thread pool
          Ops,          \* the handlers clients call in this instance
          MaxExports    \* bound: how many export rows are ever inserted

Kinds == {"excel", "hwp", "bid_form_hwp", "proposal_hwp"}

\* "edit" stands for every other handler that writes the document back.
OpNames == {"excel", "hwp", "put_bid_form", "put_proposal", "proposal", "compose", "edit"}

ASSUME ExportAssumption == Ops \subseteq OpNames /\ MaxExports \in Nat

\* What each handler does after its read, in order: generate and record an
\* export of a kind, or UPDATE the notice row.
WriteNotice == "write_notice"

\* A plausible slip: the proposal draft is saved before the agent is called.
Bug_ProposalDraftFirst(op) ==
  CASE op = "excel"        -> <<"excel", WriteNotice>>
    [] op = "hwp"          -> <<"hwp", WriteNotice>>
    [] op = "put_bid_form" -> <<"bid_form_hwp", WriteNotice>>
    [] op = "put_proposal" -> <<"proposal_hwp", WriteNotice>>
    [] op = "proposal"     -> <<WriteNotice, "proposal_hwp", WriteNotice>>
    [] op = "compose"      -> <<"bid_form_hwp", WriteNotice, "hwp", WriteNotice>>
    [] op = "edit"         -> <<WriteNotice>>

Statements(op) ==
  CASE op = "excel"        -> <<"excel", WriteNotice>>
    [] op = "hwp"          -> <<"hwp", WriteNotice>>
    [] op = "put_bid_form" -> <<"bid_form_hwp", WriteNotice>>
    [] op = "put_proposal" -> <<"proposal_hwp", WriteNotice>>
    [] op = "proposal"     -> <<"proposal_hwp", WriteNotice, WriteNotice>>
    [] op = "compose"      -> <<"bid_form_hwp", WriteNotice, "hwp", WriteNotice>>
    [] op = "edit"         -> <<WriteNotice>>

VARIABLES exports,    \* notice_exports in the order of id: kind and state of each row
          mirror,     \* the id document_automation.exports gives for each kind; 0 if none
          req,        \* the transaction of each slot
          overlapped  \* history: requests that did not run alone

vars == <<exports, mirror, req, overlapped>>

\* "open": inserted by a transaction in progress; "gone": rolled back.
RowStates == {"open", "active", "deleted", "gone"}

Ids == 1..Len(exports)

Idle == [op       |-> "idle",
         todo     |-> <<>>,      \* statements still to run
         retiring |-> FALSE,     \* inside the UPDATE of _record_export
         targets  |-> {},        \* rows that UPDATE found and has not locked yet
         locked   |-> {},        \* rows this transaction has soft-deleted
         inserted |-> {},        \* rows it has inserted
         holds    |-> FALSE,     \* it holds the notice row
         mirror   |-> [k \in Kinds |-> 0]]   \* its copy of the mirror

Init == /\ exports = <<>>
        /\ mirror = [k \in Kinds |-> 0]
        /\ req = [r \in Requests |-> Idle]
        /\ overlapped = {}

Busy == {r \in Requests : req[r].op # "idle"}

Active(k) == {e \in Ids : exports[e] = [kind |-> k, state |-> "active"]}

-----------------------------------------------------------------------------
(* Who waits for whose row lock. *)

NextTarget(r, e) == e \in req[r].targets /\ \A f \in req[r].targets : e <= f

AtWrite(r) == req[r].todo # <<>> /\ Head(req[r].todo) = WriteNotice

WaitsFor(r, q) ==
  /\ r # q
  /\ \/ req[r].retiring /\ \E e \in req[q].locked : NextTarget(r, e)
     \/ AtWrite(r) /\ req[q].holds

\* The requests of S wait for one another in a circle.
Cycle(S) == /\ S # {}
            /\ \A r \in S : /\ \E q \in S : WaitsFor(r, q)
                            /\ \E q \in S : WaitsFor(q, r)

-----------------------------------------------------------------------------
(* One request. *)

\* The read of the document: a copy of the mirror is all that is kept of it.
Begin(r, op) ==
  /\ req[r] = Idle
  /\ Len(exports) + 2 * Cardinality(Busy) + 2 <= MaxExports
  /\ req' = [req EXCEPT ![r] = [Idle EXCEPT !.op = op, !.todo = Statements(op),
                                            !.mirror = mirror]]
  /\ overlapped' = (overlapped \ {r})
                     \cup (IF Busy = {} THEN {} ELSE Busy \cup {r})
  /\ UNCHANGED <<exports, mirror>>

\* Nothing of an aborted transaction stays but the ids it took.
RolledBack(r) ==
  [e \in Ids |-> IF e \in req[r].inserted THEN [exports[e] EXCEPT !.state = "gone"] ELSE exports[e]]

Bug_AbortKeepsDeletes(r) ==
  /\ exports' = [e \in Ids |-> IF e \in req[r].inserted
                                 THEN [exports[e] EXCEPT !.state = "gone"]
                                 ELSE IF e \in req[r].locked
                                 THEN [exports[e] EXCEPT !.state = "deleted"] ELSE exports[e]]
  /\ req' = [req EXCEPT ![r] = Idle]
  /\ UNCHANGED <<mirror, overlapped>>

Abort(r) ==
  /\ exports' = RolledBack(r)
  /\ req' = [req EXCEPT ![r] = Idle]
  /\ UNCHANGED <<mirror, overlapped>>

\* The file was generated, and the UPDATE of _record_export starts: it will
\* touch the rows of this kind that are active and committed now.
Generate(r) ==
  /\ req[r].todo # <<>>
  /\ Head(req[r].todo) \in Kinds
  /\ ~ req[r].retiring
  /\ req' = [req EXCEPT ![r].retiring = TRUE, ![r].targets = Active(Head(req[r].todo))]
  /\ UNCHANGED <<exports, mirror, overlapped>>

\* The HWP agent (or the disk) fails: the exports answer with an error and
\* roll back, put-fields and compose go on without this export.
GenerateFails(r) ==
  /\ req[r].todo # <<>>
  /\ Head(req[r].todo) \in Kinds
  /\ ~ req[r].retiring
  /\ \/ req[r].op \in {"excel", "hwp"} /\ Abort(r)
     \/ /\ req[r].op \in {"put_bid_form", "put_proposal", "proposal", "compose"}
        /\ req' = [req EXCEPT ![r].todo = Tail(@)]
        /\ UNCHANGED <<exports, mirror, overlapped>>

\* One row of that UPDATE: wait for its lock, look again whether it is still
\* active, soft-delete it.
Retire(r) ==
  /\ req[r].retiring
  /\ \E e \in req[r].targets :
       /\ NextTarget(r, e)
       /\ \A q \in Requests \ {r} : e \notin req[q].locked
       /\ req' = [req EXCEPT ![r].targets = @ \ {e},
                             ![r].locked = IF exports[e].state = "active" THEN @ \cup {e} ELSE @]
  /\ UNCHANGED <<exports, mirror, overlapped>>

\* A plausible slip: the mirror is not touched.
Bug_InsertForgetsMirror(r) ==
  /\ req[r].retiring
  /\ req[r].targets = {}
  /\ exports' = Append(exports, [kind |-> Head(req[r].todo), state |-> "open"])
  /\ req' = [req EXCEPT ![r].retiring = FALSE, ![r].todo = Tail(@),
                        ![r].inserted = @ \cup {Len(exports) + 1}]
  /\ UNCHANGED <<mirror, overlapped>>

\* The INSERT, and the replacement of the kind in the copy of the mirror.
Insert(r) ==
  /\ req[r].retiring
  /\ req[r].targets = {}
  /\ exports' = Append(exports, [kind |-> Head(req[r].todo), state |-> "open"])
  /\ req' = [req EXCEPT ![r].retiring = FALSE, ![r].todo = Tail(@),
                        ![r].inserted = @ \cup {Len(exports) + 1},
                        ![r].mirror[Head(req[r].todo)] = Len(exports) + 1]
  /\ UNCHANGED <<mirror, overlapped>>

\* The UPDATE of the notice row waits for its lock.
Write(r) ==
  /\ AtWrite(r)
  /\ \A q \in Requests \ {r} : ~ req[q].holds
  /\ req' = [req EXCEPT ![r].holds = TRUE, ![r].todo = Tail(@)]
  /\ UNCHANGED <<exports, mirror, overlapped>>

Commit(r) ==
  /\ r \in Busy
  /\ req[r].todo = <<>>
  /\ exports' = [e \in Ids |->
                   CASE e \in req[r].inserted -> [exports[e] EXCEPT !.state = "active"]
                     [] e \in req[r].locked   -> [exports[e] EXCEPT !.state = "deleted"]
                     [] OTHER                 -> exports[e]]
  /\ mirror' = req[r].mirror
  /\ req' = [req EXCEPT ![r] = Idle]
  /\ UNCHANGED overlapped

\* PostgreSQL finds a circle of waits (deadlock_timeout) and aborts one of
\* its transactions.
Bug_NoDetection(r) == FALSE /\ Abort(r)

DeadlockDetected(r) == (\E S \in SUBSET Requests : r \in S /\ Cycle(S)) /\ Abort(r)

\* The API process dies: PostgreSQL rolls back every open transaction.
Crash ==
  /\ Busy # {}
  /\ exports' = [e \in Ids |-> IF exports[e].state = "open"
                                 THEN [exports[e] EXCEPT !.state = "gone"] ELSE exports[e]]
  /\ req' = [r \in Requests |-> Idle]
  /\ UNCHANGED <<mirror, overlapped>>

Step(r) == \/ Generate(r) \/ GenerateFails(r) \/ Retire(r) \/ Insert(r) \/ Write(r) \/ Commit(r)
           \/ DeadlockDetected(r)

Next == \/ \E r \in Requests, op \in Ops : Begin(r, op)
        \/ \E r \in Requests : Step(r)
        \/ Crash

\* A request that can go on does: its thread runs, the generation has a
\* timeout, and PostgreSQL looks for deadlocks.  Strong fairness, because a
\* row lock goes to the transactions that wait for it in their order: a
\* request is not overtaken at one lock for ever.
Spec == Init /\ [][Next]_vars /\ \A r \in Requests : SF_vars(Step(r))

-----------------------------------------------------------------------------
(* Properties *)

TypeOK ==
  /\ exports \in Seq([kind : Kinds, state : RowStates]) /\ Len(exports) <= MaxExports
  /\ mirror \in [Kinds -> 0..Len(exports)]
  /\ \A r \in Requests :
       /\ req[r].op \in Ops \cup {"idle"}
       /\ req[r].targets \cup req[r].locked \cup req[r].inserted \subseteq Ids
       /\ req[r].mirror \in [Kinds -> 0..Len(exports)]
       /\ req[r].retiring \in BOOLEAN /\ req[r].holds \in BOOLEAN
  /\ overlapped \subseteq Requests

\* README: a repeated call with the same (kind, draft_id) soft-deletes the
\* previous active row.
OneActivePerKind == \A k \in Kinds : Cardinality(Active(k)) <= 1

\* README: analysis.document_automation.exports[] is a mirror of the table.
MirrorFollowsTable ==
  \A k \in Kinds : /\ mirror[k] # 0 => mirror[k] \in Active(k)
                   /\ mirror[k] = 0 => Active(k) = {}

\* Once a kind has a file to download it always has one: whatever overlaps,
\* fails, deadlocks or crashes, the row that replaces the last active one
\* becomes active in the same instant.
NeverLosesTheLast == [][\A k \in Kinds : Active(k) # {} => Active(k)' # {}]_vars

\* The damage of a race is repaired by the next request: one that ran alone
\* leaves exactly one active row of every kind it recorded, and that row is
\* what its mirror names.
AloneRestoresOne ==
  [][\A r \in Busy \ overlapped :
       req'[r] = Idle /\ mirror' = req[r].mirror =>
         \A e \in req[r].inserted :
           exports'[e].state = "active" =>
             /\ Active(exports[e].kind)' = {e}
             /\ mirror'[exports[e].kind] = e]_vars

\* A circle of waits always contains an hwp-compose: it alone writes the
\* notice row between two exports.
CyclesNeedCompose ==
  \A S \in SUBSET Requests : Cycle(S) => \E r \in S : req[r].op = "compose"

\* No request waits for ever.
EveryRequestEnds == \A r \in Requests : r \in Busy ~> r \notin Busy
=============================================================================
