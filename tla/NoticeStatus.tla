---------------------------- MODULE NoticeStatus ----------------------------
(***************************************************************************)
(* The notice status vocabulary of api/services/status.py: the processing  *)
(* order, the three final statuses and the three pure functions every      *)
(* handler consults before it writes bid_pipeline.status.                  *)
(* NoStatus stands for a missing row (and for the empty string).           *)
(***************************************************************************)
EXTENDS Integers

FINAL_STATUSES == {"notified", "digest_queued", "archived_low"}

STATUS_ORDER == [collected           |-> 0,
                 analyzed            |-> 1,
                 attachments_fetched |-> 2,
                 documents_analyzed  |-> 3,
                 spec_extracted      |-> 4,
                 hwp_composed        |-> 5,
                 form_filled         |-> 6]

PROCESSING_STATUSES == {"collected", "analyzed", "attachments_fetched",
                        "documents_analyzed", "spec_extracted",
                        "hwp_composed", "form_filled"}

Statuses == PROCESSING_STATUSES \cup FINAL_STATUSES
NoStatus == ""

-----------------------------------------------------------------------------
compute_notify_status(fit_score) ==
  CASE fit_score >= 70                   -> "notified"
    [] fit_score < 70 /\ fit_score >= 40 -> "digest_queued"
    [] fit_score < 40                    -> "archived_low"

\* A plausible slip: final statuses are not looked at before the order is.
Bug_FinalMayMove(current, nxt) ==
  IF nxt \in FINAL_STATUSES
    THEN current # "collected"
    ELSE \/ current = "collected" /\ nxt = "analyzed"
         \/ /\ current \in PROCESSING_STATUSES \ {"collected"}
            /\ nxt \in PROCESSING_STATUSES
            /\ STATUS_ORDER[nxt] > STATUS_ORDER[current]

can_transition(current, nxt) ==
  IF current = NoStatus
    THEN nxt = "collected"
    ELSE /\ current \in PROCESSING_STATUSES
         /\ \/ nxt \in FINAL_STATUSES /\ STATUS_ORDER[current] >= STATUS_ORDER["analyzed"]
            \/ current = "collected" /\ nxt = "analyzed"
            \/ /\ current # "collected"
               /\ nxt \in PROCESSING_STATUSES
               /\ STATUS_ORDER[nxt] > STATUS_ORDER[current]

\* A plausible slip: the target is returned without the order comparison.
Bug_AdvanceAlways(current, target) ==
  IF current \in FINAL_STATUSES THEN current ELSE target

\* advance_status compares positions only: unlike can_transition it lets a
\* collected notice jump past "analyzed".
advance_status(current, target) ==
  CASE current \in FINAL_STATUSES -> current
    [] current = NoStatus         -> IF target = "collected" THEN target ELSE current
    [] current \in PROCESSING_STATUSES /\ target \in FINAL_STATUSES
         -> IF can_transition(current, target) THEN target ELSE current
    [] current \in PROCESSING_STATUSES /\ target \in PROCESSING_STATUSES
         -> IF STATUS_ORDER[target] > STATUS_ORDER[current] THEN target ELSE current
    [] OTHER -> current

-----------------------------------------------------------------------------
\* Where a status stands on the way from "no row" to "final".
Rank(s) == CASE s = NoStatus              -> -1
             [] s \in PROCESSING_STATUSES -> STATUS_ORDER[s]
             [] s \in FINAL_STATUSES      -> 7

\* A status write that keeps the status or moves it forward; two different
\* final statuses are not forward of one another.
Forward(s, t) == s = t \/ Rank(s) < Rank(t)
=============================================================================
