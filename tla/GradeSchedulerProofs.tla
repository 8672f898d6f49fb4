------------------------ MODULE GradeSchedulerProofs ------------------------
(***************************************************************************)
(* Proofs about GradeScheduler, for any number of notices and of           *)
(* ungradable ones, any batch limit, any number of attempts and of         *)
(* crashes.  AlertsAreStored is inductive with TypeOK.  That the job       *)
(* announces a notice once needs Once: a notice the job still has before   *)
(* it was never committed by it, and one it committed is graded, so no     *)
(* later tick selects it.                                                  *)
(***************************************************************************)
EXTENDS GradeScheduler, TLAPS

\* A notice the job has graded stays out of its hands.
Once ==
  /\ ~ running => grading["job"] = NoGrading /\ batch = {}
  /\ grading["job"].notice \notin batch
  /\ \A n \in Notices :
       /\ commits["job"][n] \in {0, 1}
       /\ commits["job"][n] = 1 => /\ graded[n]
                                   /\ n \notin batch
                                   /\ n # grading["job"].notice

IInv == TypeOK /\ AlertsAreStored /\ Once

-----------------------------------------------------------------------------
(* Small facts. *)

\* What the assumption on the constants says, for the provers.
LEMMA ConstantTypes ==
  /\ Count \in Nat /\ Attempts \in Nat /\ MaxCrashes \in Nat /\ MaxRequests \in Nat
  /\ 0 \notin Notices
  /\ \A n \in Notices : n \in 0..Count
BY SchedulerAssumption DEF Notices

\* The number of attempts, distributed over a sum.
LEMMA OneMore == \A x \in Nat : Attempts * (x + 1) = Attempts * x + Attempts
BY ConstantTypes

\* More of what excuses an alert excuses no fewer alerts.
LEMMA MoreExcuses == \A x, y \in Nat : x <= y => Attempts * x <= Attempts * y
<1>. SUFFICES ASSUME NEW x \in Nat, NEW y \in Nat, x <= y
              PROVE  Attempts * x <= Attempts * y
  OBVIOUS
<1>1. PICK d \in Nat : y = x + d
  BY y - x \in Nat, y = x + (y - x)
<1>2. Attempts * y = Attempts * x + Attempts * d /\ Attempts * d \in Nat /\ Attempts * x \in Nat
  BY <1>1, ConstantTypes
<1>. QED BY <1>2

\* No status is lost when a handler moves a notice on.
LEMMA MoveOnTyped ==
  {"analyzed", "attachments_fetched", "form_filled", "notified"} \subseteq Statuses
BY DEF Statuses, PROCESSING_STATUSES, FINAL_STATUSES

\* A count that goes up at one place is still a count.
LEMMA CountUp ==
  ASSUME NEW S, NEW f \in [S -> Nat], NEW x, NEW d \in Nat
  PROVE  [f EXCEPT ![x] = @ + d] \in [S -> Nat]
<1>1. CASE x \in S
  <2>1. f[x] + d \in Nat
    BY <1>1
  <2>. QED BY <2>1
<1>2. CASE x \notin S
  <2>1. [f EXCEPT ![x] = @ + d] = f
    BY <1>2
  <2>. QED BY <2>1
<1>. QED BY <1>1, <1>2

-----------------------------------------------------------------------------
(* Types. *)

\* The types hold at the start.
LEMMA TypeInit == Init => TypeOK
<1>. SUFFICES ASSUME Init PROVE TypeOK
  OBVIOUS
<1>1. "collected" \in Statuses /\ NoGrading \in [stage : Stages, notice : 0..Count]
  BY ConstantTypes DEF NoGrading, Stages, Statuses, PROCESSING_STATUSES
<1>2. [n \in Notices |-> 0] \in [Notices -> Nat]
  OBVIOUS
<1>3. batch \subseteq Notices /\ crashes \in 0..MaxCrashes /\ requests \in 0..MaxRequests
  BY ConstantTypes DEF Init
<1>. QED BY <1>1, <1>2, <1>3 DEF Init, TypeOK

\* Every step keeps the types.
LEMMA TypeNext == TypeOK /\ [Next]_vars => TypeOK'
<1>. SUFFICES ASSUME TypeOK, [Next]_vars PROVE TypeOK'
  OBVIOUS
<1>. USE DEF TypeOK
<1>0. NoGrading \in [stage : Stages, notice : 0..Count]
  BY ConstantTypes DEF NoGrading, Stages
<1>1. ASSUME Tick PROVE TypeOK'
  BY <1>1 DEF Tick, Selected, Candidates
<1>2. ASSUME GradeNext PROVE TypeOK'
  <2>1. PICK n \in batch : Read("job", n) /\ batch' = batch \ {n}
    BY <1>2 DEF GradeNext
  <2>2. [stage |-> "computing", notice |-> n] \in [stage : Stages, notice : 0..Count]
    BY ConstantTypes DEF Stages
  <2>3. grading' \in [Graders -> [stage : Stages, notice : 0..Count]]
    BY <2>1, <2>2 DEF Read, Graders
  <2>. QED BY <1>2, <2>1, <2>3 DEF GradeNext
<1>3. ASSUME EndOfRun PROVE TypeOK'
  BY <1>3 DEF EndOfRun
<1>4. ASSUME Crash PROVE TypeOK'
  <2>1. crashes' \in 0..MaxCrashes
    BY <1>4, ConstantTypes DEF Crash
  <2>2. grading' \in [Graders -> [stage : Stages, notice : 0..Count]]
    BY <1>4, <1>0 DEF Crash
  <2>3. batch' \subseteq Notices /\ running' \in BOOLEAN
    BY <1>4 DEF Crash
  <2>. QED BY <1>4, <2>1, <2>2, <2>3 DEF Crash
<1>5. ASSUME NEW g \in Graders, Update(g) PROVE TypeOK'
  BY <1>5 DEF Update, Stages
<1>6. ASSUME NEW g \in Graders, Alert(g) PROVE TypeOK'
  <2>4. [grading[g] EXCEPT !.stage = "alerted"] \in [stage : Stages, notice : 0..Count]
    BY DEF Stages
  <2>1. PICK d \in 0..Attempts : alerts' = [alerts EXCEPT ![g][grading[g].notice] = @ + d]
    BY <1>6 DEF Alert
  <2>2. alerts' \in [Graders -> [Notices -> Nat]]
    <3>1. alerts[g] \in [Notices -> Nat] /\ d \in Nat
      BY ConstantTypes
    <3>2. [alerts[g] EXCEPT ![grading[g].notice] = @ + d] \in [Notices -> Nat]
      BY <3>1, CountUp
    <3>. QED BY <2>1, <3>2
  <2>3. grading' \in [Graders -> [stage : Stages, notice : 0..Count]]
    BY <1>6, <2>4 DEF Alert
  <2>. QED BY <1>6, <2>2, <2>3 DEF Alert
<1>7. ASSUME NEW g \in Graders, Commit(g) PROVE TypeOK'
  <2>1. commits' \in [Graders -> [Notices -> Nat]]
    <3>1. commits[g] \in [Notices -> Nat]
      OBVIOUS
    <3>2. [commits[g] EXCEPT ![grading[g].notice] = @ + 1] \in [Notices -> Nat]
      BY <3>1, CountUp
    <3>. QED BY <1>7, <3>2 DEF Commit
  <2>. QED BY <1>7, <1>0, <2>1 DEF Commit
<1>8. ASSUME NEW g \in Graders, Raise(g) PROVE TypeOK'
  BY <1>8, <1>0 DEF Raise
<1>9. ASSUME NEW n \in Notices, GradeRequest(n) PROVE TypeOK'
  <2>1. [stage |-> "computing", notice |-> n] \in [stage : Stages, notice : 0..Count]
    BY ConstantTypes DEF Stages
  <2>2. grading' \in [Graders -> [stage : Stages, notice : 0..Count]]
    BY <1>9, <2>1 DEF GradeRequest, Read, Graders
  <2>. QED BY <1>9, <2>2, ConstantTypes DEF GradeRequest
<1>10. ASSUME NEW n \in Notices, MoveOn(n) PROVE TypeOK'
  BY <1>10, MoveOnTyped DEF MoveOn
<1>11. ASSUME UNCHANGED vars PROVE TypeOK'
  BY <1>11 DEF vars
<1>. QED BY <1>1, <1>2, <1>3, <1>4, <1>5, <1>6, <1>7, <1>8, <1>9, <1>10, <1>11 DEF Next

\* Every variable of the scheduler keeps its type.
THEOREM TypeCorrect == Spec => []TypeOK
BY TypeInit, TypeNext, PTL DEF Spec

-----------------------------------------------------------------------------
(* Once: what the job has graded stays out of its hands. *)

\* The job has committed nothing at the start.
LEMMA OnceInit == Init => Once
BY ConstantTypes DEF Init, Once, Graders, NoGrading

\* No step puts a notice the job has committed into its batch again.
LEMMA OnceNext == TypeOK /\ Once /\ [Next]_vars => Once'
<1>. SUFFICES ASSUME TypeOK, Once, [Next]_vars PROVE Once'
  OBVIOUS
<1>. USE DEF TypeOK, Once
<1>0. "job" \in Graders /\ "http" \in Graders /\ "http" # "job"
  BY DEF Graders
<1>1. ASSUME Tick PROVE Once'
  BY <1>0, <1>1, ConstantTypes DEF Tick, Selected, Candidates, NoGrading
<1>2. ASSUME GradeNext PROVE Once'
  <2>1. PICK n \in batch : Read("job", n) /\ batch' = batch \ {n}
    BY <1>2 DEF GradeNext
  <2>2. grading["job"].notice = 0 /\ running' /\ n \in Notices
    BY <1>2 DEF GradeNext, NoGrading
  <2>3. grading'["job"].notice \in {0, n}
    BY <1>0, <2>1, <2>2 DEF Read
  <2>. QED BY <1>2, <2>1, <2>2, <2>3, ConstantTypes DEF GradeNext
<1>3. ASSUME EndOfRun PROVE Once'
  BY <1>3 DEF EndOfRun
<1>4. ASSUME Crash PROVE Once'
  BY <1>0, <1>4, ConstantTypes DEF Crash, NoGrading
<1>5. ASSUME NEW g \in Graders, Update(g) PROVE Once'
  <2>1. grading'["job"].notice = grading["job"].notice /\ (grading["job"] = NoGrading => g # "job")
    BY <1>0, <1>5 DEF Update, NoGrading
  <2>. QED BY <1>5, <1>0, <2>1 DEF Update
<1>6. ASSUME NEW g \in Graders, Alert(g) PROVE Once'
  <2>1. grading'["job"].notice = grading["job"].notice /\ (grading["job"] = NoGrading => g # "job")
    BY <1>0, <1>6 DEF Alert, NoGrading
  <2>. QED BY <1>6, <1>0, <2>1 DEF Alert
<1>7. ASSUME NEW g \in Graders, Commit(g) PROVE Once'
  <2>1. CASE g = "job"
    <3>. DEFINE m == grading["job"].notice
    <3>1. grading'["job"] = NoGrading /\ batch' = batch /\ running' = running
      BY <1>0, <1>7, <2>1 DEF Commit
    <3>2. \A n \in Notices : n # m => /\ commits'["job"][n] = commits["job"][n]
                                      /\ graded'[n] = graded[n]
      BY <1>0, <1>7, <2>1 DEF Commit
    <3>3. m \in Notices => commits'["job"][m] = 1 /\ graded'[m]
      BY <1>0, <1>7, <2>1 DEF Commit
    <3>4. NoGrading.notice \notin Notices /\ m \notin batch
      BY ConstantTypes DEF NoGrading
    <3>5. \A n \in Notices : /\ commits'["job"][n] \in {0, 1}
                             /\ commits'["job"][n] = 1 => graded'[n] /\ n \notin batch
      <4>. SUFFICES ASSUME NEW n \in Notices
                    PROVE  /\ commits'["job"][n] \in {0, 1}
                           /\ commits'["job"][n] = 1 => graded'[n] /\ n \notin batch
        OBVIOUS
      <4>1. CASE n = m
        BY <4>1, <3>3, <3>4
      <4>2. CASE n # m
        BY <4>2, <3>2
      <4>. QED BY <4>1, <4>2
    <3>. QED BY <3>1, <3>4, <3>5
  <2>2. CASE g # "job"
    BY <1>0, <1>7, <2>2 DEF Commit
  <2>. QED BY <2>1, <2>2
<1>8. ASSUME NEW g \in Graders, Raise(g) PROVE Once'
  <2>1. grading'["job"] \in {NoGrading, grading["job"]}
    BY <1>0, <1>8 DEF Raise
  <2>. QED BY <1>8, <2>1, ConstantTypes DEF Raise, NoGrading
<1>9. ASSUME NEW n \in Notices, GradeRequest(n) PROVE Once'
  BY <1>0, <1>9 DEF GradeRequest, Read
<1>10. ASSUME NEW n \in Notices, MoveOn(n) PROVE Once'
  BY <1>10 DEF MoveOn
<1>11. ASSUME UNCHANGED vars PROVE Once'
  BY <1>11 DEF vars
<1>. QED BY <1>1, <1>2, <1>3, <1>4, <1>5, <1>6, <1>7, <1>8, <1>9, <1>10, <1>11 DEF Next

-----------------------------------------------------------------------------
(* AlertsAreStored: what excuses an alert. *)

\* The alert of a grading whose commit is missing.
Pending(g, n) == IF grading[g] = [stage |-> "alerted", notice |-> n] THEN 1 ELSE 0

\* The gradings that may have announced n.
Excuses(g, n) == commits[g][n] + crashes + Pending(g, n)

\* Excuses and alerts are numbers.
LEMMA ExcusesTyped ==
  ASSUME TypeOK, NEW g \in Graders, NEW n \in Notices
  PROVE  Excuses(g, n) \in Nat /\ Pending(g, n) \in {0, 1} /\ alerts[g][n] \in Nat
BY ConstantTypes DEF TypeOK, Excuses, Pending

\* AlertsAreStored in terms of the excuses.
LEMMA AlertsByExcuses ==
  AlertsAreStored <=> \A n \in Notices, g \in Graders : alerts[g][n] <= Attempts * Excuses(g, n)
BY DEF AlertsAreStored, Excuses, Pending

\* A step that posts nothing and takes no excuse away is harmless.
LEMMA Harmless ==
  ASSUME TypeOK, TypeOK', AlertsAreStored, alerts' = alerts,
         \A n \in Notices, g \in Graders : Excuses(g, n) <= Excuses(g, n)'
  PROVE  AlertsAreStored'
<1>. SUFFICES ASSUME NEW n \in Notices, NEW g \in Graders
              PROVE  alerts'[g][n] <= Attempts * Excuses(g, n)'
  BY DEF AlertsAreStored, Excuses, Pending
<1>1. alerts[g][n] <= Attempts * Excuses(g, n)
  BY AlertsByExcuses
<1>2. Excuses(g, n) \in Nat /\ Excuses(g, n)' \in Nat /\ alerts[g][n] \in Nat
  BY ExcusesTyped, ConstantTypes DEF TypeOK, Excuses, Pending
<1>3. Attempts * Excuses(g, n) <= Attempts * Excuses(g, n)'
  BY <1>2, MoreExcuses
<1>4. Attempts * Excuses(g, n) \in Nat /\ Attempts * Excuses(g, n)' \in Nat
  BY <1>2, ConstantTypes
<1>. QED BY <1>1, <1>2, <1>3, <1>4

\* There are no alerts at the start.
LEMMA StoredInit == Init => AlertsAreStored
<1>. SUFFICES ASSUME Init, NEW n \in Notices, NEW g \in Graders
              PROVE  alerts[g][n] <= Attempts * Excuses(g, n)
  BY AlertsByExcuses
<1>1. Excuses(g, n) = 0 /\ alerts[g][n] = 0
  BY DEF Init, Excuses, Pending, NoGrading
<1>. QED BY <1>1, ConstantTypes

\* Every step adds an excuse with its alerts, or is harmless.
LEMMA StoredNext == TypeOK /\ TypeOK' /\ AlertsAreStored /\ [Next]_vars => AlertsAreStored'
<1>. SUFFICES ASSUME TypeOK, TypeOK', AlertsAreStored, [Next]_vars PROVE AlertsAreStored'
  OBVIOUS
<1>. DEFINE Kept(g, n) == Excuses(g, n) <= Excuses(g, n)'
<1>0. \A g \in Graders, n \in Notices :
        /\ commits[g][n] \in Nat /\ commits'[g][n] \in Nat /\ crashes \in Nat /\ crashes' \in Nat
        /\ Pending(g, n) \in {0, 1} /\ Pending(g, n)' \in {0, 1}
  BY ConstantTypes DEF TypeOK, Pending
<1>1. ASSUME Tick \/ EndOfRun \/ (\E n \in Notices : MoveOn(n)) \/ UNCHANGED vars
      PROVE  AlertsAreStored'
  BY <1>1 DEF Tick, EndOfRun, MoveOn, vars, AlertsAreStored
<1>2. ASSUME GradeNext PROVE AlertsAreStored'
  <2>1. PICK m \in batch : Read("job", m)
    BY <1>2 DEF GradeNext
  <2>2. \A n \in Notices, g \in Graders : Pending(g, n) <= Pending(g, n)'
    BY <1>2, <2>1 DEF GradeNext, Read, Pending, NoGrading, TypeOK
  <2>3. commits' = commits /\ crashes' = crashes /\ alerts' = alerts
    BY <1>2 DEF GradeNext
  <2>4. \A n \in Notices, g \in Graders : Kept(g, n)
    BY <1>0, <2>2, <2>3 DEF Excuses
  <2>. QED BY <2>3, <2>4, Harmless
<1>3. ASSUME NEW m \in Notices, GradeRequest(m) PROVE AlertsAreStored'
  <2>2. \A n \in Notices, g \in Graders : Pending(g, n) <= Pending(g, n)'
    BY <1>3 DEF GradeRequest, Read, Pending, NoGrading, TypeOK
  <2>3. commits' = commits /\ crashes' = crashes /\ alerts' = alerts
    BY <1>3 DEF GradeRequest
  <2>4. \A n \in Notices, g \in Graders : Kept(g, n)
    BY <1>0, <2>2, <2>3 DEF Excuses
  <2>. QED BY <2>3, <2>4, Harmless
<1>4. ASSUME Crash PROVE AlertsAreStored'
  <2>1. commits' = commits /\ crashes' = crashes + 1 /\ alerts' = alerts
    BY <1>4 DEF Crash
  <2>2. \A n \in Notices, g \in Graders : Kept(g, n)
    BY <1>0, <2>1 DEF Excuses
  <2>. QED BY <2>1, <2>2, Harmless
<1>5. ASSUME NEW h \in Graders, Update(h) \/ Raise(h) PROVE AlertsAreStored'
  <2>1. commits' = commits /\ crashes' = crashes /\ alerts' = alerts
    BY <1>5 DEF Update, Raise
  <2>2. \A n \in Notices, g \in Graders : Pending(g, n) <= Pending(g, n)'
    BY <1>5 DEF Update, Raise, Pending, TypeOK
  <2>3. \A n \in Notices, g \in Graders : Kept(g, n)
    BY <1>0, <2>1, <2>2 DEF Excuses
  <2>. QED BY <2>1, <2>3, Harmless
<1>6. ASSUME NEW h \in Graders, Alert(h) PROVE AlertsAreStored'
  <2>. SUFFICES ASSUME NEW n \in Notices, NEW g \in Graders
                PROVE  alerts'[g][n] <= Attempts * Excuses(g, n)'
    BY DEF AlertsAreStored, Excuses, Pending
  <2>1. PICK d \in 0..Attempts : alerts' = [alerts EXCEPT ![h][grading[h].notice] = @ + d]
    BY <1>6 DEF Alert
  <2>2. commits' = commits /\ crashes' = crashes
    BY <1>6 DEF Alert
  <2>3. alerts[g][n] <= Attempts * Excuses(g, n)
    BY AlertsByExcuses
  <2>4. Excuses(g, n) \in Nat /\ alerts[g][n] \in Nat /\ Attempts * Excuses(g, n) \in Nat
    BY ExcusesTyped, ConstantTypes
  <2>5. CASE g = h /\ n = grading[h].notice
    <3>1. Pending(g, n) = 0 /\ Pending(g, n)' = 1
      BY <1>6, <2>5 DEF Alert, Pending, TypeOK
    <3>2. Excuses(g, n)' = Excuses(g, n) + 1
      BY <1>0, <2>2, <3>1 DEF Excuses
    <3>3. alerts'[g][n] = alerts[g][n] + d
      BY <2>1, <2>5 DEF TypeOK
    <3>4. Attempts * Excuses(g, n)' = Attempts * Excuses(g, n) + Attempts
      BY <2>4, <3>2, OneMore
    <3>. QED BY <2>3, <2>4, <3>3, <3>4, ConstantTypes
  <2>6. CASE ~ (g = h /\ n = grading[h].notice)
    <3>1. alerts'[g][n] = alerts[g][n]
      BY <2>1, <2>6 DEF TypeOK
    <3>2. Pending(g, n)' = Pending(g, n)
      BY <1>6, <2>6 DEF Alert, Pending, TypeOK
    <3>. QED BY <2>2, <2>3, <3>1, <3>2 DEF Excuses
  <2>. QED BY <2>5, <2>6
<1>7. ASSUME NEW h \in Graders, Commit(h) PROVE AlertsAreStored'
  <2>1. crashes' = crashes /\ alerts' = alerts
    BY <1>7 DEF Commit
  <2>2. ASSUME NEW n \in Notices, NEW g \in Graders PROVE Kept(g, n)
    <3>1. CASE g = h /\ n = grading[h].notice
      <4>1. commits'[g][n] = commits[g][n] + 1
        BY <1>7, <3>1 DEF Commit, TypeOK
      <4>. QED BY <1>0, <2>1, <4>1 DEF Excuses
    <3>2. CASE ~ (g = h /\ n = grading[h].notice)
      <4>1. commits'[g][n] = commits[g][n]
        BY <1>7, <3>2 DEF Commit, TypeOK
      <4>2. Pending(g, n) <= Pending(g, n)'
        BY <1>7, <3>2 DEF Commit, Pending, TypeOK
      <4>. QED BY <1>0, <2>1, <4>1, <4>2 DEF Excuses
    <3>. QED BY <3>1, <3>2
  <2>. QED BY <2>1, <2>2, Harmless
<1>. QED BY <1>1, <1>2, <1>3, <1>4, <1>5, <1>6, <1>7 DEF Next

-----------------------------------------------------------------------------
(* The theorems. *)

\* The inductive invariant holds in every state.
LEMMA Invariance == Spec => []IInv
<1>1. Init => IInv
  BY TypeInit, StoredInit, OnceInit DEF IInv
<1>2. IInv /\ [Next]_vars => IInv'
  BY TypeNext, StoredNext, OnceNext DEF IInv
<1>. QED BY <1>1, <1>2, PTL DEF Spec

\* Every alert belongs to a grading in progress, a committed one, or one lost
\* in a crash.
THEOREM AlertsAreStoredThm == Spec => []AlertsAreStored
<1>1. IInv => AlertsAreStored
  BY DEF IInv
<1>. QED BY <1>1, Invariance, PTL

\* The scheduler announces a notice in one grading, plus one for each crash.
THEOREM JobAlertsOncePerCrashThm == Spec => []JobAlertsOncePerCrash
<1>1. ASSUME IInv, NEW n \in Notices PROVE alerts["job"][n] <= Attempts * (1 + crashes)
  <2>1. TypeOK /\ AlertsAreStored /\ Once /\ "job" \in Graders
    BY <1>1 DEF IInv, Graders
  <2>2. alerts["job"][n] <= Attempts * Excuses("job", n)
    BY <2>1, AlertsByExcuses
  <2>3. commits["job"][n] \in {0, 1} /\ (commits["job"][n] = 1 => Pending("job", n) = 0)
    BY <2>1 DEF Once, Pending
  <2>4. crashes \in Nat /\ Excuses("job", n) \in Nat /\ Pending("job", n) \in {0, 1}
    BY <2>1, ExcusesTyped, ConstantTypes DEF TypeOK
  <2>5. Excuses("job", n) <= 1 + crashes
    BY <2>3, <2>4 DEF Excuses
  <2>6. Attempts * Excuses("job", n) <= Attempts * (1 + crashes)
    BY <2>4, <2>5, MoreExcuses
  <2>7. Attempts * Excuses("job", n) \in Nat /\ Attempts * (1 + crashes) \in Nat
    BY <2>4, ConstantTypes
  <2>8. alerts["job"][n] \in Nat
    BY <2>1 DEF TypeOK
  <2>. QED BY <2>2, <2>6, <2>7, <2>8
<1>2. IInv => JobAlertsOncePerCrash
  BY <1>1 DEF JobAlertsOncePerCrash
<1>. QED BY <1>2, Invariance, PTL
=============================================================================
