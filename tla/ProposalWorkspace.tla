------------------------- MODULE ProposalWorkspace -------------------------
(***************************************************************************)
(* The proposal agent's workspace of one notice: requirements, evidence    *)
(* and draft sections, and the four calls that rebuild them.  Each call    *)
(* deletes what an earlier one left and inserts its own rows, statement by *)
(* statement in one transaction (READ COMMITTED): a statement sees what is *)
(* committed when it starts, waits for the locks of others, and then looks *)
(* at its rows again.                                                      *)
(*                                                                         *)
(* A row is a tuple that begins with its table and with the number of the  *)
(* call that inserted it; its foreign and unique keys can be read off it.  *)
(* A text keeps what the checks look for: the evidence it cites and the    *)
(* mark [needs verification].                                              *)
(***************************************************************************)
EXTENDS Naturals, FiniteSets

CONSTANTS Requests,   \* slots of the thread pool, numbered
          Optional,   \* requirement types found only if the notice mentions them
          MaxCalls    \* bound: how many calls are ever made

\* company_overview, documents and technical_strength are always required.
Always == {"documents"}
Types == Always \cup Optional

ASSUME WorkspaceAssumption == Optional \cap Always = {} /\ MaxCalls \in Nat /\ Requests \subseteq Nat

VARIABLES rows,        \* committed rows of the three tables
          text,        \* for each section row: what it says and its fact check
          library,     \* whether the company has documents or performances on file
          call,        \* the transaction of each slot
          calls        \* number of the last call

vars == <<rows, text, library, call, calls>>

Gens == 1..MaxCalls

RequirementRow(g, type) == <<"requirement", g, type>>
EvidenceRow(g, q)       == <<"evidence", g, q>>
SectionRow(g, type)     == <<"section", g, type>>

Table(name) == {x \in rows : x[1] = name}

Verdicts == {"pending", "pass", "warning", "reject"}

Idle == [op |-> "idle", todo |-> "none", gen |-> 0,
         found |-> {}, seen |-> {}, evidence |-> {},   \* what it has read
         targets |-> {},                                \* rows its DELETE or UPDATE saw
         deleted |-> {}, updated |-> {}, inserted |-> {},
         overlapped |-> FALSE]                          \* history: it did not run alone

Init == /\ rows = {} /\ text = << >>
        /\ library = FALSE
        /\ call = [r \in Requests |-> Idle]
        /\ calls = 0

Busy == {r \in Requests : call[r].op # "idle"}

-----------------------------------------------------------------------------
(* Locks. *)

\* q holds the row x: it has deleted or updated it, or has inserted evidence
\* that refers to it (the foreign key takes a share lock on the requirement).
Holds(q, x) ==
  \/ x \in call[q].deleted \cup call[q].updated
  \/ \E y \in call[q].inserted : y[1] = "evidence" /\ y[3] = x

\* requirement: unique (notice, type, text); section: unique (notice, key,
\* version), and the version is always 1.
Bug_VersionCountsUp(x, y) == x = y

SameKey(x, y) == x[1] = y[1] /\ x[1] # "evidence" /\ x[3] = y[3]

\* The rows a call is about to insert.
RowsOf(r) ==
  CASE call[r].op = "analyze"  -> {RequirementRow(call[r].gen, t) : t \in call[r].found}
    [] call[r].op = "retrieve" -> {EvidenceRow(call[r].gen, q) : q \in call[r].found}
    [] call[r].op = "generate" -> {SectionRow(call[r].gen, q[3]) : q \in call[r].seen}
    [] OTHER                   -> {}

WaitsFor(r, q) ==
  /\ r # q
  /\ CASE call[r].todo = "lock"   -> \E x \in call[r].targets : Holds(q, x)
       [] call[r].todo = "insert" ->
            \E x \in RowsOf(r) :
              \/ \E y \in call[q].inserted : SameKey(x, y)
              \/ \E y \in call[q].deleted : SameKey(x, y)
              \/ x[1] = "evidence" /\ x[3] \in call[q].deleted
       [] OTHER -> FALSE

Waits(r) == \E q \in Requests : WaitsFor(r, q)

Cycle(S) == S # {} /\ \A r \in S : (\E q \in S : WaitsFor(r, q)) /\ (\E q \in S : WaitsFor(q, r))

-----------------------------------------------------------------------------
(* The four calls: what they read first. *)

Begin(r, op, c) ==
  /\ call[r] = Idle
  /\ \A q \in Requests \ Busy : r <= q          \* the slots are alike: take the first
  /\ calls < MaxCalls
  /\ calls' = calls + 1
  /\ call' = [q \in Requests |->
                CASE q = r      -> [c EXCEPT !.op = op, !.gen = calls + 1, !.overlapped = Busy # {}]
                  [] q \in Busy -> [call[q] EXCEPT !.overlapped = TRUE]
                  [] OTHER      -> Idle]
  /\ UNCHANGED <<rows, text, library>>

RequirementTypes(mentioned) == Always \cup mentioned

Analyze(r, mentioned) ==
  Begin(r, "analyze", [Idle EXCEPT !.todo = "lock", !.found = RequirementTypes(mentioned),
                                   !.targets = Table("requirement")])

\* "run proposal analyze first", "run proposal generate first": 409.
Retrieve(r) ==
  /\ Table("requirement") # {}
  /\ Begin(r, "retrieve", [Idle EXCEPT !.todo = "delete", !.seen = Table("requirement")])

Generate(r) ==
  /\ Table("requirement") # {}
  /\ Begin(r, "generate", [Idle EXCEPT !.todo = "read", !.seen = Table("requirement")])

Verify(r) ==
  /\ Table("section") # {}
  /\ Begin(r, "verify", [Idle EXCEPT !.todo = "read", !.seen = Table("section")])

-----------------------------------------------------------------------------
(* Their statements. *)

Rest == <<rows, text, library, calls>>

\* The evidence of the notice, as the join with its requirements finds it.
ReadEvidence(r) ==
  /\ call[r].todo = "read"
  /\ call' = [call EXCEPT
       ![r].evidence = {x \in Table("evidence") : x[3] \in Table("requirement")},
       ![r].targets  = IF call[r].op = "verify" THEN call[r].seen ELSE {},
       ![r].todo     = IF call[r].op = "verify" THEN "lock" ELSE "delete"]
  /\ UNCHANGED Rest

\* The DELETE of retrieve or generate starts: the rows it will delete.
Delete(r) ==
  /\ call[r].todo = "delete"
  /\ call' = [call EXCEPT
       ![r].todo = "lock",
       ![r].targets = IF call[r].op = "retrieve"
                        THEN {x \in Table("evidence") : x[3] \in call[r].seen} ELSE Table("section")]
  /\ UNCHANGED Rest

\* What falls with the deleted requirements (ON DELETE CASCADE).
Falling(r) == {x \in Table("evidence") : x[3] \in call[r].deleted} \ call[r].deleted

\* The requirements for which something on file scores above zero: any of
\* them, and none while nothing is on file.
Hits(r, found) ==
  IF call[r].op = "retrieve" THEN found \subseteq IF library THEN call[r].seen ELSE {}
                             ELSE found = call[r].found

\* It has all its locks; rows that are gone by now are skipped.  A DELETE of
\* requirements goes on with their evidence; retrieve reads the library.
Lock(r) ==
  /\ call[r].todo = "lock" /\ ~ Waits(r)
  /\ \E found \in SUBSET call[r].seen \cup {call[r].found} :
       LET got == call[r].targets \cap rows
           verify == call[r].op = "verify"
       IN  /\ Hits(r, found)
           /\ call' = [call EXCEPT
                ![r].targets = {}, ![r].found = found,
                ![r].updated = IF verify THEN got ELSE {},
                ![r].deleted = IF verify THEN {} ELSE @ \cup got,
                ![r].todo    = CASE verify -> "commit"
                                 [] call[r].op = "analyze" /\ call[r].deleted = {} /\ got # {}
                                            -> "cascade"
                                 [] OTHER   -> "insert"]
  /\ UNCHANGED Rest

Cascade(r) ==
  /\ call[r].todo = "cascade"
  /\ call' = [call EXCEPT ![r].targets = Falling(r), ![r].todo = "lock"]
  /\ UNCHANGED Rest

\* What this transaction sees of the tables.
Sees(r) == (rows \ call[r].deleted) \cup call[r].inserted

Violates(r, x) ==
  \/ \E y \in Sees(r) : SameKey(x, y)
  \/ x[1] = "evidence" /\ x[3] \notin Sees(r)

\* Two rows of one type cannot both go in; rows are inserted in the same
\* order by every call, so they are taken together.
Insert(r) ==
  /\ call[r].todo = "insert" /\ ~ Waits(r)
  /\ \A x \in RowsOf(r) : ~ Violates(r, x)
  /\ call' = [call EXCEPT ![r].inserted = RowsOf(r), ![r].todo = "commit"]
  /\ UNCHANGED Rest

RollBack(r) == call' = [call EXCEPT ![r] = Idle] /\ UNCHANGED Rest

\* A unique or foreign key is violated: the call answers with an error.
InsertFails(r) ==
  /\ call[r].todo = "insert" /\ ~ Waits(r)
  /\ \E x \in RowsOf(r) : Violates(r, x)
  /\ RollBack(r)

Bug_NoDetection(r) == FALSE /\ RollBack(r)

DeadlockDetected(r) == (\E S \in SUBSET Requests : r \in S /\ Cycle(S)) /\ RollBack(r)

-----------------------------------------------------------------------------
(* Drafts and their verdicts. *)

\* build_section cites the evidence of the requirement; without any it asks
\* for verification.
Draft(r, x) ==
  LET refs == {e \in call[r].evidence : e[3] \in call[r].seen /\ e[3][3] = x[3]}
  IN  [refs |-> refs, mark |-> refs = {}, check |-> "pending"]

\* A slip: references are not looked up.
Bug_MarkOnly(t, evidence) == IF t.mark THEN "warning" ELSE "pass"

Verdict(t, evidence) ==
  IF ~ t.refs \subseteq evidence THEN "reject" ELSE IF t.mark THEN "warning" ELSE "pass"

\* What the sections say once the call has committed.
TextAfter(r) ==
  [x \in {y \in Sees(r) : y[1] = "section"} |->
     IF x \in call[r].inserted THEN Draft(r, x)
     ELSE IF x \in call[r].updated
            THEN [text[x] EXCEPT !.check = Verdict(text[x], call[r].evidence)]
            ELSE text[x]]

Commit(r) ==
  /\ call[r].todo = "commit"
  /\ rows' = Sees(r)
  /\ text' = TextAfter(r)
  /\ call' = [call EXCEPT ![r] = Idle]
  /\ UNCHANGED <<library, calls>>

\* The API process dies: PostgreSQL rolls back every open transaction.
Crash ==
  /\ Busy # {}
  /\ call' = [r \in Requests |-> Idle]
  /\ UNCHANGED Rest

\* A document with chunks, or a performance, is registered.
Register ==
  /\ ~ library
  /\ Busy = {}      \* bound: a retrieve looks at it once
  /\ library' = TRUE
  /\ UNCHANGED <<rows, text, call, calls>>

-----------------------------------------------------------------------------
Step(r) == \/ ReadEvidence(r) \/ Delete(r) \/ Lock(r) \/ Cascade(r)
           \/ Insert(r) \/ InsertFails(r) \/ DeadlockDetected(r) \/ Commit(r)

WorkspaceNext(mentioned) ==
  \/ \E r \in Requests : \/ Analyze(r, mentioned) \/ Retrieve(r) \/ Generate(r) \/ Verify(r)
                         \/ Step(r)
  \/ Register \/ Crash

-----------------------------------------------------------------------------
(* Properties *)

\* Every variable has its type: no row belongs to a call that was never made,
\* every section that exists has a text, and a fact check has one of the
\* verdicts the models allow.
TypeOK ==
  /\ \A x \in rows : /\ x[1] \in {"requirement", "evidence", "section"} /\ x[2] \in 1..calls
                     /\ x[1] = "evidence" => x[3][1] = "requirement"
                     /\ x[1] # "evidence" => x[3] \in Types
  /\ DOMAIN text = Table("section")
  /\ \A x \in DOMAIN text : text[x].check \in Verdicts /\ text[x].mark \in BOOLEAN
  /\ library \in BOOLEAN
  /\ \A r \in Requests : call[r].gen \in 0..calls /\ call[r].overlapped \in BOOLEAN

\* No analysis is mixed with another, no draft with another, and no evidence
\* outlives its requirement: although each call deletes only the rows it saw
\* when its DELETE started, the loser of a race collides with a type both
\* have found (documents is always one) and is rolled back.
OneGeneration ==
  /\ \A x, y \in rows : x[1] = y[1] /\ x[1] # "evidence" => x[2] = y[2]
  /\ \A x \in Table("evidence") : x[3] \in rows

\* README: claims without evidence are found.  A section that passes its fact
\* check always cites evidence and carries no mark, and a verification that
\* ran alone tells the truth about every section, also about those whose
\* evidence was replaced after they were written or passed.
VerifyTellsTheTruth ==
  /\ [](\A x \in DOMAIN text : text[x].check = "pass" => text[x].refs # {} /\ ~ text[x].mark)
  /\ [][\A r \in Busy :
          call[r].op = "verify" /\ ~ call[r].overlapped /\ text' # text =>
            \A x \in DOMAIN text' :
              text'[x].check = "pass" <=> text'[x].refs \subseteq rows' /\ ~ text'[x].mark]_vars

\* The calls never stand still: retrieve and analyze can wait for each other
\* in a circle (one deleted evidence and refers to requirements, the other
\* deleted those and falls on the evidence), and then one is aborted.  Every
\* statement brings its call nearer to its end, so every call ends.
NeverStuck == Busy # {} => \E r \in Busy : ENABLED Step(r)
=============================================================================
