----------------------- MODULE SchemaMigrationsProofs -----------------------
(***************************************************************************)
(* Proofs about SchemaMigrations, for any rows and any number of           *)
(* downgrades and crashes.                                                 *)
(*                                                                         *)
(* That each downgrade undoes its upgrade is proved of the thirteen        *)
(* scripts as they stand and of any rows.  For this nothing has to be      *)
(* known about which statements are legal: a script that raises is rolled  *)
(* back, and what one that ends well has done to the schema does not       *)
(* depend on the rows.  Two rules carry it: an upgrade only adds objects   *)
(* that the schema did not have, each with the table it belongs to, and    *)
(* its downgrade drops all of them, by name or with their table, and       *)
(* nothing else.  Only 0010 is not of this shape and is followed step by   *)
(* step.                                                                   *)
(*                                                                         *)
(* That a cleanup leaves nothing behind follows from where the tables come *)
(* from: each is created along with the foreign key that ties it to the    *)
(* notice, and no later upgrade takes that key away.                       *)
(*                                                                         *)
(* Which scripts can be refused does ask which statements are legal: each  *)
(* of the other scripts is followed statement by statement, from the       *)
(* schema the chain has before it and with any rows that can be stored     *)
(* there.                                                                  *)
(***************************************************************************)
EXTENDS SchemaMigrations, WellFoundedInduction, TLAPS

-----------------------------------------------------------------------------
(* Induction, and the two recursive functions of SchemaMigrations. *)

\* A set of numbers has a least one.
LEMMA Least ==
  ASSUME NEW T \in SUBSET Nat, T # {}
  PROVE  \E n \in T : \A m \in T : n <= m
<1>1. \E n \in T : \A m \in T : ~ (m < n)
  <2>. DEFINE R == OpToRel(<, Nat)
  <2>1. IsWellFoundedOn(R, Nat)
    BY NatLessThanWellFounded
  <2>2. \E n \in T : \A m \in T : <<m, n>> \notin R
    <3>. HIDE DEF R
    <3>. QED BY <2>1, WFMin
  <2>3. PICK n \in T : \A m \in T : <<m, n>> \notin R
    BY <2>2
  <2>. QED BY <2>3, Zenon DEF OpToRel
<1>2. \A n, m \in Nat : ~ (m < n) => n <= m
  OBVIOUS
<1>. QED BY <1>1, <1>2

\* Induction up to n, for a property given as the set of what has it.
LEMMA Induct ==
  ASSUME NEW n \in Nat, NEW G, 0 \in G, \A i \in 0..n : i # n /\ i \in G => i + 1 \in G
  PROVE  \A i \in 0..n : i \in G
<1>. DEFINE T == {i \in 0..n : i \notin G}
<1>1. SUFFICES ASSUME T # {} PROVE FALSE
  OBVIOUS
<1>2. PICK k \in T : \A m \in T : k <= m
  <2>1. T \in SUBSET Nat
    OBVIOUS
  <2>. HIDE DEF T
  <2>. QED BY <1>1, <2>1, Least
<1>3. k \in 1..n /\ k - 1 \in 0..n /\ k - 1 # n /\ k - 1 \notin T
  BY <1>2
<1>4. (k - 1) + 1 \in G
  BY <1>3
<1>. QED BY <1>2, <1>3, <1>4

\* The run of a script from a schema and rows.
IsRun(run, script, schema, rows) ==
  /\ run[0] = [ok |-> TRUE, schema |-> schema, rows |-> rows]
  /\ \A i \in 1..Len(script) : run[i] = Executed(script[i], run[i - 1])

RunUpTo(run, n, script, schema, rows) ==
  run = [i \in 0..n |-> IF i = 0 THEN [ok |-> TRUE, schema |-> schema, rows |-> rows]
                                 ELSE Executed(script[i], run[i - 1])]

\* A run of n statements exists, as a function that calls itself one step back.
LEMMA RunExists ==
  ASSUME NEW script, NEW schema, NEW rows, NEW n \in Nat
  PROVE  \E run : RunUpTo(run, n, script, schema, rows)
<1>. DEFINE start == [ok |-> TRUE, schema |-> schema, rows |-> rows]
            Good(run, k) == RunUpTo(run, k, script, schema, rows)
            G == {k \in 0..n : \E run : Good(run, k)}
<1>1. 0 \in G
  <2>. DEFINE f == [i \in 0..0 |-> start]
  <2>1. f = [i \in 0..0 |-> IF i = 0 THEN start ELSE Executed(script[i], f[i - 1])]
    OBVIOUS
  <2>2. Good(f, 0)
    BY <2>1 DEF RunUpTo
  <2>3. \E run : Good(run, 0)
    <3>. HIDE DEF Good, f
    <3>. QED BY <2>2
  <2>. HIDE DEF Good
  <2>. QED BY <2>3
<1>2. ASSUME NEW k \in 0..n, k # n, k \in G PROVE k + 1 \in G
  <2>1. PICK f : Good(f, k)
    BY <1>2
  <2>. DEFINE g == [i \in 0..(k + 1) |-> IF i = k + 1 THEN Executed(script[k + 1], f[k]) ELSE f[i]]
              h == [i \in 0..(k + 1) |-> IF i = 0 THEN start ELSE Executed(script[i], g[i - 1])]
  <2>2. ASSUME NEW i \in 0..(k + 1) PROVE g[i] = h[i]
    <3>1. CASE i = k + 1
      <4>1. i # 0 /\ i - 1 = k /\ k \in 0..(k + 1) /\ k # k + 1
        BY <3>1
      <4>. QED BY <3>1, <4>1
    <3>2. CASE i # k + 1 /\ i # 0
      <4>1. i \in 0..k /\ i - 1 \in 0..(k + 1) /\ i - 1 # k + 1
        BY <3>2
      <4>2. f[i] = Executed(script[i], f[i - 1])
        BY <2>1, <3>2, <4>1 DEF RunUpTo
      <4>3. g[i] = f[i] /\ g[i - 1] = f[i - 1]
        BY <3>2, <4>1
      <4>. QED BY <3>2, <4>2, <4>3
    <3>3. CASE i = 0 /\ i # k + 1
      BY <2>1, <3>3 DEF RunUpTo
    <3>. QED BY <3>1, <3>2, <3>3
  <2>3. g = h
    BY <2>2
  <2>4. Good(g, k + 1)
    BY <2>3 DEF RunUpTo
  <2>5. \E run : Good(run, k + 1)
    <3>. HIDE DEF Good, g, h
    <3>. QED BY <2>4
  <2>6. k + 1 \in 0..n
    BY <1>2
  <2>. HIDE DEF Good
  <2>. QED BY <2>5, <2>6
<1>. HIDE DEF G
<1>3. n \in G
  BY <1>1, <1>2, Induct
<1>4. \E run : Good(run, n)
  <2>. HIDE DEF Good
  <2>. QED BY <1>3 DEF G
<1>. QED BY <1>4

\* Ran is the last step of such a run.
LEMMA RanFacts ==
  ASSUME NEW script, NEW schema, NEW rows, Len(script) \in Nat
  PROVE  \E run : IsRun(run, script, schema, rows) /\ Ran(script, schema, rows) = run[Len(script)]
<1>. DEFINE start == [ok |-> TRUE, schema |-> schema, rows |-> rows]
            n == Len(script)
            Plain(f) == [i \in 0..n |-> IF i = 0 THEN start ELSE Executed(script[i], f[i - 1])]
            Given(f) == [i \in 0..n |-> IF i = 0 THEN start
                          ELSE The({Executed(script[i], before) : before \in {f[i - 1]}})]
            run == CHOOSE f : f = Given(f)
<1>1. \A x : The({x}) = x
  BY DEF The
<1>2. \A f, i : {Executed(script[i], before) : before \in {f[i - 1]}} = {Executed(script[i], f[i - 1])}
  OBVIOUS
<1>3. \A f : Plain(f) = Given(f)
  BY <1>1, <1>2
<1>4. \E f : f = Plain(f)
  <2>. HIDE DEF n
  <2>1. n \in Nat
    BY DEF n
  <2>2. PICK f : RunUpTo(f, n, script, schema, rows)
    BY <2>1, RunExists
  <2>3. f = Plain(f)
    BY <2>2, Zenon DEF RunUpTo
  <2>. QED BY <2>3, Zenon
<1>5. run = Plain(run)
  <2>. HIDE DEF Plain, Given
  <2>1. PICK f : f = Given(f)
    BY <1>3, <1>4
  <2>2. run = Given(run)
    BY <2>1
  <2>. QED BY <1>3, <2>2
<1>6. Ran(script, schema, rows) = run[n]
  BY DEF Ran
<1>. HIDE DEF run
<1>7. IsRun(run, script, schema, rows)
  <2>1. run[0] = start
    BY <1>5
  <2>2. \A i \in 1..n : run[i] = Executed(script[i], run[i - 1])
    <3>. SUFFICES ASSUME NEW i \in 1..n PROVE run[i] = Executed(script[i], run[i - 1])
      OBVIOUS
    <3>1. i \in 0..n /\ i # 0
      OBVIOUS
    <3>2. run[i] = Plain(run)[i]
      BY <1>5
    <3>. HIDE DEF n
    <3>. QED BY <3>1, <3>2, Zenon
  <2>. QED BY <2>1, <2>2 DEF IsRun
<1>. QED BY <1>6, <1>7

\* SchemaAt up to the revision n.
ChainUpTo(chain, n) ==
  chain = [i \in 0..n |-> IF i = 0 THEN {} ELSE Ran(Up[i], chain[i - 1], {}).schema]

\* A chain of n upgrades exists, as a function that calls itself one step back.
LEMMA ChainExists ==
  ASSUME NEW n \in Nat
  PROVE  \E chain : ChainUpTo(chain, n)
<1>. DEFINE G == {k \in 0..n : \E chain : ChainUpTo(chain, k)}
<1>1. 0 \in G
  <2>. DEFINE f == [i \in 0..0 |-> {}]
  <2>1. f = [i \in 0..0 |-> IF i = 0 THEN {} ELSE Ran(Up[i], f[i - 1], {}).schema]
    OBVIOUS
  <2>2. ChainUpTo(f, 0)
    BY <2>1 DEF ChainUpTo
  <2>3. \E chain : ChainUpTo(chain, 0)
    <3>. HIDE DEF f
    <3>. QED BY <2>2
  <2>. QED BY <2>3
<1>2. ASSUME NEW k \in 0..n, k # n, k \in G PROVE k + 1 \in G
  <2>1. PICK f : ChainUpTo(f, k)
    BY <1>2
  <2>. DEFINE g == [i \in 0..(k + 1) |-> IF i = k + 1 THEN Ran(Up[k + 1], f[k], {}).schema ELSE f[i]]
              h == [i \in 0..(k + 1) |-> IF i = 0 THEN {} ELSE Ran(Up[i], g[i - 1], {}).schema]
  <2>2. ASSUME NEW i \in 0..(k + 1) PROVE g[i] = h[i]
    <3>1. CASE i = k + 1
      <4>1. i # 0 /\ i - 1 = k /\ k \in 0..(k + 1) /\ k # k + 1
        BY <3>1
      <4>. QED BY <3>1, <4>1
    <3>2. CASE i # k + 1 /\ i # 0
      <4>1. i \in 0..k /\ i - 1 \in 0..(k + 1) /\ i - 1 # k + 1
        BY <3>2
      <4>2. f[i] = Ran(Up[i], f[i - 1], {}).schema
        BY <2>1, <3>2, <4>1 DEF ChainUpTo
      <4>3. g[i] = f[i] /\ g[i - 1] = f[i - 1]
        BY <3>2, <4>1
      <4>. QED BY <3>2, <4>2, <4>3
    <3>3. CASE i = 0 /\ i # k + 1
      BY <2>1, <3>3 DEF ChainUpTo
    <3>. QED BY <3>1, <3>2, <3>3
  <2>3. g = h
    BY <2>2
  <2>4. ChainUpTo(g, k + 1)
    BY <2>3 DEF ChainUpTo
  <2>5. \E chain : ChainUpTo(chain, k + 1)
    <3>. HIDE DEF g, h
    <3>. QED BY <2>4
  <2>6. k + 1 \in 0..n
    BY <1>2
  <2>. QED BY <2>5, <2>6
<1>. HIDE DEF G
<1>3. n \in G
  BY <1>1, <1>2, Induct
<1>. QED BY <1>3 DEF G

\* There are thirteen revisions.
LEMMA Revisions == HeadRev = 13 /\ \A n \in 0..HeadRev : n \in Nat
BY DEF HeadRev, Up

\* What the first n upgrades build.
LEMMA SchemaAtFacts ==
  /\ SchemaAt[0] = {}
  /\ \A n \in 1..HeadRev : SchemaAt[n] = Ran(Up[n], SchemaAt[n - 1], {}).schema
<1>. DEFINE Built(f) == [i \in 0..HeadRev |-> IF i = 0 THEN {} ELSE Ran(Up[i], f[i - 1], {}).schema]
<1>1. PICK chain : chain = Built(chain)
  <2>1. PICK f : ChainUpTo(f, HeadRev)
    BY Revisions, ChainExists
  <2>2. f = Built(f)
    BY <2>1, Zenon DEF ChainUpTo
  <2>. QED BY <2>2, Zenon
<1>2. SchemaAt = CHOOSE f : f = Built(f)
  BY DEF SchemaAt
<1>3. SchemaAt = Built(SchemaAt)
  <2>. HIDE DEF Built
  <2>. QED BY <1>1, <1>2
<1>4. 0 \in 0..HeadRev /\ \A n \in 1..HeadRev : n \in 0..HeadRev /\ n # 0
  BY Revisions
<1>. QED BY <1>3, <1>4, Zenon
-----------------------------------------------------------------------------
(* Runs of scripts. *)

IsResult(x) == x.ok \in BOOLEAN /\ x = [ok |-> x.ok, schema |-> x.schema, rows |-> x.rows]

\* A statement that has run was legal and had its effect.
LEMMA ExecutedFacts ==
  ASSUME NEW statement, NEW run, IsResult(run)
  PROVE  /\ IsResult(Executed(statement, run))
         /\ Executed(statement, run).ok <=> run.ok /\ Legal(statement, run.schema, run.rows)
         /\ Executed(statement, run).ok =>
              /\ Executed(statement, run).schema = After(statement, run.schema)
              /\ Executed(statement, run).rows = RowsAfter(statement, run.schema, run.rows)
<1>1. CASE run.ok /\ Legal(statement, run.schema, run.rows)
  BY <1>1 DEF Executed, IsResult
<1>2. CASE ~ (run.ok /\ Legal(statement, run.schema, run.rows))
  <2>1. Executed(statement, run) = [run EXCEPT !.ok = FALSE]
    BY <1>2 DEF Executed
  <2>2. /\ Executed(statement, run) = [ok |-> FALSE, schema |-> run.schema, rows |-> run.rows]
    BY <2>1 DEF IsResult
  <2>. QED BY <1>2, <2>2 DEF IsResult
<1>. QED BY <1>1, <1>2

\* Of a run that ends well every statement was legal and had its effect.
WentWell(run, script, schema) ==
  /\ run[0].schema = schema
  /\ \A i \in 1..Len(script) : /\ Legal(script[i], run[i - 1].schema, run[i - 1].rows)
                               /\ run[i].schema = After(script[i], run[i - 1].schema)

\* A run that ends well went well at every statement, and the other way round.
LEMMA RunFacts ==
  ASSUME NEW script, NEW schema, NEW rows, Len(script) \in Nat,
         NEW run, IsRun(run, script, schema, rows)
  PROVE  /\ IsResult(run[Len(script)])
         /\ run[Len(script)].ok => WentWell(run, script, schema)
         /\ WentWell(run, script, schema) => run[Len(script)].ok
<1>. DEFINE n == Len(script)
            G == {k \in 0..n : IsResult(run[k])}
            Fine(i) == /\ Legal(script[i], run[i - 1].schema, run[i - 1].rows)
                       /\ run[i].schema = After(script[i], run[i - 1].schema)
            H == {k \in 0..n : run[k].ok => \A i \in 1..k : Fine(i)}
            F == {k \in 0..n : (\A i \in 1..n : Fine(i)) => run[k].ok}
<1>1. run[0].schema = schema /\ run[0].ok /\ IsResult(run[0])
  BY DEF IsRun, IsResult
<1>2. \A k \in 0..n : k # n => run[k + 1] = Executed(script[k + 1], run[k])
  BY DEF IsRun
<1>3. \A k \in 0..n : IsResult(run[k])
  <2>1. 0 \in G
    BY <1>1
  <2>2. \A k \in 0..n : k # n /\ k \in G => k + 1 \in G
    BY <1>2, ExecutedFacts
  <2>3. n \in Nat
    OBVIOUS
  <2>. HIDE DEF n, G
  <2>4. \A k \in 0..n : k \in G
    BY <2>1, <2>2, <2>3, Induct
  <2>. QED BY <2>4 DEF G
<1>4. \A k \in 0..n : k # n =>
        /\ run[k + 1].ok <=> run[k].ok /\ Legal(script[k + 1], run[k].schema, run[k].rows)
        /\ run[k + 1].ok => run[k + 1].schema = After(script[k + 1], run[k].schema)
  BY <1>2, <1>3, ExecutedFacts
<1>5. \A k \in H : k # n => k + 1 \in H
  <2>. SUFFICES ASSUME NEW k \in H, k # n, run[k + 1].ok, NEW i \in 1..(k + 1) PROVE Fine(i)
    OBVIOUS
  <2>1. CASE i = k + 1
    <3>1. i - 1 = k /\ k \in 0..n
      BY <2>1
    <3>. QED BY <1>4, <2>1, <3>1
  <2>2. CASE i # k + 1
    <3>1. run[k].ok /\ i \in 1..k
      BY <1>4, <2>2
    <3>. QED BY <3>1
  <2>. QED BY <2>1, <2>2
<1>6. \A k \in F : k # n => k + 1 \in F
  <2>. SUFFICES ASSUME NEW k \in F, k # n, \A i \in 1..n : Fine(i) PROVE run[k + 1].ok
    OBVIOUS
  <2>1. k + 1 \in 1..n /\ (k + 1) - 1 = k /\ k \in 0..n
    OBVIOUS
  <2>2. Fine(k + 1) /\ run[k].ok
    BY <2>1
  <2>. QED BY <1>4, <2>1, <2>2
<1>7. 0 \in H /\ 0 \in F /\ n \in Nat /\ n \in 0..n
  BY <1>1
<1>8. n \in H
  <2>. HIDE DEF n, H
  <2>. QED BY <1>5, <1>7, Induct
<1>9. n \in F
  <2>. HIDE DEF n, F
  <2>. QED BY <1>6, <1>7, Induct
<1>10. IsResult(run[n])
  BY <1>3
<1>. QED BY <1>1, <1>8, <1>9, <1>10 DEF WentWell

\* What a script does to the schema does not depend on the rows; rows can only
\* make it fail.
LEMMA RowsOnlyRefuse ==
  ASSUME NEW script, NEW schema, NEW rows, Len(script) \in Nat, Ran(script, schema, rows).ok
  PROVE  Ran(script, schema, {}).ok /\ Ran(script, schema, {}).schema = Ran(script, schema, rows).schema
<1>. DEFINE n == Len(script)
<1>1. PICK run : IsRun(run, script, schema, rows) /\ Ran(script, schema, rows) = run[n]
  BY RanFacts
<1>2. PICK bare : IsRun(bare, script, schema, {}) /\ Ran(script, schema, {}) = bare[n]
  BY RanFacts
<1>3. WentWell(run, script, schema)
  BY <1>1, RunFacts
<1>. DEFINE G == {k \in 0..n : bare[k].ok /\ bare[k].schema = run[k].schema /\ IsResult(bare[k])
                             /\ bare[k].rows = {}}
<1>4. 0 \in G /\ n \in Nat /\ n \in 0..n
  <2>1. bare[0] = [ok |-> TRUE, schema |-> schema, rows |-> {}] /\ run[0].schema = schema
    BY <1>2, <1>3 DEF IsRun, WentWell
  <2>2. bare[0].ok /\ bare[0].schema = run[0].schema /\ IsResult(bare[0]) /\ bare[0].rows = {}
    BY <2>1 DEF IsResult
  <2>. QED BY <2>2
<1>5. ASSUME NEW k \in G, k # n PROVE k + 1 \in G
  <2>1. k + 1 \in 1..n /\ (k + 1) - 1 = k
    BY <1>5
  <2>2. /\ Legal(script[k + 1], run[k].schema, run[k].rows)
        /\ run[k + 1].schema = After(script[k + 1], run[k].schema)
    BY <1>3, <2>1 DEF WentWell
  <2>3. Legal(script[k + 1], bare[k].schema, run[k].rows)
    BY <2>2, <1>5
  <2>4. Legal(script[k + 1], bare[k].schema, bare[k].rows)
    BY <1>5, <2>3 DEF Legal
  <2>5. bare[k + 1] = Executed(script[k + 1], bare[k])
    BY <1>2, <2>1 DEF IsRun
  <2>6. RowsAfter(script[k + 1], bare[k].schema, {}) = {}
    BY DEF RowsAfter
  <2>7. /\ bare[k + 1].ok /\ bare[k + 1].schema = run[k + 1].schema
        /\ IsResult(bare[k + 1]) /\ bare[k + 1].rows = {}
    <3>1. /\ IsResult(bare[k]) /\ bare[k].ok /\ bare[k].schema = run[k].schema /\ bare[k].rows = {}
      BY <1>5
    <3>. HIDE DEF G
    <3>2. PICK b : b = bare[k]
      OBVIOUS
    <3>3. PICK c : c = bare[k + 1]
      OBVIOUS
    <3>4. /\ IsResult(b) /\ b.ok /\ b.rows = {} /\ Legal(script[k + 1], b.schema, b.rows)
          /\ RowsAfter(script[k + 1], b.schema, {}) = {} /\ c = Executed(script[k + 1], b)
      BY <2>4, <2>5, <2>6, <3>1, <3>2, <3>3
    <3>5. IsResult(c) /\ c.ok /\ c.schema = After(script[k + 1], b.schema) /\ c.rows = {}
      BY <3>4, ExecutedFacts
    <3>6. c.schema = run[k + 1].schema
      BY <2>2, <3>1, <3>2, <3>5
    <3>. QED BY <3>3, <3>5, <3>6
  <2>. QED BY <2>1, <2>7
<1>6. n \in G
  <2>. HIDE DEF n, G
  <2>. QED BY <1>4, <1>5, Induct
<1>. QED BY <1>1, <1>2, <1>6

SetUpdatedAt == Function("set_updated_at")

\* An object belongs to a table of the schema, the function to none.
Owned(o, schema) == o = SetUpdatedAt \/ Table(o[2]) \in schema

Sound(schema) == \A o \in schema : Owned(o, schema)

Proper(o) == /\ o[1] = "table" => o = Table(o[2]) /\ o[2] # "set_updated_at"
             /\ o[1] = "function" => o = SetUpdatedAt

Built(script) == UNION {script[j].objects : j \in {i \in 1..Len(script) :
                          script[i].sql \in {"create", "create if missing"}}}

\* An upgrade that adds objects, and drops triggers of its own tables at most.
Builds(script, schema) ==
  \A i \in 1..Len(script) :
    \/ script[i].sql = "create" /\ \A o \in script[i].objects : Proper(o)
    \/ /\ script[i].sql = "create if missing"
       /\ \A o \in script[i].objects : Proper(o) /\ o \notin schema /\ Owned(o, schema)
    \/ /\ script[i].sql = "drop if exists"
       /\ \A o \in script[i].objects :
            /\ o[1] = "trigger"
            /\ \E j \in 1..(i - 1) : script[j].sql = "create" /\ Table(o[2]) \in script[j].objects
    \/ script[i] = Backfill

\* A downgrade that drops all of it, by name or with its table.
Undoes(script, upgrade) ==
  /\ \A j \in 1..Len(script) : /\ script[j].sql \in {"drop", "drop if exists"}
                               /\ script[j].objects \subseteq Built(upgrade)
  /\ \A o \in Built(upgrade) : \E j \in 1..Len(script) :
       \/ o \in script[j].objects
       \/ \E p \in script[j].objects : p[1] = "table" /\ p[2] = o[2]

\* The kind of an object and the table it belongs to.
LEMMA ObjectFacts ==
  /\ \A t : Table(t)[1] = "table" /\ Table(t)[2] = t
  /\ SetUpdatedAt[1] = "function" /\ SetUpdatedAt[2] = "set_updated_at"
  /\ Backfill.sql = "backfill" /\ Backfill.objects = {}
BY DEF Table, SetUpdatedAt, Function, Backfill

\* An upgrade that builds adds only objects the schema did not have, each with
\* its table, and takes none away.
LEMMA UpFacts ==
  ASSUME NEW u, NEW s, NEW rows, Len(u) \in Nat, Sound(s), Builds(u, s), Ran(u, s, rows).ok
  PROVE  LET after == Ran(u, s, rows).schema
         IN  /\ Sound(after) /\ s \subseteq after /\ after \subseteq s \cup Built(u)
             /\ \A o \in Built(u) : o \notin s /\ (o[1] # "trigger" => o \in after)
<1>. DEFINE n == Len(u)
<1>1. PICK run : IsRun(run, u, s, rows) /\ Ran(u, s, rows) = run[n]
  BY RanFacts
<1>2. WentWell(run, u, s)
  BY <1>1, RunFacts
<1>. DEFINE Adds(j) == u[j].sql \in {"create", "create if missing"}
            Good(k, r) == /\ s \subseteq r /\ r \subseteq s \cup Built(u) /\ Sound(r)
                          /\ \A j \in 1..k : Adds(j) => \A o \in u[j].objects :
                               o \notin s /\ (o[1] # "trigger" => o \in r)
            G == {k \in 0..n : Good(k, run[k].schema)}
<1>3. 0 \in G /\ n \in Nat /\ n \in 0..n
  <2>1. run[0].schema = s /\ 1..0 = {}
    BY <1>2 DEF WentWell
  <2>2. Good(0, s)
    BY <2>1
  <2>. HIDE DEF Good
  <2>. QED BY <2>1, <2>2
<1>4. ASSUME NEW k \in G, k # n PROVE k + 1 \in G
  <2>. DEFINE i == k + 1
              st == u[i]
              r == run[k].schema
              new == run[i].schema
  <2>1. i \in 1..n /\ i - 1 = k /\ Good(k, r) /\ \A j \in 1..i : j = i \/ j \in 1..k
    <3>1. k \in 0..n /\ Good(k, r)
      BY <1>4
    <3>. HIDE DEF Good, r
    <3>. QED BY <1>4, <3>1
  <2>. SUFFICES Good(i, new)
    <3>. HIDE DEF Good
    <3>1. i \in 0..n
      BY <2>1
    <3>. HIDE DEF n
    <3>. QED BY <3>1
  <2>2. Legal(st, r, run[k].rows) /\ new = After(st, r)
    BY <1>2, <2>1 DEF WentWell
  <2>3. ASSUME Adds(i), new = r \cup st.objects,
               \A o \in st.objects : o \notin s /\ Owned(o, new)
        PROVE  Good(i, new)
    <3>1. st.objects \subseteq Built(u)
      BY <2>1, <2>3 DEF Built
    <3>2. Sound(new)
      BY <2>1, <2>3 DEF Sound, Owned
    <3>. HIDE DEF i, r, new
    <3>. QED BY <2>1, <2>3, <3>1, <3>2
  <2>4. CASE st.sql = "create" /\ \A o \in st.objects : Proper(o)
    <3>1. new = r \cup st.objects
      BY <2>2, <2>4 DEF After
    <3>2. /\ st.objects \cap r = {}
          /\ \A o \in st.objects : Needs(o) \subseteq r \cup st.objects
      BY <2>2, <2>4 DEF Legal
    <3>3. ASSUME NEW o \in st.objects PROVE Owned(o, new)
      <4>1. CASE o[1] = "table"
        BY <2>4, <3>1, <4>1 DEF Proper, Owned
      <4>2. CASE o[1] = "function"
        BY <2>4, <4>2 DEF Proper, Owned
      <4>3. CASE o[1] \notin {"table", "function"}
        BY <3>1, <3>2, <4>3 DEF Needs, Owned
      <4>. QED BY <4>1, <4>2, <4>3
    <3>4. \A o \in st.objects : o \notin s
      BY <2>1, <3>2
    <3>. HIDE DEF i, r, new, Good
    <3>. QED BY <2>3, <2>4, <3>1, <3>3, <3>4 DEF i
  <2>5. CASE /\ st.sql = "create if missing"
             /\ \A o \in st.objects : Proper(o) /\ o \notin s /\ Owned(o, s)
    <3>1. new = r \cup st.objects
      BY <2>2, <2>5 DEF After
    <3>2. \A o \in st.objects : Owned(o, new)
      BY <2>1, <2>5, <3>1 DEF Owned
    <3>. HIDE DEF i, r, new, Good
    <3>. QED BY <2>3, <2>5, <3>1, <3>2 DEF i
  <2>6. CASE /\ st.sql = "drop if exists"
             /\ \A o \in st.objects :
                  /\ o[1] = "trigger"
                  /\ \E j \in 1..(i - 1) : u[j].sql = "create" /\ Table(o[2]) \in u[j].objects
    <3>1. Of("table", st.objects) = {}
      BY <2>6 DEF Of
    <3>2. new = r \ st.objects
      BY <2>2, <2>6, <3>1 DEF After
    <3>3. ASSUME NEW o \in st.objects PROVE o \notin s
      <4>1. o # SetUpdatedAt
        BY <2>6, ObjectFacts
      <4>2. Table(o[2]) \notin s
        BY <2>1, <2>6
      <4>. QED BY <4>1, <4>2 DEF Sound, Owned
    <3>4. \A t : Table(t) \in r => Table(t) \in new
      BY <2>6, <3>2, ObjectFacts
    <3>5. Sound(new)
      BY <2>1, <3>2, <3>4 DEF Sound, Owned
    <3>6. ~ Adds(i)
      BY <2>6
    <3>. HIDE DEF i, r, new
    <3>. QED BY <2>1, <2>6, <3>2, <3>3, <3>5, <3>6
  <2>7. CASE st = Backfill
    <3>1. st.sql = "backfill" /\ st.objects = {}
      BY <2>7, ObjectFacts
    <3>2. Of("table", st.objects) = {}
      BY <3>1 DEF Of
    <3>3. new = r
      BY <2>2, <3>1, <3>2 DEF After
    <3>4. ~ Adds(i)
      BY <3>1
    <3>. HIDE DEF i, r, new
    <3>. QED BY <2>1, <3>3, <3>4
  <2>. HIDE DEF Good
  <2>. QED BY <2>1, <2>4, <2>5, <2>6, <2>7 DEF Builds
<1>5. n \in G
  <2>. HIDE DEF n, G
  <2>. QED BY <1>3, <1>4, Induct
<1>. QED BY <1>1, <1>5 DEF Built

\* A downgrade that drops all that its upgrade has added restores the schema
\* the upgrade found.
LEMMA DownFacts ==
  ASSUME NEW d, NEW u, NEW s, NEW after, NEW rows, Len(d) \in Nat, Len(u) \in Nat,
         Sound(s), Undoes(d, u), \A o \in Built(u) : Proper(o) /\ o \notin s,
         s \subseteq after, after \subseteq s \cup Built(u), Ran(d, after, rows).ok
  PROVE  Ran(d, after, rows).schema = s
<1>. DEFINE n == Len(d)
            Hit(j, o) == \/ o \in d[j].objects
                         \/ \E p \in d[j].objects : p[1] = "table" /\ p[2] = o[2]
            Left(k) == {o \in after : \A j \in 1..k : ~ Hit(j, o)}
<1>1. PICK run : IsRun(run, d, after, rows) /\ Ran(d, after, rows) = run[n]
  BY RanFacts
<1>2. WentWell(run, d, after)
  BY <1>1, RunFacts
<1>. DEFINE G == {k \in 0..n : run[k].schema = Left(k)}
<1>3. 0 \in G /\ n \in Nat /\ n \in 0..n
  BY <1>2 DEF WentWell
<1>4. ASSUME NEW k \in G, k # n PROVE k + 1 \in G
  <2>. DEFINE i == k + 1
  <2>1. i \in 1..n /\ i - 1 = k /\ run[k].schema = Left(k) /\ i \in 0..n
    BY <1>4
  <2>2. run[i].schema = After(d[i], Left(k)) /\ d[i].sql \in {"drop", "drop if exists"}
    <3>1. run[k].schema = Left(k) /\ i \in 1..n /\ i - 1 = k
      BY <2>1
    <3>2. run[i].schema = After(d[i], run[k].schema)
      BY <1>2, <3>1 DEF WentWell
    <3>3. d[i].sql \in {"drop", "drop if exists"}
      BY <3>1 DEF Undoes
    <3>. HIDE DEF Left, i
    <3>. QED BY <3>1, <3>2, <3>3
  <2>3. After(d[i], Left(k)) = {o \in Left(k) : ~ Hit(i, o)}
    <3>1. After(d[i], Left(k)) = {o \in Left(k) \ d[i].objects :
                                    o[2] \notin {p[2] : p \in Of("table", d[i].objects)}}
      BY <2>2 DEF After
    <3>. HIDE DEF Left
    <3>. QED BY <3>1 DEF Of
  <2>4. {o \in Left(k) : ~ Hit(i, o)} = Left(i)
    <3>1. \A j \in 1..i : j = i \/ j \in 1..k
      BY <2>1
    <3>2. i \in 1..i /\ \A j \in 1..k : j \in 1..i
      BY <2>1
    <3>. HIDE DEF Hit, i
    <3>. QED BY <3>1, <3>2
  <2>5. run[i].schema = Left(i)
    BY <2>2, <2>3, <2>4
  <2>. HIDE DEF Left
  <2>. QED BY <2>1, <2>5
<1>5. n \in G
  <2>. HIDE DEF n, G
  <2>. QED BY <1>3, <1>4, Induct
<1>6. Left(n) = s
  <2>1. ASSUME NEW o \in Left(n) PROVE o \in s
    BY <2>1 DEF Undoes
  <2>2. ASSUME NEW o \in s, NEW j \in 1..n, Hit(j, o) PROVE FALSE
    <3>1. d[j].objects \subseteq Built(u)
      BY DEF Undoes
    <3>2. PICK p \in d[j].objects : p[1] = "table" /\ p[2] = o[2]
      BY <2>2, <3>1
    <3>3. p = Table(o[2]) /\ o[2] # "set_updated_at" /\ p \notin s
      BY <3>1, <3>2 DEF Proper
    <3>4. o # SetUpdatedAt
      BY <3>3, ObjectFacts
    <3>. QED BY <3>3, <3>4 DEF Sound, Owned
  <2>. QED BY <2>1, <2>2
<1>. QED BY <1>1, <1>5, <1>6

\* What is needed of a revision: its upgrade keeps the schema sound and its
\* downgrade takes back what it did.
Reverts(u, d, s) ==
  LET after == Ran(u, s, {}).schema
  IN  /\ Sound(after)
      /\ \A rows : Ran(d, after, rows).ok => Ran(d, after, rows).schema = s

\* An upgrade that builds and a downgrade that undoes it: the downgrade leads
\* back.
LEMMA PairFacts ==
  ASSUME NEW u, NEW d, NEW s, Len(u) \in Nat, Len(d) \in Nat, Sound(s),
         Builds(u, s), Undoes(d, u), Ran(u, s, {}).ok
  PROVE  Reverts(u, d, s)
<1>. DEFINE after == Ran(u, s, {}).schema
<1>1. /\ Sound(after) /\ s \subseteq after /\ after \subseteq s \cup Built(u)
      /\ \A o \in Built(u) : o \notin s
  BY UpFacts
<1>2. \A o \in Built(u) : Proper(o)
  <2>1. ASSUME NEW j \in 1..Len(u), u[j].sql \in {"create", "create if missing"}, NEW o \in u[j].objects
        PROVE  Proper(o)
    BY <2>1, ObjectFacts DEF Builds
  <2>. QED BY <2>1 DEF Built
<1>3. ASSUME NEW rows, Ran(d, after, rows).ok PROVE Ran(d, after, rows).schema = s
  <2>. HIDE DEF after
  <2>. QED BY <1>1, <1>2, <1>3, DownFacts
<1>. QED BY <1>1, <1>3 DEF Reverts
-----------------------------------------------------------------------------
(* The scripts. *)

\* An object that no statement drops but the one that is meant to.
Plain(o) == Proper(o) /\ o[1] # "trigger"

\* A statement that creates a table with what belongs to it.
Creates(st, t) == /\ st.sql = "create" /\ Table(t) \in st.objects
                  /\ \A o \in st.objects : Plain(o) /\ o[2] = t

\* Every statement of d drops what one statement of u has created.
OnlyDrops(d, u) ==
  \A j \in 1..Len(d) :
    /\ d[j].sql \in {"drop", "drop if exists"}
    /\ \E i \in 1..Len(u) : /\ u[i].sql \in {"create", "create if missing"}
                            /\ d[j].objects \subseteq u[i].objects

\* All that a statement of u creates is dropped by one of d, by name or with
\* its table.
DropsAll(d, u) ==
  \A i \in 1..Len(u) : u[i].sql \in {"create", "create if missing"} =>
    \E j \in 1..Len(d) :
      \/ u[i].objects \subseteq d[j].objects
      \/ \E t : Table(t) \in d[j].objects /\ \A o \in u[i].objects : o[2] = t

\* A downgrade that goes statement by statement undoes the upgrade.
LEMMA UndoRule ==
  ASSUME NEW u, NEW d, Len(u) \in Nat, Len(d) \in Nat, OnlyDrops(d, u), DropsAll(d, u)
  PROVE  Undoes(d, u)
<1>. USE DEF OnlyDrops, DropsAll
<1>1. ASSUME NEW j \in 1..Len(d) PROVE d[j].objects \subseteq Built(u)
  BY DEF Built
<1>2. ASSUME NEW o \in Built(u)
      PROVE  \E j \in 1..Len(d) : \/ o \in d[j].objects
                                  \/ \E p \in d[j].objects : p[1] = "table" /\ p[2] = o[2]
  <2>1. PICK i \in 1..Len(u) : o \in u[i].objects /\ u[i].sql \in {"create", "create if missing"}
    BY DEF Built
  <2>2. PICK j \in 1..Len(d) :
          \/ u[i].objects \subseteq d[j].objects
          \/ \E t : Table(t) \in d[j].objects /\ \A x \in u[i].objects : x[2] = t
    BY <2>1
  <2>3. CASE u[i].objects \subseteq d[j].objects
    BY <2>1, <2>3
  <2>4. ASSUME NEW t, Table(t) \in d[j].objects, \A x \in u[i].objects : x[2] = t
        PROVE  \E p \in d[j].objects : p[1] = "table" /\ p[2] = o[2]
    <3>1. Table(t)[1] = "table" /\ Table(t)[2] = t
      BY ObjectFacts
    <3>2. o[2] = t
      BY <2>1, <2>4
    <3>. WITNESS Table(t) \in d[j].objects
    <3>. QED BY <3>1, <3>2
  <2>. QED BY <2>2, <2>3, <2>4
<1>. QED BY <1>1, <1>2 DEF Undoes

\* What an object belongs to.
LEMMA PartFacts ==
  /\ \A t : t # "set_updated_at" => Plain(Table(t))
  /\ \A t, c : Column(t, c)[2] = t /\ Plain(Column(t, c))
  /\ \A t, c : Index(t, c)[2] = t /\ Plain(Index(t, c))
  /\ \A t : Trigger(t)[1] = "trigger" /\ Trigger(t)[2] = t /\ Proper(Trigger(t))
  /\ \A t, c, v : Domain(t, c, v)[2] = t /\ Plain(Domain(t, c, v))
  /\ \A t, c, p, r : Ref(t, c, p, r)[2] = t /\ Plain(Ref(t, c, p, r))
  /\ \A t : ByNotice(t)[2] = t /\ Plain(ByNotice(t))
  /\ \A t, N : \A o \in Indexes(t, N) : o[2] = t /\ Plain(o)
  /\ \A t, N : \A o \in Columns(t, N) : o[2] = t /\ Plain(o)
BY DEF Plain, Proper, Table, Column, Index, Trigger, Domain, Ref, ByNotice, Indexes, Columns

\* What a statement that creates says to do, and with which objects.
LEMMA CreateReads ==
  ASSUME NEW X, NEW st, st = Create(X)
  PROVE  st.sql = "create" /\ st.objects = X
BY DEF Create

\* One that creates what is not there yet.
LEMMA IfMissingReads ==
  ASSUME NEW X, NEW st, st = CreateIfMissing(X)
  PROVE  st.sql = "create if missing" /\ st.objects = X
BY DEF CreateIfMissing

\* One that drops.
LEMMA DropReads ==
  ASSUME NEW X, NEW st, st = Drop(X)
  PROVE  st.sql = "drop" /\ st.objects = X
BY DEF Drop

\* One that drops what is there.
LEMMA IfExistsReads ==
  ASSUME NEW X, NEW st, st = DropIfExists(X)
  PROVE  st.sql = "drop if exists" /\ st.objects = X
BY DEF DropIfExists

\* One that drops a table.
LEMMA DropTableReads ==
  ASSUME NEW t, NEW st, st = DropTable(t)
  PROVE  st.sql = "drop" /\ st.objects = {Table(t)}
BY DEF DropTable, Drop

Belong(X, t) == \A o \in X : Plain(o) /\ o[2] = t

\* A statement that creates a table and what belongs to it.
LEMMA CreatesTable ==
  ASSUME NEW t, NEW X, Belong(X, t), Table(t) \in X, NEW st, st = Create(X)
  PROVE  Creates(st, t)
BY DEF Create, Creates, Belong


\* The statement un takes back what the statement st creates.
Inverse(st, un) ==
  \/ \E t : Creates(st, t) /\ un = DropTable(t)
  \/ \E X : st = Create(X) /\ un = Drop(X) /\ \A o \in X : Proper(o)

\* What a statement that creates something and the one that takes it back do.
LEMMA InverseFacts ==
  ASSUME NEW st, NEW un, Inverse(st, un)
  PROVE  /\ st.sql = "create"
         /\ \A o \in st.objects : Proper(o)
         /\ un.sql = "drop"
         /\ un.objects \subseteq st.objects
         /\ \/ st.objects \subseteq un.objects
            \/ \E t : Table(t) \in un.objects /\ \A o \in st.objects : o[2] = t
<1>1. CASE \E t : Creates(st, t) /\ un = DropTable(t)
  <2>1. PICK t : Creates(st, t) /\ un = DropTable(t)
    BY <1>1
  <2>2. un.sql = "drop" /\ un.objects = {Table(t)}
    BY <2>1, DropTableReads, Zenon
  <2>3. /\ st.sql = "create" /\ Table(t) \in st.objects
        /\ \A o \in st.objects : Proper(o) /\ o[2] = t
    BY <2>1 DEF Creates, Plain
  <2>4. Table(t) \in un.objects /\ \A o \in st.objects : o[2] = t
    BY <2>2, <2>3
  <2>. QED BY <2>2, <2>3, <2>4
<1>2. CASE \E X : st = Create(X) /\ un = Drop(X) /\ \A o \in X : Proper(o)
  <2>1. PICK X : st = Create(X) /\ un = Drop(X) /\ \A o \in X : Proper(o)
    BY <1>2
  <2>2. /\ st.sql = "create" /\ st.objects = X
        /\ un.sql = "drop" /\ un.objects = X
    BY <2>1 DEF Create, Drop
  <2>. QED BY <2>1, <2>2
<1>. QED BY <1>1, <1>2 DEF Inverse

\* A downgrade that takes back every statement, the last one first.
LEMMA ReverseRule ==
  ASSUME NEW u, NEW d, NEW n \in Nat, Len(u) = n, Len(d) = n,
         \A i \in 1..n : Inverse(u[i], d[n + 1 - i])
  PROVE  Undoes(d, u) /\ \A s : Builds(u, s)
<1>1. ASSUME NEW s PROVE Builds(u, s)
  <2>1. ASSUME NEW i \in 1..Len(u)
        PROVE  u[i].sql = "create" /\ \A o \in u[i].objects : Proper(o)
    <3>1. Inverse(u[i], d[n + 1 - i])
      OBVIOUS
    <3>. QED BY <3>1, InverseFacts
  <2>. QED BY <2>1 DEF Builds
<1>2. \A j \in 1..n : n + 1 - j \in 1..n /\ n + 1 - (n + 1 - j) = j
  OBVIOUS
<1>3. ASSUME NEW j \in 1..n
      PROVE  /\ d[j].sql \in {"drop", "drop if exists"}
             /\ \E i \in 1..n : /\ u[i].sql \in {"create", "create if missing"}
                                /\ d[j].objects \subseteq u[i].objects
  <2>1. PICK i \in 1..n : n + 1 - i = j
    BY <1>2
  <2>2. Inverse(u[i], d[j])
    BY <2>1
  <2>. QED BY <2>2, InverseFacts
<1>4. ASSUME NEW i \in 1..n
      PROVE  \E j \in 1..n :
               \/ u[i].objects \subseteq d[j].objects
               \/ \E t : Table(t) \in d[j].objects /\ \A o \in u[i].objects : o[2] = t
  <2>1. Inverse(u[i], d[n + 1 - i])
    OBVIOUS
  <2>. QED BY <1>2, <2>1, InverseFacts
<1>5. Undoes(d, u)
  <2>1. OnlyDrops(d, u)
    BY <1>3 DEF OnlyDrops
  <2>2. DropsAll(d, u)
    BY <1>4 DEF DropsAll
  <2>. QED BY <2>1, <2>2, UndoRule
<1>. QED BY <1>1, <1>5

\* The fact about foreign keys, on its own for the provers.
LEMMA RefFacts == \A t, c, p, r : Ref(t, c, p, r)[2] = t /\ Plain(Ref(t, c, p, r))
BY PartFacts

\* Dropping the table takes back what was created with it.
LEMMA TableInverse ==
  ASSUME NEW t, NEW X, Belong(X, t), Table(t) \in X
  PROVE  Inverse(Create(X), DropTable(t))
BY CreatesTable DEF Inverse

\* Dropping what was created takes it back.
LEMMA PartInverse ==
  ASSUME NEW t, NEW X, Belong(X, t)
  PROVE  Inverse(Create(X), Drop(X))
BY DEF Inverse, Belong, Plain

\* A revision whose downgrade restores any schema that its upgrade fits.
Reversible(u, d) ==
  /\ Len(u) \in Nat /\ Len(d) \in Nat
  /\ \A s : Sound(s) /\ Ran(u, s, {}).ok => Reverts(u, d, s)

\* An upgrade that only adds, triggers apart.
Grows(u, s) ==
  LET after == Ran(u, s, {}).schema
  IN  s \subseteq after /\ \A o \in Built(u) : o[1] # "trigger" => o \in after

Additive(u, d) ==
  Reversible(u, d) /\ \A s : Sound(s) /\ Ran(u, s, {}).ok => Grows(u, s)

\* What is to be shown of the scripts of a revision that only adds.
LEMMA AdditiveRule ==
  ASSUME NEW u, NEW d, Len(u) \in Nat, Len(d) \in Nat, Undoes(d, u), \A s : Builds(u, s)
  PROVE  Additive(u, d)
<1>1. Reversible(u, d)
  BY PairFacts DEF Reversible
<1>2. ASSUME NEW s, Sound(s), Ran(u, s, {}).ok PROVE Grows(u, s)
  BY <1>2, UpFacts DEF Grows
<1>. QED BY <1>1, <1>2 DEF Additive

\* The downgrade that takes back every statement in reverse order is one.
LEMMA ReverseAdditive ==
  ASSUME NEW u, NEW d, NEW n \in Nat, Len(u) = n, Len(d) = n,
         \A i \in 1..n : Inverse(u[i], d[n + 1 - i])
  PROVE  Additive(u, d)
<1>1. Undoes(d, u) /\ \A s : Builds(u, s)
  BY ReverseRule
<1>. QED BY <1>1, AdditiveRule

\* 0004 fills in dates and has no downgrade: the schema stays.
LEMMA Revision0004 == Additive(Up0004, Down0004)
<1>1. /\ Len(Up0004) = 1 /\ Up0004[1] = Backfill
      /\ Len(Down0004) = 0
  BY DEF Up0004, Down0004
<1>2. \A i \in 1..Len(Up0004) : Up0004[i] = Backfill
  BY <1>1
<1>3. (\A s : Builds(Up0004, s)) /\ Built(Up0004) = {}
  <2>1. \A s : Builds(Up0004, s)
    BY <1>2 DEF Builds
  <2>2. \A i \in 1..Len(Up0004) : Up0004[i].sql \notin {"create", "create if missing"}
    BY <1>2, ObjectFacts
  <2>. QED BY <2>1, <2>2 DEF Built
<1>4. Undoes(Down0004, Up0004)
  BY <1>1, <1>3 DEF Undoes
<1>. QED BY <1>1, <1>3, <1>4, AdditiveRule

\* 0010b does nothing either way.
LEMMA Revision0010b == Additive(Up0010b, Down0010b)
<1>1. Len(Up0010b) = 0 /\ Len(Down0010b) = 0
  BY DEF Up0010b, Down0010b
<1>2. \A i \in 1..0 : Inverse(Up0010b[i], Down0010b[0 + 1 - i])
  OBVIOUS
<1>. QED BY <1>1, <1>2, ReverseAdditive

\* 0005 creates the spec items.
LEMMA Statements0005 == Len(Up0005) = 1 /\ Creates(Up0005[1], "notice_spec_items")
<1>. DEFINE X == Up0005[1].objects
<1>1. Len(Up0005) = 1 /\ Up0005[1] = Create(X) /\ Table("notice_spec_items") \in X
  BY DEF Up0005, Create
<1>2. Belong(X, "notice_spec_items")
  BY PartFacts, ObjectFacts DEF Up0005, Belong, Create
<1>. HIDE DEF X
<1>. QED BY <1>1, <1>2, CreatesTable

\* 0006 adds the review columns and creates exports and errors.
LEMMA Statements0006 ==
  /\ Len(Up0006) = 3
  /\ Up0006[1] = Create(ReviewColumns) /\ Belong(ReviewColumns, "notice_spec_items")
  /\ Creates(Up0006[2], "notice_exports") /\ Creates(Up0006[3], "notice_errors")
<1>. DEFINE X == Up0006[2].objects
            Y == Up0006[3].objects
<1>1. /\ Len(Up0006) = 3 /\ Up0006[1] = Create(ReviewColumns)
      /\ Up0006[2] = Create(X) /\ Table("notice_exports") \in X
      /\ Up0006[3] = Create(Y) /\ Table("notice_errors") \in Y
  BY DEF Up0006, Create
<1>2. /\ Belong(ReviewColumns, "notice_spec_items")
      /\ Belong(X, "notice_exports")
      /\ Belong(Y, "notice_errors")
  BY PartFacts, ObjectFacts DEF Up0006, Belong, Create, ReviewColumns
<1>. HIDE DEF X, Y
<1>. QED BY <1>1, <1>2, CreatesTable

\* 0007 adds the source columns and creates the two fetch tables.
LEMMA Statements0007 ==
  /\ Len(Up0007) = 4
  /\ Up0007[1] = Create(SourceColumns) /\ Belong(SourceColumns, "notice_spec_items")
  /\ Up0007[2] = Create(Priority) /\ Belong(Priority, "notice_spec_items")
  /\ Creates(Up0007[3], "attachment_fetch_jobs")
  /\ Creates(Up0007[4], "attachment_fetch_files")
<1>. DEFINE X == Up0007[3].objects
            Y == Up0007[4].objects
<1>1. /\ Len(Up0007) = 4 /\ Up0007[1] = Create(SourceColumns) /\ Up0007[2] = Create(Priority)
      /\ Up0007[3] = Create(X) /\ Table("attachment_fetch_jobs") \in X
      /\ Up0007[4] = Create(Y) /\ Table("attachment_fetch_files") \in Y
  BY DEF Up0007, Create
<1>2. Belong(SourceColumns, "notice_spec_items") /\ Belong(Priority, "notice_spec_items")
  BY PartFacts DEF Belong, SourceColumns, Priority
<1>3. Belong(X, "attachment_fetch_jobs")
  BY PartFacts, ObjectFacts DEF Up0007, Belong, Create
<1>4. Belong(Y, "attachment_fetch_files")
  BY PartFacts, ObjectFacts, RefFacts DEF Up0007, Belong, Create
<1>. HIDE DEF X, Y
<1>. QED BY <1>1, <1>2, <1>3, <1>4, CreatesTable

\* 0008 adds the quality columns with their domain.
LEMMA Statements0008 ==
  /\ Len(Up0008) = 2
  /\ Up0008[1] = Create(QualityColumns) /\ Belong(QualityColumns, "notice_exports")
  /\ Up0008[2] = Create(Quality) /\ Belong(Quality, "notice_exports")
<1>1. Len(Up0008) = 2 /\ Up0008[1] = Create(QualityColumns) /\ Up0008[2] = Create(Quality)
  BY DEF Up0008
<1>2. Belong(QualityColumns, "notice_exports") /\ Belong(Quality, "notice_exports")
  BY PartFacts, ObjectFacts DEF QualityColumns, Quality, Belong
<1>. QED BY <1>1, <1>2

\* 0009 creates the four tables of the HWP work.
LEMMA Statements0009 ==
  /\ Len(Up0009) = 4
  /\ Creates(Up0009[1], "company_profiles") /\ Creates(Up0009[2], "hwp_templates")
  /\ Creates(Up0009[3], "document_field_mappings") /\ Creates(Up0009[4], "hwp_generation_jobs")
<1>. DEFINE X(i) == Up0009[i].objects
<1>1. /\ Len(Up0009) = 4
      /\ Up0009[1] = Create(X(1)) /\ Table("company_profiles") \in X(1)
      /\ Up0009[2] = Create(X(2)) /\ Table("hwp_templates") \in X(2)
      /\ Up0009[3] = Create(X(3)) /\ Table("document_field_mappings") \in X(3)
      /\ Up0009[4] = Create(X(4)) /\ Table("hwp_generation_jobs") \in X(4)
  BY DEF Up0009, Create
<1>2. Belong(X(1), "company_profiles")
  BY PartFacts, ObjectFacts DEF Up0009, Belong, Create
<1>3. Belong(X(2), "hwp_templates")
  BY PartFacts, ObjectFacts DEF Up0009, Belong, Create
<1>4. Belong(X(3), "document_field_mappings")
  BY PartFacts, ObjectFacts, RefFacts DEF Up0009, Belong, Create
<1>5. Belong(X(4), "hwp_generation_jobs")
  <2>1. /\ Plain(JobExport) /\ JobExport[2] = "hwp_generation_jobs"
    BY RefFacts DEF JobExport
  <2>. DEFINE R == Ref("hwp_generation_jobs", "template_id", "hwp_templates", "SET NULL")
  <2>2. Plain(R) /\ R[2] = "hwp_generation_jobs"
    BY RefFacts
  <2>3. X(4) \subseteq {Table("hwp_generation_jobs"), ByNotice("hwp_generation_jobs"), R, JobExport}
          \cup {Domain("hwp_generation_jobs", "status",
                       {"pending", "running", "completed", "failed"}),
                Domain("hwp_generation_jobs", "review_status", {"pending", "approved", "rejected"})}
          \cup Indexes("hwp_generation_jobs", {"notice", "review"})
    BY DEF Up0009, Create
  <2>. HIDE DEF R, X
  <2>. QED BY <2>1, <2>2, <2>3, PartFacts, ObjectFacts DEF Belong
<1>. HIDE DEF X
<1>. QED BY <1>1, <1>2, <1>3, <1>4, <1>5, CreatesTable

\* 0011 creates the required documents.
LEMMA Statements0011 == Len(Up0011) = 1 /\ Creates(Up0011[1], "notice_required_documents")
<1>. DEFINE X == Up0011[1].objects
<1>1. Len(Up0011) = 1 /\ Up0011[1] = Create(X) /\ Table("notice_required_documents") \in X
  BY DEF Up0011, Create
<1>2. Belong(X, "notice_required_documents")
  BY PartFacts, ObjectFacts DEF Up0011, Belong, Create
<1>. HIDE DEF X
<1>. QED BY <1>1, <1>2, CreatesTable

\* The downgrade of 0005 takes it back.
LEMMA Revision0005 == Additive(Up0005, Down0005)
<1>1. /\ Len(Down0005) = 1
      /\ Down0005[1] = DropTable("notice_spec_items")
  BY DEF Down0005
<1>2. /\ Inverse(Up0005[1], Down0005[1])
  BY <1>1, Statements0005 DEF Inverse
<1>3. \A i \in 1..1 : Inverse(Up0005[i], Down0005[1 + 1 - i])
  BY <1>2
<1>. QED BY <1>1, <1>3, Statements0005, ReverseAdditive

\* The downgrade of 0006 takes it back.
LEMMA Revision0006 == Additive(Up0006, Down0006)
<1>1. /\ Len(Down0006) = 3
      /\ Down0006[3] = Drop(ReviewColumns)
      /\ Down0006[2] = DropTable("notice_exports")
      /\ Down0006[1] = DropTable("notice_errors")
  BY DEF Down0006
<1>2. /\ Inverse(Up0006[1], Down0006[3])
      /\ Inverse(Up0006[2], Down0006[2])
      /\ Inverse(Up0006[3], Down0006[1])
  BY <1>1, Statements0006, PartInverse DEF Inverse
<1>3. \A i \in 1..3 : Inverse(Up0006[i], Down0006[3 + 1 - i])
  BY <1>2
<1>. QED BY <1>1, <1>3, Statements0006, ReverseAdditive

\* The downgrade of 0007 takes it back, the columns with it.
LEMMA Revision0007 == Additive(Up0007, Down0007)
<1>1. /\ Len(Down0007) = 4
      /\ Down0007[4] = Drop(SourceColumns)
      /\ Down0007[3] = Drop(Priority)
      /\ Down0007[2] = DropTable("attachment_fetch_jobs")
      /\ Down0007[1] = DropTable("attachment_fetch_files")
  BY DEF Down0007
<1>2. /\ Inverse(Up0007[1], Down0007[4])
      /\ Inverse(Up0007[2], Down0007[3])
      /\ Inverse(Up0007[3], Down0007[2])
      /\ Inverse(Up0007[4], Down0007[1])
  BY <1>1, Statements0007, PartInverse DEF Inverse
<1>3. \A i \in 1..4 : Inverse(Up0007[i], Down0007[4 + 1 - i])
  BY <1>2
<1>. QED BY <1>1, <1>3, Statements0007, ReverseAdditive

\* The downgrade of 0008 takes it back.
LEMMA Revision0008 == Additive(Up0008, Down0008)
<1>1. /\ Len(Down0008) = 2
      /\ Down0008[2] = Drop(QualityColumns)
      /\ Down0008[1] = Drop(Quality)
  BY DEF Down0008
<1>2. /\ Inverse(Up0008[1], Down0008[2])
      /\ Inverse(Up0008[2], Down0008[1])
  BY <1>1, Statements0008, PartInverse
<1>3. \A i \in 1..2 : Inverse(Up0008[i], Down0008[2 + 1 - i])
  BY <1>2
<1>. QED BY <1>1, <1>3, Statements0008, ReverseAdditive

\* The downgrade of 0009 takes it back.
LEMMA Revision0009 == Additive(Up0009, Down0009)
<1>1. /\ Len(Down0009) = 4
      /\ Down0009[4] = DropTable("company_profiles")
      /\ Down0009[3] = DropTable("hwp_templates")
      /\ Down0009[2] = DropTable("document_field_mappings")
      /\ Down0009[1] = DropTable("hwp_generation_jobs")
  BY DEF Down0009
<1>2. /\ Inverse(Up0009[1], Down0009[4])
      /\ Inverse(Up0009[2], Down0009[3])
      /\ Inverse(Up0009[3], Down0009[2])
      /\ Inverse(Up0009[4], Down0009[1])
  BY <1>1, Statements0009 DEF Inverse
<1>3. \A i \in 1..4 : Inverse(Up0009[i], Down0009[4 + 1 - i])
  BY <1>2
<1>. QED BY <1>1, <1>3, Statements0009, ReverseAdditive

\* The downgrade of 0011 takes it back.
LEMMA Revision0011 == Additive(Up0011, Down0011)
<1>1. /\ Len(Down0011) = 1
      /\ Down0011[1] = DropTable("notice_required_documents")
  BY DEF Down0011
<1>2. /\ Inverse(Up0011[1], Down0011[1])
  BY <1>1, Statements0011 DEF Inverse
<1>3. \A i \in 1..1 : Inverse(Up0011[i], Down0011[1 + 1 - i])
  BY <1>2
<1>. QED BY <1>1, <1>3, Statements0011, ReverseAdditive

\* The statements of a script put together of three parts.
LEMMA Six ==
  ASSUME NEW a, NEW b, NEW c, NEW d, NEW e, NEW f
  PROVE  LET s == <<a, b, c>> \o <<d>> \o <<e, f>>
         IN  /\ Len(s) = 6
             /\ s[1] = a /\ s[2] = b /\ s[3] = c /\ s[4] = d /\ s[5] = e /\ s[6] = f
OBVIOUS

Joined(a, b, c, d, e, f, g, h, i, j) == <<a, b>> \o <<c, d, e>> \o <<f, g, h>> \o <<i, j>>

\* The statements of a script put together of four parts.
LEMMA Ten ==
  ASSUME NEW a, NEW b, NEW c, NEW d, NEW e, NEW f, NEW g, NEW h, NEW i, NEW j
  PROVE  /\ Len(Joined(a, b, c, d, e, f, g, h, i, j)) = 10
         /\ LET s == Joined(a, b, c, d, e, f, g, h, i, j)
            IN  /\ s[1] = a /\ s[2] = b /\ s[3] = c /\ s[4] = d /\ s[5] = e /\ s[6] = f
                /\ s[7] = g /\ s[8] = h /\ s[9] = i /\ s[10] = j
BY DEF Joined

\* The six statements of 0012.
LEMMA Up0012Facts ==
  /\ Len(Up0012) = 6
  /\ Up0012[1] = LibraryTables[1] /\ Up0012[2] = LibraryTables[2]
  /\ Up0012[3] = LibraryTables[3] /\ Up0012[4] = RequirementTable[1]
  /\ Up0012[5] = EvidenceTables[1] /\ Up0012[6] = EvidenceTables[2]
<1>1. LibraryTables = <<LibraryTables[1], LibraryTables[2], LibraryTables[3]>>
  BY DEF LibraryTables
<1>2. RequirementTable = <<RequirementTable[1]>>
  BY DEF RequirementTable
<1>3. EvidenceTables = <<EvidenceTables[1], EvidenceTables[2]>>
  BY DEF EvidenceTables
<1>4. Up0012 = <<LibraryTables[1], LibraryTables[2], LibraryTables[3]>> \o <<RequirementTable[1]>>
                 \o <<EvidenceTables[1], EvidenceTables[2]>>
  BY <1>1, <1>2, <1>3, Zenon DEF Up0012
<1>. QED BY <1>4, Six

\* The ten statements of 0003.
LEMMA Up0003Facts ==
  /\ Len(Up0003) = 10
  /\ Up0003[1] = ConceptTables[1] /\ Up0003[2] = ConceptTables[2]
  /\ Up0003[3] = RuleTables[1] /\ Up0003[4] = RuleTables[2] /\ Up0003[5] = RuleTables[3]
  /\ Up0003[6] = TaskTables[1] /\ Up0003[7] = TaskTables[2] /\ Up0003[8] = TaskTables[3]
  /\ Up0003[9] = DropIfExists(UpdatedAtTriggers) /\ Up0003[10] = Create(UpdatedAtTriggers)
<1>1. ConceptTables = <<ConceptTables[1], ConceptTables[2]>>
  BY DEF ConceptTables
<1>2. RuleTables = <<RuleTables[1], RuleTables[2], RuleTables[3]>>
  BY DEF RuleTables
<1>3. TaskTables = <<TaskTables[1], TaskTables[2], TaskTables[3]>>
  BY DEF TaskTables
<1>4. Up0003 = Joined(ConceptTables[1], ConceptTables[2], RuleTables[1], RuleTables[2],
                      RuleTables[3], TaskTables[1], TaskTables[2], TaskTables[3],
                      DropIfExists(UpdatedAtTriggers), Create(UpdatedAtTriggers))
  BY <1>1, <1>2, <1>3, Zenon DEF Up0003, Joined
<1>. QED BY <1>4, Ten

\* The tables that 0012 creates.
LEMMA LibraryBelongs ==
  /\ Len(LibraryTables) = 3 /\ Len(RequirementTable) = 1 /\ Len(EvidenceTables) = 2
  /\ Creates(LibraryTables[1], "proposal_documents")
  /\ Creates(LibraryTables[2], "document_chunks")
  /\ Creates(LibraryTables[3], "project_performances")
  /\ Creates(RequirementTable[1], "notice_requirements")
  /\ Creates(EvidenceTables[1], "requirement_evidences")
  /\ Creates(EvidenceTables[2], "proposal_sections")
<1>. DEFINE A == LibraryTables[1].objects
            B == LibraryTables[2].objects
            C == LibraryTables[3].objects
            D == RequirementTable[1].objects
            E == EvidenceTables[1].objects
            F == EvidenceTables[2].objects
<1>1. /\ Len(LibraryTables) = 3 /\ Len(RequirementTable) = 1 /\ Len(EvidenceTables) = 2
      /\ LibraryTables[1] = Create(A) /\ LibraryTables[2] = Create(B)
      /\ LibraryTables[3] = Create(C) /\ RequirementTable[1] = Create(D)
      /\ EvidenceTables[1] = Create(E) /\ EvidenceTables[2] = Create(F)
  BY DEF LibraryTables, RequirementTable, EvidenceTables, Create
<1>2. /\ Table("proposal_documents") \in A /\ Table("document_chunks") \in B
      /\ Table("project_performances") \in C /\ Table("notice_requirements") \in D
      /\ Table("requirement_evidences") \in E /\ Table("proposal_sections") \in F
  BY DEF LibraryTables, RequirementTable, EvidenceTables, Create
<1>3. Belong(A, "proposal_documents")
  BY PartFacts, ObjectFacts DEF LibraryTables, Belong, Create
<1>4. Belong(B, "document_chunks")
  BY PartFacts, ObjectFacts, RefFacts DEF LibraryTables, Belong, Create
<1>5. Belong(C, "project_performances")
  <2>. DEFINE R == {Ref("project_performances", "evidence_document_id", "proposal_documents",
                        "SET NULL")}
  <2>1. \A cascade, null :
          \A o \in
             {Ref("project_performances", "evidence_document_id", "proposal_documents", null)} :
            Plain(o) /\ o[2] = "project_performances"
    BY RefFacts
  <2>4. \A o \in R : Plain(o) /\ o[2] = "project_performances"
    BY <2>1, Zenon
  <2>2. C \subseteq {Table("project_performances")} \cup R
                      \cup Indexes("project_performances", {"verified", "customer"})
    BY DEF LibraryTables, Create
  <2>. HIDE DEF R, C
  <2>. QED BY <2>4, <2>2, PartFacts, ObjectFacts DEF Belong
<1>6. Belong(D, "notice_requirements")
  BY PartFacts, ObjectFacts DEF RequirementTable, Belong, Create
<1>7. Belong(E, "requirement_evidences")
  <2>. DEFINE R == {Ref("requirement_evidences", "requirement_id", "notice_requirements", "CASCADE"),
                    Ref("requirement_evidences", "document_id", "proposal_documents", "SET NULL"),
                    Ref("requirement_evidences", "chunk_id", "document_chunks", "SET NULL"),
                    Ref("requirement_evidences", "performance_id", "project_performances",
                        "SET NULL")}
  <2>1. \A cascade, null :
          \A o \in
             {Ref("requirement_evidences", "requirement_id", "notice_requirements", cascade),
              Ref("requirement_evidences", "document_id", "proposal_documents", null),
              Ref("requirement_evidences", "chunk_id", "document_chunks", null),
              Ref("requirement_evidences", "performance_id", "project_performances", null)} :
            Plain(o) /\ o[2] = "requirement_evidences"
    BY RefFacts
  <2>4. \A o \in R : Plain(o) /\ o[2] = "requirement_evidences"
    BY <2>1, Zenon
  <2>2. E \subseteq {Table("requirement_evidences")} \cup R
                      \cup Indexes("requirement_evidences", {"requirement", "document"})
    BY DEF EvidenceTables, Create
  <2>. HIDE DEF R, E
  <2>. QED BY <2>4, <2>2, PartFacts, ObjectFacts DEF Belong
<1>8. Belong(F, "proposal_sections")
  BY PartFacts, ObjectFacts DEF EvidenceTables, Belong, Create
<1>. HIDE DEF A, B, C, D, E, F
<1>. QED BY <1>1, <1>2, <1>3, <1>4, <1>5, <1>6, <1>7, <1>8, CreatesTable

\* The downgrade of 0012 takes it back.
LEMMA Revision0012 == Additive(Up0012, Down0012)
<1>1. /\ Len(Down0012) = 6
      /\ Down0012[1] = DropTable("proposal_sections")
      /\ Down0012[2] = DropTable("requirement_evidences")
      /\ Down0012[3] = DropTable("notice_requirements")
      /\ Down0012[4] = DropTable("project_performances")
      /\ Down0012[5] = DropTable("document_chunks")
      /\ Down0012[6] = DropTable("proposal_documents")
  BY DEF Down0012
<1>2. /\ Inverse(Up0012[1], Down0012[6]) /\ Inverse(Up0012[2], Down0012[5])
      /\ Inverse(Up0012[3], Down0012[4]) /\ Inverse(Up0012[4], Down0012[3])
      /\ Inverse(Up0012[5], Down0012[2]) /\ Inverse(Up0012[6], Down0012[1])
  BY <1>1, Up0012Facts, LibraryBelongs DEF Inverse
<1>3. \A i \in 1..6 : Inverse(Up0012[i], Down0012[6 + 1 - i])
  BY <1>2
<1>. QED BY <1>1, <1>3, Up0012Facts, ReverseAdditive

\* The tables that 0003 creates.
LEMMA OntologyBelongs ==
  /\ Creates(ConceptTables[1], "ontology_concepts")
  /\ Creates(ConceptTables[2], "ontology_aliases")
  /\ Creates(RuleTables[1], "ontology_rules")
  /\ Creates(RuleTables[2], "knowledge_evidence")
  /\ Creates(RuleTables[3], "ontology_relations")
  /\ Creates(TaskTables[1], "notice_assertions")
  /\ Creates(TaskTables[2], "notice_work_tasks")
  /\ Creates(TaskTables[3], "role_bindings")
<1>. DEFINE A == ConceptTables[1].objects
            B == ConceptTables[2].objects
            C == RuleTables[1].objects
            D == RuleTables[2].objects
            E == RuleTables[3].objects
            F == TaskTables[1].objects
            G == TaskTables[2].objects
            H == TaskTables[3].objects
<1>1. /\ ConceptTables[1] = Create(A) /\ ConceptTables[2] = Create(B)
      /\ RuleTables[1] = Create(C) /\ RuleTables[2] = Create(D) /\ RuleTables[3] = Create(E)
      /\ TaskTables[1] = Create(F) /\ TaskTables[2] = Create(G) /\ TaskTables[3] = Create(H)
  BY DEF ConceptTables, RuleTables, TaskTables, Create
<1>2. /\ Table("ontology_concepts") \in A /\ Table("ontology_aliases") \in B
      /\ Table("ontology_rules") \in C /\ Table("knowledge_evidence") \in D
      /\ Table("ontology_relations") \in E /\ Table("notice_assertions") \in F
      /\ Table("notice_work_tasks") \in G /\ Table("role_bindings") \in H
  BY DEF ConceptTables, RuleTables, TaskTables, Create
<1>3. Belong(A, "ontology_concepts")
  BY PartFacts, ObjectFacts DEF ConceptTables, Belong, Create
<1>4. Belong(B, "ontology_aliases")
  BY PartFacts, ObjectFacts, RefFacts DEF ConceptTables, Belong, Create
<1>5. Belong(C, "ontology_rules")
  BY PartFacts, ObjectFacts DEF RuleTables, Belong, Create
<1>6. Belong(D, "knowledge_evidence")
  BY PartFacts, ObjectFacts DEF RuleTables, Belong, Create
<1>7. Belong(E, "ontology_relations")
  <2>. DEFINE R == {Ref("ontology_relations", "subject_concept_id", "ontology_concepts", "CASCADE"),
                    Ref("ontology_relations", "object_concept_id", "ontology_concepts", "CASCADE"),
                    Ref("ontology_relations", "evidence_id", "knowledge_evidence", "SET NULL")}
              V == {Domain("ontology_relations", "predicate",
                     {"requires_document", "triggers_task", "assigned_role", "depends_on",
                      "satisfies", "conflicts_with"}),
                    Domain("ontology_relations", "status", {"active", "deprecated"})}
  <2>1. \A cascade, null :
          \A o \in
             {Ref("ontology_relations", "subject_concept_id", "ontology_concepts", cascade),
              Ref("ontology_relations", "object_concept_id", "ontology_concepts", cascade),
              Ref("ontology_relations", "evidence_id", "knowledge_evidence", null)} :
            Plain(o) /\ o[2] = "ontology_relations"
    BY RefFacts
  <2>4. \A o \in R : Plain(o) /\ o[2] = "ontology_relations"
    BY <2>1, Zenon
  <2>2. Belong(V, "ontology_relations")
    BY PartFacts DEF Belong
  <2>3. E \subseteq {Table("ontology_relations")} \cup R \cup V
                      \cup Indexes("ontology_relations", {"subject", "object"})
    BY DEF RuleTables, Create
  <2>. HIDE DEF R, V, E
  <2>. QED BY <2>4, <2>2, <2>3, PartFacts, ObjectFacts DEF Belong
<1>8. Belong(F, "notice_assertions")
  <2>. DEFINE R == {Ref("notice_assertions", "concept_id", "ontology_concepts", "CASCADE"),
                    Ref("notice_assertions", "evidence_id", "knowledge_evidence", "SET NULL")}
              V == {Domain("notice_assertions", "status", {"candidate", "approved", "rejected"})}
  <2>1. \A cascade, null :
          \A o \in
             {Ref("notice_assertions", "concept_id", "ontology_concepts", cascade),
              Ref("notice_assertions", "evidence_id", "knowledge_evidence", null)} :
            Plain(o) /\ o[2] = "notice_assertions"
    BY RefFacts
  <2>4. \A o \in R : Plain(o) /\ o[2] = "notice_assertions"
    BY <2>1, Zenon
  <2>2. Belong(V, "notice_assertions")
    BY PartFacts DEF Belong
  <2>3. F \subseteq {Table("notice_assertions"), ByNotice("notice_assertions")} \cup R \cup V
                      \cup Indexes("notice_assertions", {"notice", "concept", "status"})
    BY DEF TaskTables, Create
  <2>. HIDE DEF R, V, F
  <2>. QED BY <2>4, <2>2, <2>3, PartFacts, ObjectFacts DEF Belong
<1>9. Belong(G, "notice_work_tasks")
  BY PartFacts, ObjectFacts, RefFacts DEF TaskTables, Belong, Create
<1>10. Belong(H, "role_bindings")
  BY PartFacts, ObjectFacts, RefFacts DEF TaskTables, Belong, Create
<1>. HIDE DEF A, B, C, D, E, F, G, H
<1>. QED BY <1>1, <1>2, <1>3, <1>4, <1>5, <1>6, <1>7, <1>8, <1>9, <1>10, CreatesTable

\* The downgrade of 0003 takes it back; it drops the triggers first, which the
\* upgrade created last.
LEMMA Revision0003 == Additive(Up0003, Down0003)
<1>1. /\ Len(Down0003) = 9 /\ Down0003[1] = DropIfExists(UpdatedAtTriggers)
      /\ Down0003[2] = DropTable("role_bindings") /\ Down0003[3] = DropTable("notice_work_tasks")
      /\ Down0003[4] = DropTable("notice_assertions")
      /\ Down0003[5] = DropTable("ontology_relations")
      /\ Down0003[6] = DropTable("knowledge_evidence")
      /\ Down0003[7] = DropTable("ontology_rules") /\ Down0003[8] = DropTable("ontology_aliases")
      /\ Down0003[9] = DropTable("ontology_concepts")
  BY DEF Down0003
<1>2. /\ Inverse(Up0003[1], Down0003[9]) /\ Inverse(Up0003[2], Down0003[8])
      /\ Inverse(Up0003[3], Down0003[7]) /\ Inverse(Up0003[4], Down0003[6])
      /\ Inverse(Up0003[5], Down0003[5]) /\ Inverse(Up0003[6], Down0003[4])
      /\ Inverse(Up0003[7], Down0003[3]) /\ Inverse(Up0003[8], Down0003[2])
  BY <1>1, Up0003Facts, OntologyBelongs DEF Inverse
<1>3. \A i \in 1..8 : Inverse(Up0003[i], Down0003[10 - i])
  BY <1>2
<1>4. /\ Up0003[9].sql = "drop if exists" /\ Up0003[9].objects = UpdatedAtTriggers
      /\ Up0003[10].sql = "create" /\ Up0003[10].objects = UpdatedAtTriggers
      /\ Down0003[1].sql = "drop if exists" /\ Down0003[1].objects = UpdatedAtTriggers
  <2>1. Up0003[9].sql = "drop if exists" /\ Up0003[9].objects = UpdatedAtTriggers
    <3>1. Up0003[9] = DropIfExists(UpdatedAtTriggers)
      BY Up0003Facts
    <3>. QED BY <3>1, IfExistsReads, Zenon
  <2>2. Up0003[10].sql = "create" /\ Up0003[10].objects = UpdatedAtTriggers
    <3>1. Up0003[10] = Create(UpdatedAtTriggers)
      BY Up0003Facts
    <3>. QED BY <3>1, CreateReads, Zenon
  <2>3. Down0003[1].sql = "drop if exists" /\ Down0003[1].objects = UpdatedAtTriggers
    <3>1. Down0003[1] = DropIfExists(UpdatedAtTriggers)
      BY <1>1
    <3>. QED BY <3>1, IfExistsReads, Zenon
  <2>. QED BY <2>1, <2>2, <2>3
<1>5. /\ Len(Up0003) = 10 /\ Len(Down0003) = 9
      /\ \A i \in 1..10 : i \in 1..8 \/ i = 9 \/ i = 10
      /\ \A j \in 1..9 : j = 1 \/ (10 - j \in 1..8 /\ 10 - (10 - j) = j)
      /\ \A i \in 1..8 : i \in 1..10 /\ 10 - i \in 1..9
  BY <1>1, Up0003Facts
<1>6. \A i \in 1..8 : /\ Up0003[i].sql = "create"
                      /\ \A o \in Up0003[i].objects : Proper(o)
  <2>. TAKE i \in 1..8
  <2>1. Inverse(Up0003[i], Down0003[10 - i])
    BY <1>3
  <2>. QED BY <2>1, InverseFacts
<1>7. \A o \in UpdatedAtTriggers :
        /\ o[1] = "trigger" /\ Proper(o)
        /\ o[2] \in {"ontology_concepts", "ontology_rules", "notice_work_tasks"}
  BY PartFacts DEF UpdatedAtTriggers
<1>8. /\ Up0003[1].sql = "create" /\ Table("ontology_concepts") \in Up0003[1].objects
      /\ Up0003[3].sql = "create" /\ Table("ontology_rules") \in Up0003[3].objects
      /\ Up0003[7].sql = "create" /\ Table("notice_work_tasks") \in Up0003[7].objects
  BY Up0003Facts, OntologyBelongs DEF Creates
<1>9. \A s : Builds(Up0003, s)
  <2>1. \A o \in UpdatedAtTriggers :
          \E j \in 1..8 : Up0003[j].sql = "create" /\ Table(o[2]) \in Up0003[j].objects
    BY <1>7, <1>8
  <2>2. 9 - 1 = 8
    OBVIOUS
  <2>. QED BY <1>4, <1>5, <1>6, <1>7, <2>1, <2>2 DEF Builds
<1>10. OnlyDrops(Down0003, Up0003)
  <2>1. ASSUME NEW j \in 1..9
        PROVE  /\ Down0003[j].sql \in {"drop", "drop if exists"}
               /\ \E i \in 1..10 : /\ Up0003[i].sql \in {"create", "create if missing"}
                                   /\ Down0003[j].objects \subseteq Up0003[i].objects
    <3>1. CASE j = 1
      <4>1. 10 \in 1..10
        OBVIOUS
      <4>. QED BY <1>4, <3>1, <4>1
    <3>2. ASSUME j # 1 PROVE Inverse(Up0003[10 - j], Down0003[j]) /\ 10 - j \in 1..10
      <4>1. 10 - j \in 1..8 /\ 10 - (10 - j) = j
        BY <1>5, <3>2
      <4>2. \E i \in 1..8 : i = 10 - j /\ 10 - i = j
        BY <4>1
      <4>. QED BY <1>3, <4>1, <4>2
    <3>3. CASE j # 1
      <4>1. /\ Up0003[10 - j].sql = "create" /\ Down0003[j].sql = "drop"
            /\ Down0003[j].objects \subseteq Up0003[10 - j].objects
        BY <3>2, <3>3, InverseFacts
      <4>. QED BY <3>2, <3>3, <4>1
    <3>. QED BY <3>1, <3>3
  <2>. QED BY <1>5, <2>1 DEF OnlyDrops
<1>11. DropsAll(Down0003, Up0003)
  <2>1. ASSUME NEW i \in 1..10, i # 9
        PROVE  \E j \in 1..9 :
                 \/ Up0003[i].objects \subseteq Down0003[j].objects
                 \/ \E t : Table(t) \in Down0003[j].objects /\ \A o \in Up0003[i].objects : o[2] = t
    <3>1. CASE i = 10
      <4>1. 1 \in 1..9
        OBVIOUS
      <4>. QED BY <1>4, <3>1, <4>1
    <3>2. CASE i \in 1..8
      <4>1. Inverse(Up0003[i], Down0003[10 - i]) /\ 10 - i \in 1..9
        BY <1>3, <1>5, <3>2
      <4>. QED BY <4>1, InverseFacts
    <3>. QED BY <1>5, <2>1, <3>1, <3>2
  <2>2. Up0003[9].sql \notin {"create", "create if missing"}
    BY <1>4
  <2>. QED BY <1>5, <2>1, <2>2 DEF DropsAll
<1>12. Undoes(Down0003, Up0003)
  BY <1>5, <1>10, <1>11, UndoRule
<1>. QED BY <1>5, <1>9, <1>12, AdditiveRule

\* The first revision, on the empty database.
LEMMA Revision0001 ==
  /\ Len(Up0001) = 4 /\ Len(Down0001) = 3
  /\ Sound({}) /\ Builds(Up0001, {}) /\ Undoes(Down0001, Up0001)
<1>. DEFINE X == Up0001[1].objects
<1>1. /\ Len(Up0001) = 4 /\ Len(Down0001) = 3
      /\ Up0001[1] = Create(X) /\ Table("bid_pipeline") \in X
      /\ Up0001[2] = CreateIfMissing({SetUpdatedAt})
      /\ Up0001[3] = DropIfExists({Trigger("bid_pipeline")})
      /\ Up0001[4] = Create({Trigger("bid_pipeline")})
      /\ Down0001[1] = DropIfExists({Trigger("bid_pipeline")})
      /\ Down0001[2] = DropIfExists({SetUpdatedAt})
      /\ Down0001[3] = DropTable("bid_pipeline")
  BY DEF Up0001, Down0001, Create, SetUpdatedAt
<1>2. Belong(X, "bid_pipeline")
  BY PartFacts, ObjectFacts DEF Up0001, Belong, Create
<1>. HIDE DEF X
<1>3. /\ Up0001[1].sql = "create" /\ Up0001[1].objects = X
      /\ Up0001[2].sql = "create if missing" /\ Up0001[2].objects = {SetUpdatedAt}
      /\ Up0001[3].sql = "drop if exists" /\ Up0001[3].objects = {Trigger("bid_pipeline")}
      /\ Up0001[4].sql = "create" /\ Up0001[4].objects = {Trigger("bid_pipeline")}
      /\ Down0001[1].sql = "drop if exists" /\ Down0001[1].objects = {Trigger("bid_pipeline")}
      /\ Down0001[2].sql = "drop if exists" /\ Down0001[2].objects = {SetUpdatedAt}
      /\ Down0001[3].sql = "drop" /\ Down0001[3].objects = {Table("bid_pipeline")}
  <2>1. Up0001[1].sql = "create" /\ Up0001[1].objects = X
    <3>1. Up0001[1] = Create(X)
      BY <1>1
    <3>. QED BY <3>1, CreateReads, Zenon
  <2>2. Up0001[2].sql = "create if missing" /\ Up0001[2].objects = {SetUpdatedAt}
    <3>1. Up0001[2] = CreateIfMissing({SetUpdatedAt})
      BY <1>1
    <3>. QED BY <3>1, IfMissingReads, Zenon
  <2>3. Up0001[3].sql = "drop if exists" /\ Up0001[3].objects = {Trigger("bid_pipeline")}
    <3>1. Up0001[3] = DropIfExists({Trigger("bid_pipeline")})
      BY <1>1
    <3>. QED BY <3>1, IfExistsReads, Zenon
  <2>4. Up0001[4].sql = "create" /\ Up0001[4].objects = {Trigger("bid_pipeline")}
    <3>1. Up0001[4] = Create({Trigger("bid_pipeline")})
      BY <1>1
    <3>. QED BY <3>1, CreateReads, Zenon
  <2>5. Down0001[1].sql = "drop if exists" /\ Down0001[1].objects = {Trigger("bid_pipeline")}
    <3>1. Down0001[1] = DropIfExists({Trigger("bid_pipeline")})
      BY <1>1
    <3>. QED BY <3>1, IfExistsReads, Zenon
  <2>6. Down0001[2].sql = "drop if exists" /\ Down0001[2].objects = {SetUpdatedAt}
    <3>1. Down0001[2] = DropIfExists({SetUpdatedAt})
      BY <1>1
    <3>. QED BY <3>1, IfExistsReads, Zenon
  <2>7. Down0001[3].sql = "drop" /\ Down0001[3].objects = {Table("bid_pipeline")}
    <3>1. Down0001[3] = DropTable("bid_pipeline")
      BY <1>1
    <3>. QED BY <3>1 DEF DropTable, Drop
  <2>. QED BY <2>1, <2>2, <2>3, <2>4, <2>5, <2>6, <2>7
<1>4. Proper(SetUpdatedAt) /\ \A s : Owned(SetUpdatedAt, s)
  BY ObjectFacts DEF Proper, Owned
<1>5. \A i \in 1..4 : i = 1 \/ i = 2 \/ i = 3 \/ i = 4
  OBVIOUS
<1>6. Builds(Up0001, {})
  <2>. DEFINE T == Trigger("bid_pipeline")
  <2>1. 1 \in 1..(3 - 1)
    OBVIOUS
  <2>2. T[1] = "trigger" /\ T[2] = "bid_pipeline" /\ Proper(T)
    BY PartFacts
  <2>3. \A o \in X : Proper(o)
    BY <1>2 DEF Belong, Plain
  <2>. HIDE DEF T
  <2>4. \A o \in Up0001[3].objects :
          /\ o[1] = "trigger"
          /\ \E j \in 1..(3 - 1) : Up0001[j].sql = "create" /\ Table(o[2]) \in Up0001[j].objects
    BY <1>1, <1>3, <2>1, <2>2 DEF T
  <2>5. \A o \in Up0001[4].objects : Proper(o)
    BY <1>3, <2>2 DEF T
  <2>. QED BY <1>1, <1>3, <1>4, <1>5, <2>3, <2>4, <2>5 DEF Builds
<1>7. OnlyDrops(Down0001, Up0001)
  <2>1. \A j \in 1..3 : j = 1 \/ j = 2 \/ j = 3
    OBVIOUS
  <2>2. 1 \in 1..4 /\ 2 \in 1..4 /\ 4 \in 1..4
    OBVIOUS
  <2>. QED BY <1>1, <1>3, <2>1, <2>2 DEF OnlyDrops
<1>8. DropsAll(Down0001, Up0001)
  <2>1. 1 \in 1..3 /\ 2 \in 1..3 /\ 3 \in 1..3
    OBVIOUS
  <2>. DEFINE Gone(i) == \E j \in 1..Len(Down0001) :
                           \/ Up0001[i].objects \subseteq Down0001[j].objects
                           \/ \E t : Table(t) \in Down0001[j].objects
                                   /\ \A o \in Up0001[i].objects : o[2] = t
  <2>2. Gone(1)
    <3>1. \A o \in Up0001[1].objects : o[2] = "bid_pipeline"
      BY <1>2, <1>3 DEF Belong
    <3>2. Table("bid_pipeline") \in Down0001[3].objects
      BY <1>3
    <3>. QED BY <1>1, <2>1, <3>1, <3>2
  <2>3. Gone(2)
    <3>1. Up0001[2].objects \subseteq Down0001[2].objects
      BY <1>3
    <3>. QED BY <1>1, <2>1, <3>1
  <2>4. Up0001[3].sql \notin {"create", "create if missing"}
    BY <1>3
  <2>5. Gone(4)
    <3>1. Up0001[4].objects \subseteq Down0001[1].objects
      BY <1>3
    <3>. QED BY <1>1, <2>1, <3>1
  <2>. HIDE DEF Gone
  <2>6. \A i \in 1..4 : i = 1 \/ i = 2 \/ i = 3 \/ i = 4
    OBVIOUS
  <2>7. \A i \in 1..Len(Up0001) : Up0001[i].sql \in {"create", "create if missing"} => Gone(i)
    BY <1>1, <2>2, <2>3, <2>4, <2>5, <2>6
  <2>. QED BY <2>7 DEF DropsAll, Gone
<1>9. Sound({})
  BY DEF Sound
<1>. QED BY <1>1, <1>6, <1>7, <1>8, <1>9, UndoRule

\* The names of bid_pipeline's first indexes.
FirstNames == {"status", "fit_score", "updated_at", "bid_type", "org_code", "close_date",
               "score_total", "top_sku"}

\* The indexes that 0001 creates have these names only.
LEMMA FirstIndexes ==
  \A o \in Built(Up0001) : o[1] = "index" => o[3] \in FirstNames
<1>. DEFINE X == Up0001[1].objects
            T == Trigger("bid_pipeline")
            A == {Table("bid_pipeline"), Domain("bid_pipeline", "fit_score", {"0..100"})}
            B == Indexes("bid_pipeline", FirstNames)
<1>1. X = A \cup B
  BY DEF Up0001, Create, FirstNames
<1>2. \A o \in A : o[1] # "index"
  BY DEF Table, Domain
<1>3. \A o \in B : o[3] \in FirstNames
  BY DEF Indexes, Index
<1>4. T[1] # "index"
  BY PartFacts
<1>5. SetUpdatedAt[1] # "index"
  BY ObjectFacts
<1>6. /\ Len(Up0001) = 4 /\ Up0001[2].objects = {SetUpdatedAt}
      /\ Up0001[3].sql = "drop if exists"
      /\ Up0001[4].objects = {T}
  <2>1. /\ Len(Up0001) = 4 /\ Up0001[2] = CreateIfMissing({SetUpdatedAt})
        /\ Up0001[3] = DropIfExists({Trigger("bid_pipeline")})
        /\ Up0001[4] = Create({Trigger("bid_pipeline")})
    BY DEF Up0001, SetUpdatedAt
  <2>2. Up0001[2].objects = {SetUpdatedAt}
    <3>1. Up0001[2] = CreateIfMissing({SetUpdatedAt})
      BY <2>1
    <3>. QED BY <3>1, IfMissingReads, Zenon
  <2>3. Up0001[3].sql = "drop if exists"
    <3>1. Up0001[3] = DropIfExists({Trigger("bid_pipeline")})
      BY <2>1
    <3>. QED BY <3>1, IfExistsReads, Zenon
  <2>4. Up0001[4].objects = {T}
    <3>1. Up0001[4] = Create({Trigger("bid_pipeline")})
      BY <2>1
    <3>. QED BY <3>1, CreateReads, Zenon
  <2>. QED BY <2>1, <2>2, <2>3, <2>4
<1>0. \A i \in 1..4 : i = 1 \/ i = 2 \/ i = 3 \/ i = 4
  OBVIOUS
<1>. SUFFICES ASSUME NEW i \in 1..4, Up0001[i].sql \in {"create", "create if missing"},
                     NEW o \in Up0001[i].objects, o[1] = "index"
              PROVE  o[3] \in FirstNames
  BY <1>6 DEF Built
<1>7. i = 1 \/ i = 2 \/ i = 4
  <2>1. i # 3
    <3>1. Up0001[3].sql \notin {"create", "create if missing"}
      BY <1>6
    <3>. QED BY <3>1
  <2>. QED BY <1>0, <2>1
<1>8. CASE i = 1
  <2>1. o \in A \/ o \in B
    BY <1>1, <1>8
  <2>. HIDE DEF A, B
  <2>. QED BY <1>2, <1>3, <2>1
<1>9. CASE i = 2
  BY <1>5, <1>6, <1>9
<1>10. CASE i = 4
  <2>. HIDE DEF T
  <2>. QED BY <1>4, <1>6, <1>10
<1>. QED BY <1>7, <1>8, <1>9, <1>10

\* The second revision, on what the first has built.
LEMMA Revision0002 ==
  ASSUME Ran(Up0001, {}, {}).ok
  PROVE  /\ Len(Up0002) = 1 /\ Len(Down0002) = 1
         /\ Builds(Up0002, Ran(Up0001, {}, {}).schema)
         /\ Undoes(Down0002, Up0002)
<1>. DEFINE s == Ran(Up0001, {}, {}).schema
<1>1. Len(Up0001) \in Nat /\ Sound({}) /\ Builds(Up0001, {})
  BY Revision0001
<1>2. s \subseteq Built(Up0001) /\ \A o \in Built(Up0001) : o[1] # "trigger" => o \in s
  BY <1>1, UpFacts
<1>3. Table("bid_pipeline") \in s
  <2>1. 1 \in 1..Len(Up0001) /\ Table("bid_pipeline") \in Up0001[1].objects /\ Up0001[1].sql = "create"
    BY DEF Up0001, Create
  <2>2. Table("bid_pipeline") \in Built(Up0001)
    BY <2>1 DEF Built
  <2>. QED BY <1>2, <2>2, ObjectFacts
<1>. HIDE DEF s
<1>4. ASSUME NEW o \in SearchIndexes PROVE Proper(o) /\ o \notin s /\ Owned(o, s)
  <2>1. /\ o[1] = "index" /\ o[2] = "bid_pipeline"
        /\ o[3] \in {"close_updated", "category", "org_name", "assignee"}
    BY DEF SearchIndexes, Indexes, Index
  <2>2. o[3] \notin FirstNames
    BY <2>1 DEF FirstNames
  <2>. QED BY <1>2, <1>3, <2>1, <2>2, FirstIndexes DEF Proper, Owned
<1>5. Len(Up0002) = 1 /\ Len(Down0002) = 1
  BY DEF Up0002, Down0002
<1>6. Up0002[1].sql = "create if missing" /\ Up0002[1].objects = SearchIndexes
  <2>1. Up0002[1] = CreateIfMissing(SearchIndexes)
    BY DEF Up0002
  <2>. QED BY <2>1, IfMissingReads, Zenon
<1>7. Down0002[1].sql = "drop if exists" /\ Down0002[1].objects = SearchIndexes
  <2>1. Down0002[1] = DropIfExists(SearchIndexes)
    BY DEF Down0002
  <2>. QED BY <2>1, IfExistsReads, Zenon
<1>8. \A i \in 1..1 : i = 1
  OBVIOUS
<1>9. Builds(Up0002, s)
  BY <1>4, <1>5, <1>6, <1>8 DEF Builds
<1>10. OnlyDrops(Down0002, Up0002) /\ DropsAll(Down0002, Up0002)
  <2>1. 1 \in 1..1
    OBVIOUS
  <2>2. OnlyDrops(Down0002, Up0002)
    BY <1>5, <1>6, <1>7, <1>8, <2>1 DEF OnlyDrops
  <2>3. DropsAll(Down0002, Up0002)
    BY <1>5, <1>6, <1>7, <1>8, <2>1 DEF DropsAll
  <2>. QED BY <2>2, <2>3
<1>11. Undoes(Down0002, Up0002)
  BY <1>5, <1>10, UndoRule
<1>. QED BY <1>5, <1>9, <1>11 DEF s

\* A script of two statements that ends well.
LEMMA TwoStatements ==
  ASSUME NEW script, NEW schema, NEW rows, Len(script) = 2, Ran(script, schema, rows).ok
  PROVE  \E r1, r2 :
           /\ Legal(script[1], schema, r1)
           /\ Legal(script[2], After(script[1], schema), r2)
           /\ Ran(script, schema, rows).schema = After(script[2], After(script[1], schema))
<1>. Len(script) \in Nat
  OBVIOUS
<1>1. PICK run : IsRun(run, script, schema, rows) /\ Ran(script, schema, rows) = run[2]
  <2>1. PICK run : /\ IsRun(run, script, schema, rows)
                   /\ Ran(script, schema, rows) = run[Len(script)]
    BY RanFacts
  <2>. QED BY <2>1
<1>2. WentWell(run, script, schema)
  BY <1>1, RunFacts
<1>3. 1 \in 1..2 /\ 2 \in 1..2 /\ 1 - 1 = 0 /\ 2 - 1 = 1
  OBVIOUS
<1>4. /\ Legal(script[1], schema, run[0].rows) /\ run[1].schema = After(script[1], schema)
  BY <1>2, <1>3 DEF WentWell
<1>5. /\ Legal(script[2], run[1].schema, run[1].rows)
      /\ run[2].schema = After(script[2], run[1].schema)
  BY <1>2, <1>3 DEF WentWell
<1>. QED BY <1>1, <1>4, <1>5

\* One object of a table in the place of another, and back.
LEMMA Replaced ==
  ASSUME NEW t, NEW old, NEW new, old[2] = t, new[2] = t,
         old[1] = "domain", new[1] = "domain",
         NEW s, Sound(s), NEW u, NEW d, Len(u) = 2, Len(d) = 2,
         u[1] = Drop({old}), u[2] = Create({new}), d[1] = Drop({new}), d[2] = Create({old}),
         Ran(u, s, {}).ok
  PROVE  Reverts(u, d, s)
<1>. DEFINE after == Ran(u, s, {}).schema
<1>1. /\ u[1].sql = "drop" /\ u[1].objects = {old} /\ u[2].sql = "create" /\ u[2].objects = {new}
  <2>1. u[1].sql = "drop" /\ u[1].objects = {old}
    BY DEF Drop
  <2>2. u[2].sql = "create" /\ u[2].objects = {new}
    BY DEF Create
  <2>. QED BY <2>1, <2>2
<1>2. /\ d[1].sql = "drop" /\ d[1].objects = {new} /\ d[2].sql = "create" /\ d[2].objects = {old}
  <2>1. d[1].sql = "drop" /\ d[1].objects = {new}
    BY DEF Drop
  <2>2. d[2].sql = "create" /\ d[2].objects = {old}
    BY DEF Create
  <2>. QED BY <2>1, <2>2
<1>3. Of("table", {old}) = {} /\ Of("table", {new}) = {}
  BY DEF Of
<1>4. \A schema : After(u[1], schema) = schema \ {old} /\ After(d[1], schema) = schema \ {new}
  BY <1>1, <1>2, <1>3 DEF After
<1>5. \A schema : After(u[2], schema) = schema \cup {new} /\ After(d[2], schema) = schema \cup {old}
  BY <1>1, <1>2 DEF After
<1>6. PICK r1, r2 : /\ Legal(u[1], s, r1) /\ Legal(u[2], After(u[1], s), r2)
                    /\ after = After(u[2], After(u[1], s))
  BY TwoStatements
<1>7. after = (s \ {old}) \cup {new}
  BY <1>4, <1>5, <1>6
<1>8. old \in s
  BY <1>1, <1>6 DEF Legal
<1>9. new \notin s \ {old}
  BY <1>1, <1>4, <1>6 DEF Legal
<1>. HIDE DEF after
<1>10. Table(t) \in s /\ \A x : Table(x) # old
  BY <1>8, ObjectFacts DEF Sound, Owned
<1>11. Sound(after)
  BY <1>7, <1>10 DEF Sound, Owned
<1>12. ASSUME NEW rows, Ran(d, after, rows).ok PROVE Ran(d, after, rows).schema = s
  <2>1. Ran(d, after, rows).schema = After(d[2], After(d[1], after))
    BY <1>12, TwoStatements
  <2>2. Ran(d, after, rows).schema = (after \ {new}) \cup {old}
    BY <1>4, <1>5, <2>1
  <2>. QED BY <1>7, <1>8, <1>9, <2>2
<1>. QED BY <1>11, <1>12 DEF Reverts, after

\* 0010 puts the new kinds of exports in the place of the old, and back.
LEMMA Revision0010 == Reversible(Up0010, Down0010)
<1>. DEFINE old == Domain("notice_exports", "kind", {"excel", "hwp", "proposal_hwp"})
            new == Domain("notice_exports", "kind",
                          {"excel", "hwp", "bid_form_hwp", "proposal_hwp"})
<1>1. /\ Len(Up0010) = 2 /\ Len(Down0010) = 2
      /\ Up0010[1] = Drop({old}) /\ Up0010[2] = Create({new})
      /\ Down0010[1] = Drop({new}) /\ Down0010[2] = Create({old})
  BY DEF Up0010, Down0010, OldKinds, NewKinds
<1>2. /\ old[1] = "domain" /\ old[2] = "notice_exports"
      /\ new[1] = "domain" /\ new[2] = "notice_exports"
  BY DEF Domain
<1>. HIDE DEF old, new
<1>3. \A s : Sound(s) /\ Ran(Up0010, s, {}).ok => Reverts(Up0010, Down0010, s)
  BY <1>1, <1>2, Replaced
<1>. QED BY <1>1, <1>3 DEF Reversible
-----------------------------------------------------------------------------
(* The chain of revisions. *)

\* The upgrades up to n can follow one another.
Done(n) == \A k \in 1..n : Ran(Up[k], SchemaAt[k - 1], {}).ok

\* The upgrades in their order.
LEMMA UpNames ==
  /\ Up[1] = Up0001 /\ Up[2] = Up0002 /\ Up[3] = Up0003 /\ Up[4] = Up0004 /\ Up[5] = Up0005
  /\ Up[6] = Up0006 /\ Up[7] = Up0007 /\ Up[8] = Up0008 /\ Up[9] = Up0009 /\ Up[10] = Up0010
  /\ Up[11] = Up0010b /\ Up[12] = Up0011 /\ Up[13] = Up0012
BY DEF Up

\* The downgrades in their order.
LEMMA DownNames ==
  /\ Down[1] = Down0001 /\ Down[2] = Down0002 /\ Down[3] = Down0003 /\ Down[4] = Down0004
  /\ Down[5] = Down0005 /\ Down[6] = Down0006 /\ Down[7] = Down0007 /\ Down[8] = Down0008
  /\ Down[9] = Down0009 /\ Down[10] = Down0010 /\ Down[11] = Down0010b /\ Down[12] = Down0011
  /\ Down[13] = Down0012
BY DEF Down

\* From 0003 on every revision can be taken back from any sound schema, and all
\* but 0010 only add.
LEMMA LaterRevisions ==
  \A k \in 3..13 : Reversible(Up[k], Down[k]) /\ (k # 10 => Additive(Up[k], Down[k]))
<1>1. /\ Additive(Up[3], Down[3]) /\ Additive(Up[4], Down[4]) /\ Additive(Up[5], Down[5])
      /\ Additive(Up[6], Down[6]) /\ Additive(Up[7], Down[7]) /\ Additive(Up[8], Down[8])
      /\ Additive(Up[9], Down[9]) /\ Reversible(Up[10], Down[10])
      /\ Additive(Up[11], Down[11]) /\ Additive(Up[12], Down[12])
      /\ Additive(Up[13], Down[13])
  BY UpNames, DownNames, Revision0003, Revision0004, Revision0005, Revision0006, Revision0007,
     Revision0008, Revision0009, Revision0010, Revision0010b, Revision0011, Revision0012
<1>2. \A k \in 3..13 : k \in {3, 4, 5, 6, 7, 8, 9, 10, 11, 12, 13}
  OBVIOUS
<1>. QED BY <1>1, <1>2 DEF Additive

\* Every script is a sequence.
LEMMA Lengths == \A k \in 1..HeadRev : Len(Up[k]) \in Nat /\ Len(Down[k]) \in Nat
<1>1. Len(Up[1]) = 4 /\ Len(Down[1]) = 3
  BY UpNames, DownNames, Revision0001
<1>2. Len(Up[2]) = 1 /\ Len(Down[2]) = 1
  BY UpNames, DownNames DEF Up0002, Down0002
<1>3. \A k \in 1..HeadRev : k = 1 \/ k = 2 \/ k \in 3..13
  BY Revisions
<1>4. \A k \in 3..13 : Len(Up[k]) \in Nat /\ Len(Down[k]) \in Nat
  BY LaterRevisions DEF Reversible
<1>5. 1 \in Nat /\ 3 \in Nat /\ 4 \in Nat
  OBVIOUS
<1>. QED BY <1>1, <1>2, <1>3, <1>4, <1>5

\* Each revision can be taken back from where the chain reaches it.
LEMMA ChainReverts ==
  ASSUME NEW n \in 0..HeadRev, Done(n)
  PROVE  \A k \in 1..n : Reverts(Up[k], Down[k], SchemaAt[k - 1])
<1>1. \A k \in 1..n : k \in 1..HeadRev /\ Ran(Up[k], SchemaAt[k - 1], {}).ok
  BY Revisions DEF Done
<1>2. ASSUME NEW k \in 1..n, Sound(SchemaAt[k - 1]) PROVE Reverts(Up[k], Down[k], SchemaAt[k - 1])
  <2>1. CASE k = 1
    <3>1. SchemaAt[k - 1] = {} /\ Up[k] = Up0001 /\ Down[k] = Down0001
      BY <2>1, SchemaAtFacts, UpNames, DownNames
    <3>2. Ran(Up0001, {}, {}).ok
      BY <1>1, <3>1
    <3>3. Reverts(Up0001, Down0001, {})
      <4>1. Len(Up0001) \in Nat /\ Len(Down0001) \in Nat
        BY Revision0001
      <4>. QED BY <3>2, <4>1, Revision0001, PairFacts
    <3>. QED BY <3>1, <3>3
  <2>2. CASE k = 2
    <3>1. 1 \in 1..n /\ 1 \in 1..HeadRev /\ 1 - 1 = 0 /\ k - 1 = 1
      BY <2>2, Revisions
    <3>2. Ran(Up0001, {}, {}).ok /\ SchemaAt[1] = Ran(Up0001, {}, {}).schema
      <4>1. Up[1] = Up0001 /\ SchemaAt[0] = {} /\ SchemaAt[1] = Ran(Up[1], SchemaAt[1 - 1], {}).schema
        BY <3>1, SchemaAtFacts, UpNames
      <4>2. Ran(Up[1], SchemaAt[1 - 1], {}).ok
        BY <1>1, <3>1
      <4>. QED BY <3>1, <4>1, <4>2
    <3>3. /\ Len(Up0002) \in Nat /\ Len(Down0002) \in Nat
          /\ Builds(Up0002, SchemaAt[1]) /\ Undoes(Down0002, Up0002)
      BY <3>2, Revision0002
    <3>4. Up[k] = Up0002 /\ Down[k] = Down0002 /\ Sound(SchemaAt[1])
          /\ Ran(Up0002, SchemaAt[1], {}).ok
      <4>1. Up[k] = Up0002 /\ Down[k] = Down0002
        BY <2>2, UpNames, DownNames
      <4>2. Ran(Up[k], SchemaAt[k - 1], {}).ok
        BY <1>1
      <4>. QED BY <1>2, <3>1, <4>1, <4>2
    <3>5. Reverts(Up0002, Down0002, SchemaAt[1])
      BY <3>3, <3>4, PairFacts
    <3>. QED BY <3>1, <3>4, <3>5
  <2>3. CASE k \in 3..13
    BY <1>1, <1>2, <2>3, LaterRevisions DEF Reversible
  <2>. QED BY <2>1, <2>2, <2>3, Revisions
<1>. DEFINE G == {k \in 0..n : Sound(SchemaAt[k])}
<1>3. 0 \in G /\ n \in Nat
  <2>1. n \in Nat /\ 0 \in 0..n
    BY Revisions
  <2>2. Sound(SchemaAt[0])
    BY SchemaAtFacts, Revision0001
  <2>. QED BY <2>1, <2>2
<1>4. ASSUME NEW k \in G, k # n PROVE k + 1 \in G
  <2>1. k + 1 \in 1..n /\ (k + 1) - 1 = k /\ k + 1 \in 0..n /\ Sound(SchemaAt[k])
    BY <1>3, <1>4
  <2>2. Reverts(Up[k + 1], Down[k + 1], SchemaAt[k])
    <3>1. \E i \in 1..n : i = k + 1 /\ i - 1 = k
      BY <2>1
    <3>. QED BY <1>2, <2>1, <3>1
  <2>3. SchemaAt[k + 1] = Ran(Up[k + 1], SchemaAt[k], {}).schema
    <3>1. \E i \in 1..HeadRev : i = k + 1 /\ i - 1 = k
      BY <1>1, <2>1
    <3>. QED BY <3>1, SchemaAtFacts
  <2>4. Sound(SchemaAt[k + 1])
    BY <2>2, <2>3 DEF Reverts
  <2>. QED BY <2>1, <2>4
<1>5. \A k \in 0..n : k \in G
  <2>. HIDE DEF G
  <2>. QED BY <1>3, <1>4, Induct
<1>6. \A k \in 1..n : k - 1 \in 0..n
  BY <1>3
<1>. QED BY <1>2, <1>5, <1>6

-----------------------------------------------------------------------------
(* What the head revision has. *)

\* Of what one revision finds only the old kinds of exports may go, and what
\* it creates is there, triggers apart.
LEMMA ChainGrows ==
  ASSUME NEW n \in 0..HeadRev, Done(n)
  PROVE  \A k \in 1..n :
           /\ SchemaAt[k - 1] \ OldKinds \subseteq SchemaAt[k]
           /\ k # 10 => \A o \in Built(Up[k]) : o[1] # "trigger" => o \in SchemaAt[k]
           /\ k = 10 => NewKinds \subseteq SchemaAt[k]
<1>1. \A k \in 1..n : /\ k \in 1..HeadRev /\ k - 1 \in 0..HeadRev
                      /\ Ran(Up[k], SchemaAt[k - 1], {}).ok
                      /\ SchemaAt[k] = Ran(Up[k], SchemaAt[k - 1], {}).schema
                      /\ Len(Up[k]) \in Nat
  <2>1. \A k \in 1..n : k \in 1..HeadRev /\ k - 1 \in 0..HeadRev
    BY Revisions
  <2>2. \A k \in 1..n : Ran(Up[k], SchemaAt[k - 1], {}).ok
    BY DEF Done
  <2>3. \A k \in 1..n : Len(Up[k]) \in Nat
    BY <2>1, Lengths
  <2>4. \A k \in 1..n : SchemaAt[k] = Ran(Up[k], SchemaAt[k - 1], {}).schema
    BY <2>1, SchemaAtFacts
  <2>. QED BY <2>1, <2>2, <2>3, <2>4
<1>2. \A k \in 1..n : Sound(SchemaAt[k - 1])
  <2>. SUFFICES ASSUME NEW k \in 1..n PROVE Sound(SchemaAt[k - 1])
    OBVIOUS
  <2>1. CASE k = 1
    BY <2>1, SchemaAtFacts, Revision0001
  <2>2. CASE k # 1
    <3>1. k - 1 \in 1..n
      BY <2>2, Revisions
    <3>2. Reverts(Up[k - 1], Down[k - 1], SchemaAt[(k - 1) - 1])
      BY <3>1, ChainReverts
    <3>. QED BY <1>1, <3>1, <3>2 DEF Reverts
  <2>. QED BY <2>1, <2>2
<1>. SUFFICES ASSUME NEW k \in 1..n
              PROVE  /\ SchemaAt[k - 1] \ OldKinds \subseteq SchemaAt[k]
                     /\ k # 10 => \A o \in Built(Up[k]) : o[1] # "trigger" => o \in SchemaAt[k]
                     /\ k = 10 => NewKinds \subseteq SchemaAt[k]
  OBVIOUS
<1>3. ASSUME Grows(Up[k], SchemaAt[k - 1])
      PROVE  /\ SchemaAt[k - 1] \ OldKinds \subseteq SchemaAt[k]
             /\ \A o \in Built(Up[k]) : o[1] # "trigger" => o \in SchemaAt[k]
  BY <1>1, <1>3 DEF Grows
<1>4. CASE k = 1
  <2>1. Up[k] = Up0001 /\ SchemaAt[k - 1] = {}
    BY <1>4, UpNames, SchemaAtFacts
  <2>2. Builds(Up[k], SchemaAt[k - 1])
    BY <2>1, Revision0001
  <2>3. Grows(Up[k], SchemaAt[k - 1])
    BY <1>1, <1>2, <2>2, UpFacts DEF Grows
  <2>. QED BY <1>3, <1>4, <2>3
<1>5. CASE k = 2
  <2>1. 1 \in 1..n /\ 1 - 1 = 0 /\ k - 1 = 1
    BY <1>5, Revisions
  <2>2. Up[k] = Up0002 /\ Up[1] = Up0001 /\ SchemaAt[0] = {}
    BY <1>5, UpNames, SchemaAtFacts
  <2>3. Ran(Up0001, {}, {}).ok /\ SchemaAt[1] = Ran(Up0001, {}, {}).schema
    <3>1. /\ Ran(Up[1], SchemaAt[1 - 1], {}).ok
          /\ SchemaAt[1] = Ran(Up[1], SchemaAt[1 - 1], {}).schema
      BY <1>1, <2>1
    <3>. QED BY <2>1, <2>2, <3>1
  <2>4. Builds(Up[k], SchemaAt[k - 1])
    BY <2>1, <2>2, <2>3, Revision0002
  <2>5. Grows(Up[k], SchemaAt[k - 1])
    BY <1>1, <1>2, <2>4, UpFacts DEF Grows
  <2>. QED BY <1>3, <1>5, <2>5
<1>6. CASE k \in 3..13 /\ k # 10
  <2>1. Grows(Up[k], SchemaAt[k - 1])
    BY <1>1, <1>2, <1>6, LaterRevisions DEF Additive
  <2>. QED BY <1>3, <1>6, <2>1
<1>7. CASE k = 10
  <2>1. Up[k] = Up0010
    BY <1>7, UpNames
  <2>2. Len(Up0010) = 2 /\ Up0010[1] = Drop(OldKinds) /\ Up0010[2] = Create(NewKinds)
    BY DEF Up0010
  <2>3. /\ Up0010[1].sql = "drop" /\ Up0010[1].objects = OldKinds
    BY <2>2 DEF Drop
  <2>4. /\ Up0010[2].sql = "create" /\ Up0010[2].objects = NewKinds
    BY <2>2, CreateReads, Zenon
  <2>5. Of("table", OldKinds) = {}
    BY DEF Of, OldKinds, Domain
  <2>6. \A schema : After(Up0010[1], schema) = schema \ OldKinds
    BY <2>3, <2>5 DEF After
  <2>7. \A schema : After(Up0010[2], schema) = schema \cup NewKinds
    BY <2>4 DEF After
  <2>8. SchemaAt[k] = After(Up0010[2], After(Up0010[1], SchemaAt[k - 1]))
    <3>1. Ran(Up0010, SchemaAt[k - 1], {}).ok /\ SchemaAt[k] = Ran(Up0010, SchemaAt[k - 1], {}).schema
      BY <1>1, <2>1
    <3>. QED BY <2>2, <3>1, TwoStatements
  <2>9. SchemaAt[k] = (SchemaAt[k - 1] \ OldKinds) \cup NewKinds
    BY <2>6, <2>7, <2>8
  <2>. QED BY <1>7, <2>9
<1>8. k = 1 \/ k = 2 \/ (k \in 3..13 /\ k # 10) \/ k = 10
  BY Revisions
<1>. QED BY <1>4, <1>5, <1>6, <1>7, <1>8

\* What a revision has made, the old kinds of exports apart, is there at any
\* later one.
LEMMA Stays ==
  ASSUME NEW n \in 0..HeadRev, Done(n), NEW k \in 1..n, NEW o \in SchemaAt[k], o \notin OldKinds
  PROVE  o \in SchemaAt[n]
<1>1. \A i \in 1..n : SchemaAt[i - 1] \ OldKinds \subseteq SchemaAt[i]
  BY ChainGrows
<1>. DEFINE G == {i \in 0..n : k <= i => o \in SchemaAt[i]}
<1>2. 0 \in G /\ n \in Nat
  BY Revisions
<1>3. ASSUME NEW i \in 0..n, i # n, i \in G PROVE i + 1 \in G
  <2>1. i + 1 \in 1..n /\ (i + 1) - 1 = i /\ i + 1 \in 0..n
    BY <1>2, <1>3
  <2>2. SchemaAt[i] \ OldKinds \subseteq SchemaAt[i + 1]
    <3>1. \E j \in 1..n : j = i + 1 /\ j - 1 = i
      BY <2>1
    <3>. QED BY <1>1, <3>1
  <2>3. k <= i + 1 => k <= i \/ k = i + 1
    BY <2>1
  <2>. QED BY <1>3, <2>1, <2>2, <2>3
<1>4. n \in G
  <2>. HIDE DEF G
  <2>1. \A i \in 0..n : i \in G
    BY <1>2, <1>3, Induct
  <2>. QED BY <1>2, <2>1
<1>. QED BY <1>4

HeadSchema == SchemaAt[13]

\* So what one revision has made is there at head.
LEMMA AtHead ==
  ASSUME Done(13), NEW k \in 1..13, NEW o \in SchemaAt[k], o \notin OldKinds
  PROVE  o \in HeadSchema
<1>1. 13 \in 0..HeadRev
  BY Revisions
<1>. QED BY <1>1, Stays DEF HeadSchema

\* What a statement of a revision creates for another table than the exports
\* is there at head.
LEMMA CreatedAtHead ==
  ASSUME Done(13), NEW k \in 1..13, k # 10, NEW u, Up[k] = u, NEW i \in 1..Len(u),
         NEW X, u[i].sql = "create", u[i].objects = X,
         NEW o \in X, o[1] # "trigger", o \notin OldKinds
  PROVE  o \in HeadSchema
<1>1. o \in Built(u)
  BY DEF Built
<1>2. 13 \in 0..HeadRev
  BY Revisions
<1>3. \A j \in 1..13 : j # 10 => \A x \in Built(Up[j]) : x[1] # "trigger" => x \in SchemaAt[j]
  BY <1>2, ChainGrows
<1>4. o \in SchemaAt[k]
  BY <1>1, <1>3
<1>. QED BY <1>4, AtHead

\* The domain that 0010 drops.
LEMMA OldKindFacts == \A o \in OldKinds : o[1] = "domain" /\ o[2] = "notice_exports" /\ o[3] = "kind"
BY DEF OldKinds, Domain

\* So is all of a table other than the exports.
LEMMA TableAtHead ==
  ASSUME Done(13), NEW k \in 1..13, k # 10, NEW u, Up[k] = u, NEW i \in 1..Len(u),
         NEW t, t # "notice_exports", Creates(u[i], t)
  PROVE  u[i].objects \subseteq HeadSchema
<1>. SUFFICES ASSUME NEW o \in u[i].objects PROVE o \in HeadSchema
  OBVIOUS
<1>1. u[i].sql = "create" /\ o[1] # "trigger" /\ o[2] = t
  BY DEF Creates, Plain
<1>2. o \notin OldKinds
  BY <1>1, OldKindFacts
<1>. QED BY <1>1, <1>2, CreatedAtHead

\* So is what was added to such a table.
LEMMA PartAtHead ==
  ASSUME Done(13), NEW k \in 1..13, k # 10, NEW u, Up[k] = u, NEW i \in 1..Len(u),
         NEW t, t # "notice_exports", NEW X, Belong(X, t), u[i] = Create(X)
  PROVE  X \subseteq HeadSchema
<1>. SUFFICES ASSUME NEW o \in X PROVE o \in HeadSchema
  OBVIOUS
<1>1. u[i].sql = "create" /\ u[i].objects = X
  BY DEF Create
<1>2. o[1] # "trigger" /\ o[2] = t
  BY DEF Belong, Plain
<1>3. o \notin OldKinds
  BY <1>2, OldKindFacts
<1>. QED BY <1>1, <1>2, <1>3, CreatedAtHead

\* What a statement of 0003 creates with a table is there at the head.
LEMMA OntologyTableAtHead ==
  ASSUME Done(13), NEW i \in 1..8, NEW st, Up0003[i] = st, NEW t, t # "notice_exports", Creates(st, t)
  PROVE  st.objects \subseteq HeadSchema
<1>1. Up[3] = Up0003 /\ 3 \in 1..13 /\ 3 # 10
  BY UpNames
<1>2. i \in 1..Len(Up0003)
  BY Up0003Facts
<1>. QED BY <1>1, <1>2, TableAtHead

\* The vocabulary of the ontology is at head what the code takes it for.
LEMMA VocabularyAtHead ==
  ASSUME Done(13)
  PROVE  VocabularyTables \subseteq HeadSchema
<1>1. VocabularyTables \subseteq ConceptTables[1].objects \cup ConceptTables[2].objects
                                   \cup RuleTables[1].objects \cup RuleTables[2].objects
  BY DEF VocabularyTables, ConceptTables, RuleTables, Create
<1>2. ConceptTables[1].objects \subseteq HeadSchema
  BY Up0003Facts, OntologyBelongs, OntologyTableAtHead
<1>3. ConceptTables[2].objects \subseteq HeadSchema
  BY Up0003Facts, OntologyBelongs, OntologyTableAtHead
<1>4. RuleTables[1].objects \subseteq HeadSchema
  BY Up0003Facts, OntologyBelongs, OntologyTableAtHead
<1>5. RuleTables[2].objects \subseteq HeadSchema
  BY Up0003Facts, OntologyBelongs, OntologyTableAtHead
<1>. QED BY <1>1, <1>2, <1>3, <1>4, <1>5

\* So are its assertions and tasks.
LEMMA AssertionsAtHead ==
  ASSUME Done(13)
  PROVE  AssertionTables \subseteq HeadSchema
<1>1. AssertionTables \subseteq RuleTables[3].objects \cup TaskTables[1].objects
                                  \cup TaskTables[2].objects \cup TaskTables[3].objects
  BY DEF AssertionTables, RuleTables, TaskTables, Create
<1>2. RuleTables[3].objects \subseteq HeadSchema
  BY Up0003Facts, OntologyBelongs, OntologyTableAtHead
<1>3. TaskTables[1].objects \subseteq HeadSchema
  BY Up0003Facts, OntologyBelongs, OntologyTableAtHead
<1>4. TaskTables[2].objects \subseteq HeadSchema
  BY Up0003Facts, OntologyBelongs, OntologyTableAtHead
<1>5. TaskTables[3].objects \subseteq HeadSchema
  BY Up0003Facts, OntologyBelongs, OntologyTableAtHead
<1>. QED BY <1>1, <1>2, <1>3, <1>4, <1>5

\* So are the tables of the HWP work.
LEMMA HwpAtHead ==
  ASSUME Done(13)
  PROVE  HwpTables \subseteq HeadSchema
<1>1. HwpTables \subseteq Up0009[1].objects \cup Up0009[2].objects
                            \cup Up0009[3].objects \cup Up0009[4].objects
  BY DEF HwpTables, Up0009, Create, JobExport
<1>2. /\ 1 \in 1..Len(Up0009)
      /\ 2 \in 1..Len(Up0009)
      /\ 3 \in 1..Len(Up0009)
      /\ 4 \in 1..Len(Up0009)
  BY Statements0009
<1>3. Up[9] = Up0009 /\ 9 \in 1..13 /\ 9 # 10
  BY UpNames
<1>4. Up0009[1].objects \subseteq HeadSchema
  BY <1>2, <1>3, Statements0009, TableAtHead
<1>5. Up0009[2].objects \subseteq HeadSchema
  BY <1>2, <1>3, Statements0009, TableAtHead
<1>6. Up0009[3].objects \subseteq HeadSchema
  BY <1>2, <1>3, Statements0009, TableAtHead
<1>7. Up0009[4].objects \subseteq HeadSchema
  BY <1>2, <1>3, Statements0009, TableAtHead
<1>. QED BY <1>1, <1>4, <1>5, <1>6, <1>7

\* So are the errors, required documents and fetch jobs.
LEMMA TrackingAtHead ==
  ASSUME Done(13)
  PROVE  TrackingTables \subseteq HeadSchema
<1>1. TrackingTables \subseteq Up0006[3].objects \cup Up0007[3].objects
                                 \cup Up0007[4].objects \cup Up0011[1].objects
  BY DEF TrackingTables, Up0006, Up0007, Up0011, Create
<1>2. Up0006[3].objects \subseteq HeadSchema
  <2>1. Up[6] = Up0006 /\ 6 \in 1..13 /\ 6 # 10 /\ 3 \in 1..Len(Up0006)
    BY UpNames, Statements0006
  <2>. QED BY <2>1, Statements0006, TableAtHead
<1>3. Up0007[3].objects \subseteq HeadSchema /\ Up0007[4].objects \subseteq HeadSchema
  <2>1. Up[7] = Up0007 /\ 7 \in 1..13 /\ 7 # 10 /\ 3 \in 1..Len(Up0007) /\ 4 \in 1..Len(Up0007)
    BY UpNames, Statements0007
  <2>2. Up0007[3].objects \subseteq HeadSchema
    BY <2>1, Statements0007, TableAtHead
  <2>3. Up0007[4].objects \subseteq HeadSchema
    BY <2>1, Statements0007, TableAtHead
  <2>. QED BY <2>2, <2>3
<1>4. Up0011[1].objects \subseteq HeadSchema
  <2>1. Up[12] = Up0011 /\ 12 \in 1..13 /\ 12 # 10 /\ 1 \in 1..Len(Up0011)
    BY UpNames, Statements0011
  <2>. QED BY <2>1, Statements0011, TableAtHead
<1>. QED BY <1>1, <1>2, <1>3, <1>4

\* So are the tables of the proposals.
LEMMA ProposalsAtHead ==
  ASSUME Done(13)
  PROVE  ProposalTables \subseteq HeadSchema
<1>1. ProposalTables \subseteq LibraryTables[1].objects \cup LibraryTables[2].objects
                                 \cup LibraryTables[3].objects \cup RequirementTable[1].objects
                                 \cup EvidenceTables[1].objects \cup EvidenceTables[2].objects
  <2>1. /\ Table("proposal_documents") \in LibraryTables[1].objects
        /\ Domain("proposal_documents", "category",
                  {"proposal", "report", "certificate", "product", "company", "performance",
                   "other"}) \in LibraryTables[1].objects
        /\ Domain("proposal_documents", "indexing_status", {"pending", "indexed", "failed"})
             \in LibraryTables[1].objects
    BY DEF LibraryTables, Create
  <2>2. /\ Table("document_chunks") \in LibraryTables[2].objects
        /\ Ref("document_chunks", "document_id", "proposal_documents", "CASCADE")
             \in LibraryTables[2].objects
    BY DEF LibraryTables, Create
  <2>3. /\ Indexes("proposal_documents", {"category", "customer", "checksum"})
             \subseteq LibraryTables[1].objects
        /\ Index("document_chunks", "document") \in LibraryTables[2].objects
        /\ Indexes("project_performances", {"verified", "customer"}) \subseteq LibraryTables[3].objects
    BY DEF LibraryTables, Create
  <2>4. Indexes("notice_requirements", {"notice", "type"}) \subseteq RequirementTable[1].objects
    BY DEF RequirementTable, Create
  <2>5. /\ Indexes("requirement_evidences", {"requirement", "document"})
              \subseteq EvidenceTables[1].objects
         /\ Index("proposal_sections", "notice") \in EvidenceTables[2].objects
    BY DEF EvidenceTables, Create
  <2>6. /\ Table("project_performances") \in LibraryTables[3].objects
        /\ Ref("project_performances", "evidence_document_id", "proposal_documents", "SET NULL")
             \in LibraryTables[3].objects
    BY DEF LibraryTables, Create
  <2>7. /\ Table("notice_requirements") \in RequirementTable[1].objects
        /\ ByNotice("notice_requirements") \in RequirementTable[1].objects
    BY DEF RequirementTable, Create
  <2>8. /\ Table("requirement_evidences") \in EvidenceTables[1].objects
        /\ Ref("requirement_evidences", "requirement_id", "notice_requirements", "CASCADE")
             \in EvidenceTables[1].objects
        /\ Ref("requirement_evidences", "document_id", "proposal_documents", "SET NULL")
             \in EvidenceTables[1].objects
        /\ Ref("requirement_evidences", "chunk_id", "document_chunks", "SET NULL")
             \in EvidenceTables[1].objects
        /\ Ref("requirement_evidences", "performance_id", "project_performances", "SET NULL")
             \in EvidenceTables[1].objects
    BY DEF EvidenceTables, Create
  <2>9. /\ Table("proposal_sections") \in EvidenceTables[2].objects
        /\ ByNotice("proposal_sections") \in EvidenceTables[2].objects
        /\ Domain("proposal_sections", "generation_status",
                  {"draft", "verified", "rejected", "approved"}) \in EvidenceTables[2].objects
        /\ Domain("proposal_sections", "fact_check_status", {"pending", "pass", "warning", "reject"})
             \in EvidenceTables[2].objects
    BY DEF EvidenceTables, Create
  <2>. DEFINE U == LibraryTables[1].objects \cup LibraryTables[2].objects
                   \cup LibraryTables[3].objects \cup RequirementTable[1].objects
                   \cup EvidenceTables[1].objects \cup EvidenceTables[2].objects
  <2>10. /\ LibraryTables[1].objects \subseteq U /\ LibraryTables[2].objects \subseteq U
         /\ LibraryTables[3].objects \subseteq U /\ RequirementTable[1].objects \subseteq U
         /\ EvidenceTables[1].objects \subseteq U /\ EvidenceTables[2].objects \subseteq U
    OBVIOUS
  <2>. HIDE DEF U
  <2>11. ASSUME NEW o \in ProposalTables PROVE o \in U
    BY <2>1, <2>2, <2>3, <2>4, <2>5, <2>6, <2>7, <2>8, <2>9, <2>10, <2>11, ZenonT(60) DEF ProposalTables
  <2>. QED BY <2>11 DEF U
<1>2. /\ 1 \in 1..Len(Up0012)
      /\ 2 \in 1..Len(Up0012)
      /\ 3 \in 1..Len(Up0012)
      /\ 4 \in 1..Len(Up0012)
      /\ 5 \in 1..Len(Up0012)
      /\ 6 \in 1..Len(Up0012)
  BY Up0012Facts
<1>3. Up[13] = Up0012 /\ 13 \in 1..13 /\ 13 # 10
  BY UpNames
<1>4. LibraryTables[1].objects \subseteq HeadSchema
  BY <1>2, <1>3, Up0012Facts, LibraryBelongs, TableAtHead
<1>5. LibraryTables[2].objects \subseteq HeadSchema
  BY <1>2, <1>3, Up0012Facts, LibraryBelongs, TableAtHead
<1>6. LibraryTables[3].objects \subseteq HeadSchema
  BY <1>2, <1>3, Up0012Facts, LibraryBelongs, TableAtHead
<1>7. RequirementTable[1].objects \subseteq HeadSchema
  BY <1>2, <1>3, Up0012Facts, LibraryBelongs, TableAtHead
<1>8. EvidenceTables[1].objects \subseteq HeadSchema
  BY <1>2, <1>3, Up0012Facts, LibraryBelongs, TableAtHead
<1>9. EvidenceTables[2].objects \subseteq HeadSchema
  BY <1>2, <1>3, Up0012Facts, LibraryBelongs, TableAtHead
<1>. QED BY <1>1, <1>4, <1>5, <1>6, <1>7, <1>8, <1>9

\* The notices' own tables; the exports' are where 0010 changes the domain.
LEMMA NoticesAtHead ==
  ASSUME Done(13)
  PROVE  NoticeTables \subseteq HeadSchema
<1>. DEFINE X == Up0006[2].objects
            Items == Up0005[1].objects
            Kept == {Table("notice_exports"), ByNotice("notice_exports")}
                      \cup Indexes("notice_exports", {"notice", "active"})
<1>1. NoticeTables \subseteq {Table("bid_pipeline")} \cup Items \cup ReviewColumns
                               \cup SourceColumns \cup Priority \cup Kept
                               \cup QualityColumns \cup Quality \cup NewKinds
  <2>1. Columns("notice_spec_items", {"note", "reviewed_by", "reviewed_at", "locked_fields",
                "source_text", "source_file_name", "source_page", "review_priority"})
          \subseteq ReviewColumns \cup SourceColumns
    BY DEF Columns, ReviewColumns, SourceColumns
  <2>. QED BY <2>1 DEF NoticeTables, Up0005, Create, Priority, QualityColumns, Quality, NewKinds
<1>2. Table("bid_pipeline") \in HeadSchema
  <2>. DEFINE B == Up0001[1].objects
  <2>1. /\ Up[1] = Up0001 /\ 1 \in 1..13 /\ 1 # 10 /\ 1 \in 1..Len(Up0001)
        /\ Up0001[1] = Create(B) /\ Table("bid_pipeline") \in B
    BY UpNames, Revision0001 DEF Up0001, Create
  <2>2. Belong(B, "bid_pipeline")
    BY PartFacts, ObjectFacts DEF Up0001, Belong, Create
  <2>3. B \subseteq HeadSchema
    <3>. HIDE DEF B
    <3>. QED BY <2>1, <2>2, PartAtHead
  <2>. QED BY <2>1, <2>3
<1>3. Items \subseteq HeadSchema
  <2>1. Up[5] = Up0005 /\ 5 \in 1..13 /\ 5 # 10 /\ 1 \in 1..Len(Up0005)
    BY UpNames, Statements0005
  <2>. QED BY <2>1, Statements0005, TableAtHead
<1>4. ReviewColumns \subseteq HeadSchema
  <2>1. Up[6] = Up0006 /\ 6 \in 1..13 /\ 6 # 10 /\ 1 \in 1..Len(Up0006)
    BY UpNames, Statements0006
  <2>. QED BY <2>1, Statements0006, PartAtHead
<1>5. SourceColumns \subseteq HeadSchema /\ Priority \subseteq HeadSchema
  <2>1. Up[7] = Up0007 /\ 7 \in 1..13 /\ 7 # 10 /\ 1 \in 1..Len(Up0007) /\ 2 \in 1..Len(Up0007)
    BY UpNames, Statements0007
  <2>2. SourceColumns \subseteq HeadSchema
    BY <2>1, Statements0007, PartAtHead
  <2>3. Priority \subseteq HeadSchema
    BY <2>1, Statements0007, PartAtHead
  <2>. QED BY <2>2, <2>3
<1>6. Kept \subseteq HeadSchema
  <2>1. \A o \in Kept : o[1] # "domain"
    BY DEF Table, ByNotice, Ref, Indexes, Index
  <2>2. Kept \subseteq X
    BY DEF Up0006, Create
  <2>3. /\ Up[6] = Up0006 /\ 6 \in 1..13 /\ 6 # 10 /\ 2 \in 1..Len(Up0006)
        /\ Up0006[2].sql = "create" /\ \A o \in X : o[1] # "trigger"
    BY UpNames, Statements0006 DEF Creates, Plain
  <2>. HIDE DEF X, Kept
  <2>4. \A o \in Kept : o \in X /\ o[1] # "trigger" /\ o \notin OldKinds
    BY <2>1, <2>2, <2>3, OldKindFacts
  <2>. QED BY <2>3, <2>4, CreatedAtHead DEF X
<1>7. /\ Up[8] = Up0008 /\ 8 \in 1..13 /\ 8 # 10 /\ 1 \in 1..Len(Up0008) /\ 2 \in 1..Len(Up0008)
  BY UpNames, Statements0008
<1>8. QualityColumns \subseteq HeadSchema
  <2>1. Up0008[1].sql = "create" /\ Up0008[1].objects = QualityColumns
    BY Statements0008 DEF Create, Drop
  <2>2. \A o \in QualityColumns : o[1] = "column"
    BY DEF QualityColumns, Columns, Column
  <2>3. \A o \in QualityColumns : o[1] # "trigger" /\ o \notin OldKinds
    BY <2>2, OldKindFacts
  <2>. QED BY <1>7, <2>1, <2>3, CreatedAtHead
<1>9. Quality \subseteq HeadSchema
  <2>1. Up0008[2].sql = "create" /\ Up0008[2].objects = Quality
    BY Statements0008 DEF Create, Drop
  <2>2. \A o \in Quality : o[1] = "domain" /\ o[3] = "validation_status"
    BY DEF Quality, Domain
  <2>3. \A o \in Quality : o[1] # "trigger" /\ o \notin OldKinds
    BY <2>2, OldKindFacts
  <2>. QED BY <1>7, <2>1, <2>3, CreatedAtHead
<1>10. NewKinds \subseteq HeadSchema
  <2>1. 13 \in 0..HeadRev /\ 10 \in 1..13
    BY Revisions
  <2>2. NewKinds \subseteq SchemaAt[10]
    BY <2>1, ChainGrows
  <2>3. \A o \in NewKinds : o \notin OldKinds
    <3>1. {"excel", "hwp", "bid_form_hwp", "proposal_hwp"} # {"excel", "hwp", "proposal_hwp"}
      OBVIOUS
    <3>2. \A v, w : Domain("notice_exports", "kind", v) = Domain("notice_exports", "kind", w) => v = w
      BY DEF Domain
    <3>. QED BY <3>1, <3>2 DEF NewKinds, OldKinds
  <2>. QED BY <2>1, <2>2, <2>3, AtHead
<1>. HIDE DEF Items, Kept
<1>. QED BY <1>1, <1>2, <1>3, <1>4, <1>5, <1>6, <1>8, <1>9, <1>10

\* All that the code needs is there at head.
LEMMA CodeAtHead ==
  ASSUME Done(13)
  PROVE  CodeObjects \subseteq SchemaAt[13]
BY NoticesAtHead, HwpAtHead, ProposalsAtHead, TrackingAtHead, VocabularyAtHead, AssertionsAtHead
   DEF CodeObjects, HeadSchema

-----------------------------------------------------------------------------
(* Where the objects of a schema come from, and what they let a cleanup reach. *)

\* A script makes nothing but what its statements create.
LEMMA MadeByScript ==
  ASSUME NEW u, NEW s, NEW rows, Len(u) \in Nat, Ran(u, s, rows).ok
  PROVE  Ran(u, s, rows).schema \subseteq s \cup Built(u)
<1>. DEFINE n == Len(u)
<1>1. PICK run : IsRun(run, u, s, rows) /\ Ran(u, s, rows) = run[n]
  BY RanFacts
<1>2. WentWell(run, u, s)
  BY <1>1, RunFacts
<1>. DEFINE G == {k \in 0..n : run[k].schema \subseteq s \cup Built(u)}
<1>3. 0 \in G /\ n \in Nat /\ n \in 0..n
  BY <1>2 DEF WentWell
<1>4. ASSUME NEW k \in G, k # n PROVE k + 1 \in G
  <2>1. k + 1 \in 1..n /\ (k + 1) - 1 = k
    BY <1>4
  <2>2. run[k + 1].schema = After(u[k + 1], run[k].schema)
    BY <1>2, <2>1 DEF WentWell
  <2>3. run[k + 1].schema \subseteq s \cup Built(u)
    <3>1. CASE u[k + 1].sql \in {"create", "create if missing"}
      <4>1. u[k + 1].objects \subseteq Built(u)
        BY <2>1, <3>1 DEF Built
      <4>2. run[k + 1].schema = run[k].schema \cup u[k + 1].objects
        BY <2>2, <3>1 DEF After
      <4>. QED BY <1>4, <4>1, <4>2
    <3>2. CASE u[k + 1].sql \notin {"create", "create if missing"}
      <4>1. run[k + 1].schema \subseteq run[k].schema
        BY <2>2, <3>2 DEF After
      <4>. QED BY <1>4, <4>1
    <3>. QED BY <3>1, <3>2
  <2>. QED BY <2>1, <2>3
<1>5. n \in G
  <2>. HIDE DEF n, G
  <2>. QED BY <1>3, <1>4, Induct
<1>. QED BY <1>1, <1>5

\* What is in a schema of the chain, one of its upgrades has made.
LEMMA MadeByOne ==
  ASSUME NEW n \in 0..HeadRev, Done(n)
  PROVE  \A o \in SchemaAt[n] : \E k \in 1..n : o \in Built(Up[k])
<1>. DEFINE Made(i) == \A o \in SchemaAt[i] : \E k \in 1..i : o \in Built(Up[k])
            G == {i \in 0..n : Made(i)}
<1>1. 0 \in G /\ n \in Nat /\ n \in 0..n
  BY SchemaAtFacts, Revisions
<1>2. ASSUME NEW i \in 0..n, i # n, i \in G PROVE i + 1 \in G
  <2>. DEFINE j == i + 1
  <2>1. j \in 1..n /\ j - 1 = i /\ j \in 1..HeadRev /\ Made(i)
    BY <1>1, <1>2, Revisions
  <2>2. /\ Ran(Up[j], SchemaAt[i], {}).ok /\ SchemaAt[j] = Ran(Up[j], SchemaAt[i], {}).schema
        /\ Len(Up[j]) \in Nat
    <3>. HIDE DEF j
    <3>. QED BY <2>1, SchemaAtFacts, Lengths DEF Done
  <2>3. SchemaAt[j] \subseteq SchemaAt[i] \cup Built(Up[j])
    BY <2>2, MadeByScript
  <2>4. \A k \in 1..i : k \in 1..j
    BY <2>1
  <2>5. j \in 1..j
    BY <2>1
  <2>6. Made(j)
    <3>. HIDE DEF j
    <3>. QED BY <2>1, <2>3, <2>4, <2>5
  <2>. HIDE DEF Made
  <2>. QED BY <2>1, <2>6
<1>3. n \in G
  <2>. HIDE DEF G
  <2>1. \A i \in 0..n : i \in G
    BY <1>1, <1>2, Induct
  <2>. QED BY <1>1, <2>1
<1>. QED BY <1>3

\* A table has no second name, no foreign key takes rows of a table that
\* outlives notices along with those of one that does not, and one that
\* refuses to let a row go refers to a table that outlives notices.
Mild(o) ==
  /\ o[1] = "table" => o = Table(o[2])
  /\ o[1] = "ref" =>
       /\ o[5] = "CASCADE" => o[4] \in Shared \/ o[2] \notin Shared
       /\ o[5] = "RESTRICT" => o[4] \in Shared

\* A table that outlives notices, that cleanup names, or that goes with the
\* notice, directly or with a table that does.
Tied(t, schema) ==
  \/ t \in Shared \cup Named
  \/ ByNotice(t) \in schema
  \/ \E c, p : Ref(t, c, p, "CASCADE") \in schema /\ ByNotice(p) \in schema

\* A script that leaves no table of the notice behind.
Tidy(u) ==
  /\ \A i \in 1..Len(u) : u[i].sql = "backfill" => u[i].objects = {}
  /\ \A o \in Built(u) : Mild(o) /\ (o[1] = "table" => Tied(o[2], Built(u)))

\* A statement of one.
Neat(st) ==
  /\ st.sql = "backfill" => st.objects = {}
  /\ st.sql \in {"create", "create if missing"} =>
       \A o \in st.objects : Mild(o) /\ (o[1] = "table" => Tied(o[2], st.objects))

\* Which objects are mild.
LEMMA MildFacts ==
  /\ \A t : Mild(Table(t))
  /\ \A t, c, v : Mild(Domain(t, c, v)) /\ Domain(t, c, v)[1] = "domain"
  /\ \A t : Mild(Trigger(t)) /\ Trigger(t)[1] = "trigger"
  /\ Mild(SetUpdatedAt)
  /\ \A t, c : Mild(Index(t, c)) /\ Index(t, c)[1] = "index"
  /\ \A t, N : \A o \in Indexes(t, N) : Mild(o) /\ o[1] = "index"
  /\ \A t, N : \A o \in Columns(t, N) : Mild(o) /\ o[1] = "column"
  /\ \A t : t \notin Shared => Mild(ByNotice(t))
  /\ \A t, c, p, r : (r = "CASCADE" /\ t \in Shared => p \in Shared)
                     /\ (r = "RESTRICT" => p \in Shared) => Mild(Ref(t, c, p, r))
BY DEF Mild, Table, Domain, Trigger, SetUpdatedAt, Function, Index, Indexes, Columns, Column,
       ByNotice, Ref

\* A script whose statements leave nothing behind does not.
LEMMA TidyRule ==
  ASSUME NEW u, Len(u) \in Nat, \A i \in 1..Len(u) : Neat(u[i])
  PROVE  Tidy(u)
<1>1. \A o \in Built(u) : Mild(o) /\ (o[1] = "table" => Tied(o[2], Built(u)))
  <2>. SUFFICES ASSUME NEW i \in 1..Len(u), u[i].sql \in {"create", "create if missing"},
                       NEW o \in u[i].objects
                PROVE  Mild(o) /\ (o[1] = "table" => Tied(o[2], Built(u)))
    BY DEF Built
  <2>1. u[i].objects \subseteq Built(u)
    BY DEF Built
  <2>2. Mild(o) /\ (o[1] = "table" => Tied(o[2], u[i].objects))
    BY DEF Neat
  <2>. QED BY <2>1, <2>2 DEF Tied
<1>. QED BY <1>1 DEF Tidy, Neat

\* A statement that creates a table with what belongs to it.
LEMMA NeatTable ==
  ASSUME NEW st, NEW t, Creates(st, t), \A o \in st.objects : Mild(o),
         t \in Shared \cup Named \/ ByNotice(t) \in st.objects
  PROVE  Neat(st)
BY DEF Neat, Creates, Tied

\* One that creates no table, or drops.
LEMMA NeatPart ==
  /\ \A X : (\A o \in X : Mild(o) /\ o[1] # "table") => Neat(Create(X)) /\ Neat(CreateIfMissing(X))
  /\ \A X : Neat(Drop(X)) /\ Neat(DropIfExists(X))
  /\ Neat(Backfill)
<1>1. \A X : (\A o \in X : Mild(o) /\ o[1] # "table") => Neat(Create(X)) /\ Neat(CreateIfMissing(X))
  BY DEF Neat, Create, CreateIfMissing
<1>2. \A X : Neat(Drop(X)) /\ Neat(DropIfExists(X))
  BY DEF Neat, Drop, DropIfExists
<1>3. Neat(Backfill)
  BY ObjectFacts DEF Neat
<1>. QED BY <1>1, <1>2, <1>3

\* A foreign key that is set to null is mild.
LEMMA NullFacts == \A t, c, p : Mild(Ref(t, c, p, "SET NULL"))
<1>1. \A t, c, p, r : r # "CASCADE" /\ r # "RESTRICT" => Mild(Ref(t, c, p, r))
  BY MildFacts
<1>2. "SET NULL" # "CASCADE" /\ "SET NULL" # "RESTRICT"
  OBVIOUS
<1>. QED BY <1>1, <1>2, Zenon

\* 0001 and 0002: the notices themselves, which cleanup names.
LEMMA NoticesTidy == Tidy(Up0001) /\ Tidy(Up0002) /\ Tidy(Up0004) /\ Tidy(Up0010b)
<1>1. Tidy(Up0001)
  <2>. DEFINE X == Up0001[1].objects
  <2>1. /\ Len(Up0001) = 4 /\ Up0001[1] = Create(X) /\ Table("bid_pipeline") \in X
        /\ Up0001[2] = CreateIfMissing({SetUpdatedAt})
        /\ Up0001[3] = DropIfExists({Trigger("bid_pipeline")})
        /\ Up0001[4] = Create({Trigger("bid_pipeline")})
    BY DEF Up0001, Create, SetUpdatedAt
  <2>2. \A o \in X : Mild(o)
    BY MildFacts DEF Up0001, Create
  <2>3. Belong(X, "bid_pipeline")
    BY PartFacts, ObjectFacts DEF Up0001, Belong, Create
  <2>4. Neat(Up0001[1])
    <3>. HIDE DEF X
    <3>1. Creates(Up0001[1], "bid_pipeline")
      BY <2>1, <2>3, CreatesTable
    <3>2. Up0001[1].objects = X
      BY <2>1 DEF Create, Drop
    <3>3. "bid_pipeline" \in Named
      BY DEF Named
    <3>. QED BY <2>2, <3>1, <3>2, <3>3, NeatTable
  <2>5. Neat(CreateIfMissing({SetUpdatedAt}))
    BY MildFacts, NeatPart, ObjectFacts
  <2>6. Neat(DropIfExists({Trigger("bid_pipeline")})) /\ Neat(Create({Trigger("bid_pipeline")}))
    BY MildFacts, NeatPart
  <2>7. \A i \in 1..4 : i = 1 \/ i = 2 \/ i = 3 \/ i = 4
    OBVIOUS
  <2>8. \A i \in 1..4 : Neat(Up0001[i])
    <3>. HIDE DEF X
    <3>. QED BY <2>1, <2>4, <2>5, <2>6, <2>7
  <2>. QED BY <2>1, <2>8, TidyRule
<1>2. Tidy(Up0002)
  <2>1. Len(Up0002) = 1 /\ Up0002[1] = CreateIfMissing(SearchIndexes)
    BY DEF Up0002
  <2>2. \A o \in SearchIndexes : Mild(o) /\ o[1] # "table"
    BY MildFacts DEF SearchIndexes
  <2>3. Neat(Up0002[1]) /\ \A i \in 1..1 : i = 1
    BY <2>1, <2>2, NeatPart
  <2>. QED BY <2>1, <2>3, TidyRule
<1>3. Tidy(Up0004)
  <2>1. Len(Up0004) = 1 /\ Up0004[1] = Backfill /\ \A i \in 1..1 : i = 1
    BY DEF Up0004
  <2>. QED BY <2>1, NeatPart, TidyRule
<1>4. Tidy(Up0010b)
  <2>1. Len(Up0010b) = 0 /\ 1..0 = {}
    BY DEF Up0010b
  <2>. QED BY <2>1, TidyRule
<1>. QED BY <1>1, <1>2, <1>3, <1>4

\* 0005 to 0008: the tables that cleanup names, and parts of them.
LEMMA WorkTidy == Tidy(Up0005) /\ Tidy(Up0006) /\ Tidy(Up0007) /\ Tidy(Up0008)
<1>1. /\ "notice_spec_items" \in Named /\ "notice_exports" \in Named /\ "notice_errors" \in Named
      /\ "attachment_fetch_jobs" \in Named /\ "attachment_fetch_files" \in Named
  BY DEF Named
<1>2. /\ "notice_spec_items" \notin Shared /\ "notice_exports" \notin Shared
      /\ "notice_errors" \notin Shared /\ "attachment_fetch_jobs" \notin Shared
      /\ "attachment_fetch_files" \notin Shared
  BY DEF Shared
<1>3. \A X, t, r : X = Columns(t, r) => \A o \in X : Mild(o) /\ o[1] # "table"
  BY MildFacts
<1>4. \A t, c, v : \A o \in {Domain(t, c, v)} : Mild(o) /\ o[1] # "table"
  BY MildFacts
<1>5. Tidy(Up0005)
  <2>1. \A o \in Up0005[1].objects : Mild(o)
    BY <1>2, MildFacts DEF Up0005, Create
  <2>2. Neat(Up0005[1]) /\ \A i \in 1..1 : i = 1
    BY <1>1, <2>1, Statements0005, NeatTable
  <2>. QED BY <2>2, Statements0005, TidyRule
<1>6. Tidy(Up0006)
  <2>1. \A o \in Up0006[2].objects : Mild(o)
    BY <1>2, MildFacts DEF Up0006, Create
  <2>2. \A o \in Up0006[3].objects : Mild(o)
    BY <1>2, MildFacts DEF Up0006, Create
  <2>3. Neat(Up0006[1])
    BY <1>3, Statements0006, NeatPart DEF ReviewColumns
  <2>4. Neat(Up0006[2]) /\ Neat(Up0006[3])
    BY <1>1, <2>1, <2>2, Statements0006, NeatTable
  <2>5. \A i \in 1..3 : i = 1 \/ i = 2 \/ i = 3
    OBVIOUS
  <2>6. \A i \in 1..3 : Neat(Up0006[i])
    BY <2>3, <2>4, <2>5
  <2>. QED BY <2>6, Statements0006, TidyRule
<1>7. Tidy(Up0007)
  <2>1. \A o \in Up0007[3].objects : Mild(o)
    BY <1>2, MildFacts DEF Up0007, Create
  <2>2. \A o \in Up0007[4].objects : Mild(o)
    BY <1>2, MildFacts DEF Up0007, Create
  <2>3. Neat(Up0007[1])
    BY <1>3, Statements0007, NeatPart DEF SourceColumns
  <2>4. Neat(Up0007[2])
    BY <1>4, Statements0007, NeatPart DEF Priority
  <2>5. Neat(Up0007[3]) /\ Neat(Up0007[4])
    BY <1>1, <2>1, <2>2, Statements0007, NeatTable
  <2>6. \A i \in 1..4 : i = 1 \/ i = 2 \/ i = 3 \/ i = 4
    OBVIOUS
  <2>7. \A i \in 1..4 : Neat(Up0007[i])
    BY <2>3, <2>4, <2>5, <2>6
  <2>. QED BY <2>7, Statements0007, TidyRule
<1>8. Tidy(Up0008)
  <2>1. Neat(Up0008[1])
    BY <1>3, Statements0008, NeatPart DEF QualityColumns
  <2>2. Neat(Up0008[2])
    BY <1>4, Statements0008, NeatPart DEF Quality
  <2>3. \A i \in 1..2 : i = 1 \/ i = 2
    OBVIOUS
  <2>4. \A i \in 1..2 : Neat(Up0008[i])
    BY <2>1, <2>2, <2>3
  <2>. QED BY <2>4, Statements0008, TidyRule
<1>. QED BY <1>5, <1>6, <1>7, <1>8

\* 0009 to 0011: of the tables for the HWP work, the jobs and the required
\* documents go with the notice.
LEMMA HwpTidy == Tidy(Up0009) /\ Tidy(Up0010) /\ Tidy(Up0011)
<1>1. /\ "company_profiles" \in Shared /\ "hwp_templates" \in Shared
      /\ "document_field_mappings" \in Shared
      /\ "hwp_generation_jobs" \notin Shared /\ "notice_required_documents" \notin Shared
  BY DEF Shared
<1>2. Tidy(Up0009)
  <2>1. \A o \in Up0009[1].objects : Mild(o)
    BY MildFacts DEF Up0009, Create
  <2>2. \A o \in Up0009[2].objects : Mild(o)
    BY MildFacts DEF Up0009, Create
  <2>3. \A o \in Up0009[3].objects : Mild(o)
    BY <1>1, MildFacts DEF Up0009, Create
  <2>4. \A o \in Up0009[4].objects : Mild(o)
    <3>. DEFINE R == {Ref("hwp_generation_jobs", "template_id", "hwp_templates", "SET NULL"),
                      JobExport}
                P == {Table("hwp_generation_jobs"), ByNotice("hwp_generation_jobs"),
                      Domain("hwp_generation_jobs", "status",
                             {"pending", "running", "completed", "failed"}),
                      Domain("hwp_generation_jobs", "review_status",
                             {"pending", "approved", "rejected"})}
    <3>1. \A o \in R : Mild(o)
      BY NullFacts, Zenon DEF JobExport
    <3>2. \A o \in P : Mild(o)
      BY <1>1, MildFacts
    <3>3. Up0009[4].objects
            = P \cup R \cup Indexes("hwp_generation_jobs", {"notice", "review"})
      BY DEF Up0009, Create
    <3>. HIDE DEF P, R
    <3>. QED BY <3>1, <3>2, <3>3, MildFacts
  <2>5. ByNotice("hwp_generation_jobs") \in Up0009[4].objects
    BY DEF Up0009, Create
  <2>6. Neat(Up0009[1]) /\ Neat(Up0009[2]) /\ Neat(Up0009[3])
    BY <1>1, <2>1, <2>2, <2>3, Statements0009, NeatTable
  <2>7. Neat(Up0009[4])
    BY <2>4, <2>5, Statements0009, NeatTable
  <2>8. \A i \in 1..4 : i = 1 \/ i = 2 \/ i = 3 \/ i = 4
    OBVIOUS
  <2>9. \A i \in 1..4 : Neat(Up0009[i])
    BY <2>6, <2>7, <2>8
  <2>. QED BY <2>9, Statements0009, TidyRule
<1>3. Tidy(Up0010)
  <2>1. Len(Up0010) = 2 /\ Up0010[1] = Drop(OldKinds) /\ Up0010[2] = Create(NewKinds)
    BY DEF Up0010
  <2>2. \A o \in NewKinds : Mild(o) /\ o[1] # "table"
    BY MildFacts DEF NewKinds
  <2>3. Neat(Up0010[1]) /\ Neat(Up0010[2]) /\ \A i \in 1..2 : i = 1 \/ i = 2
    BY <2>1, <2>2, NeatPart
  <2>4. \A i \in 1..2 : Neat(Up0010[i])
    BY <2>3
  <2>. QED BY <2>1, <2>4, TidyRule
<1>4. Tidy(Up0011)
  <2>1. \A o \in Up0011[1].objects : Mild(o)
    BY <1>1, MildFacts DEF Up0011, Create
  <2>2. ByNotice("notice_required_documents") \in Up0011[1].objects
    BY DEF Up0011, Create
  <2>3. Neat(Up0011[1]) /\ \A i \in 1..1 : i = 1
    BY <2>1, <2>2, Statements0011, NeatTable
  <2>. QED BY <2>3, Statements0011, TidyRule
<1>. QED BY <1>2, <1>3, <1>4

\* 0003: the ontology outlives a notice, its assertions and its tasks do not.
LEMMA OntologyTidy == Tidy(Up0003)
<1>1. /\ "ontology_concepts" \in Shared /\ "ontology_aliases" \in Shared
      /\ "ontology_rules" \in Shared /\ "knowledge_evidence" \in Shared
      /\ "ontology_relations" \in Shared /\ "role_bindings" \in Shared
      /\ "notice_assertions" \notin Shared /\ "notice_work_tasks" \notin Shared
  BY DEF Shared
<1>2. \A o \in ConceptTables[1].objects : Mild(o)
  BY MildFacts DEF ConceptTables, Create
<1>3. \A o \in ConceptTables[2].objects : Mild(o)
  BY <1>1, MildFacts DEF ConceptTables, Create
<1>4. \A o \in RuleTables[1].objects : Mild(o)
  BY MildFacts DEF RuleTables, Create
<1>5. \A o \in RuleTables[2].objects : Mild(o)
  BY MildFacts DEF RuleTables, Create
<1>6. \A o \in RuleTables[3].objects : Mild(o)
  <2>. DEFINE R == {Ref("ontology_relations", "subject_concept_id", "ontology_concepts", "CASCADE"),
                    Ref("ontology_relations", "object_concept_id", "ontology_concepts", "CASCADE")}
              S == {Ref("ontology_relations", "evidence_id", "knowledge_evidence", "SET NULL")}
              V == {Domain("ontology_relations", "predicate",
                     {"requires_document", "triggers_task", "assigned_role", "depends_on",
                      "satisfies", "conflicts_with"}),
                    Domain("ontology_relations", "status", {"active", "deprecated"})}
  <2>1. \A o \in R : Mild(o)
    BY <1>1, MildFacts
  <2>2. \A o \in S : Mild(o)
    BY NullFacts, Zenon
  <2>3. \A o \in V : Mild(o)
    BY MildFacts
  <2>4. RuleTables[3].objects \subseteq {Table("ontology_relations")} \cup R \cup S \cup V
                      \cup Indexes("ontology_relations", {"subject", "object"})
    BY DEF RuleTables, Create
  <2>. HIDE DEF R, S, V
  <2>. QED BY <2>1, <2>2, <2>3, <2>4, MildFacts
<1>7. \A o \in TaskTables[1].objects : Mild(o)
  <2>. DEFINE R == {ByNotice("notice_assertions"),
                    Ref("notice_assertions", "concept_id", "ontology_concepts", "CASCADE")}
              S == {Ref("notice_assertions", "evidence_id", "knowledge_evidence", "SET NULL")}
              V == {Domain("notice_assertions", "status", {"candidate", "approved", "rejected"})}
  <2>1. \A o \in R : Mild(o)
    BY <1>1, MildFacts
  <2>2. \A o \in S : Mild(o)
    BY NullFacts, Zenon
  <2>3. \A o \in V : Mild(o)
    BY MildFacts
  <2>4. TaskTables[1].objects \subseteq {Table("notice_assertions")} \cup R \cup S \cup V
                      \cup Indexes("notice_assertions", {"notice", "concept", "status"})
    BY DEF TaskTables, Create
  <2>. HIDE DEF R, S, V
  <2>. QED BY <2>1, <2>2, <2>3, <2>4, MildFacts
<1>8. \A o \in TaskTables[2].objects : Mild(o)
  BY <1>1, MildFacts DEF TaskTables, Create
<1>9. \A o \in TaskTables[3].objects : Mild(o)
  BY <1>1, MildFacts DEF TaskTables, Create
<1>10. /\ ByNotice("notice_assertions") \in TaskTables[1].objects
       /\ ByNotice("notice_work_tasks") \in TaskTables[2].objects
  BY DEF TaskTables, Create
<1>11. Neat(Up0003[1]) /\ Neat(Up0003[2])
  <2>1. Neat(ConceptTables[1])
    BY <1>1, <1>2, OntologyBelongs, NeatTable
  <2>2. Neat(ConceptTables[2])
    BY <1>1, <1>3, OntologyBelongs, NeatTable
  <2>. QED BY <2>1, <2>2, Up0003Facts
<1>12. Neat(Up0003[3]) /\ Neat(Up0003[4]) /\ Neat(Up0003[5])
  <2>1. Neat(RuleTables[1])
    BY <1>1, <1>4, OntologyBelongs, NeatTable
  <2>2. Neat(RuleTables[2])
    BY <1>1, <1>5, OntologyBelongs, NeatTable
  <2>3. Neat(RuleTables[3])
    BY <1>1, <1>6, OntologyBelongs, NeatTable
  <2>. QED BY <2>1, <2>2, <2>3, Up0003Facts
<1>13. Neat(Up0003[6]) /\ Neat(Up0003[7]) /\ Neat(Up0003[8])
  <2>1. Neat(TaskTables[1])
    BY <1>7, <1>10, OntologyBelongs, NeatTable
  <2>2. Neat(TaskTables[2])
    BY <1>8, <1>10, OntologyBelongs, NeatTable
  <2>3. Neat(TaskTables[3])
    BY <1>1, <1>9, OntologyBelongs, NeatTable
  <2>. QED BY <2>1, <2>2, <2>3, Up0003Facts
<1>14. Neat(Up0003[9]) /\ Neat(Up0003[10])
  <2>1. \A o \in UpdatedAtTriggers : Mild(o) /\ o[1] # "table"
    BY MildFacts DEF UpdatedAtTriggers
  <2>2. Neat(DropIfExists(UpdatedAtTriggers)) /\ Neat(Create(UpdatedAtTriggers))
    BY <2>1, NeatPart
  <2>. QED BY <2>2, Up0003Facts
<1>15. \A i \in 1..10 : \/ i = 1 \/ i = 2 \/ i = 3 \/ i = 4 \/ i = 5
                        \/ i = 6 \/ i = 7 \/ i = 8 \/ i = 9 \/ i = 10
  OBVIOUS
<1>16. \A i \in 1..10 : Neat(Up0003[i])
  BY <1>11, <1>12, <1>13, <1>14, <1>15
<1>. QED BY <1>16, Up0003Facts, TidyRule

\* 0012: the library outlives a notice; its requirements and sections go with
\* it, and the evidence with the requirements.
LEMMA ProposalsTidy == Tidy(Up0012)
<1>1. /\ "proposal_documents" \in Shared /\ "document_chunks" \in Shared
      /\ "project_performances" \in Shared
      /\ "notice_requirements" \notin Shared /\ "requirement_evidences" \notin Shared
      /\ "proposal_sections" \notin Shared
  BY DEF Shared
<1>. DEFINE Owner == Ref("requirement_evidences", "requirement_id", "notice_requirements", "CASCADE")
            E == EvidenceTables[1].objects
<1>2. \A o \in LibraryTables[1].objects : Mild(o)
  BY MildFacts DEF LibraryTables, Create
<1>3. \A o \in LibraryTables[2].objects : Mild(o)
  BY <1>1, MildFacts DEF LibraryTables, Create
<1>4. \A o \in LibraryTables[3].objects : Mild(o)
  <2>. DEFINE S == {Ref("project_performances", "evidence_document_id", "proposal_documents",
                        "SET NULL")}
  <2>1. \A o \in S : Mild(o)
    BY NullFacts, Zenon
  <2>2. LibraryTables[3].objects \subseteq {Table("project_performances")} \cup S
                      \cup Indexes("project_performances", {"verified", "customer"})
    BY DEF LibraryTables, Create
  <2>. HIDE DEF S
  <2>. QED BY <2>1, <2>2, MildFacts
<1>5. \A o \in RequirementTable[1].objects : Mild(o)
  BY <1>1, MildFacts DEF RequirementTable, Create
<1>6. \A o \in E : Mild(o)
  <2>. DEFINE S == {Ref("requirement_evidences", "document_id", "proposal_documents", "SET NULL"),
                    Ref("requirement_evidences", "chunk_id", "document_chunks", "SET NULL"),
                    Ref("requirement_evidences", "performance_id", "project_performances",
                        "SET NULL")}
  <2>1. \A o \in S : Mild(o)
    BY NullFacts, Zenon
  <2>2. Mild(Owner)
    BY <1>1, MildFacts
  <2>3. E \subseteq {Table("requirement_evidences"), Owner} \cup S
                      \cup Indexes("requirement_evidences", {"requirement", "document"})
    BY DEF EvidenceTables, Create
  <2>. HIDE DEF S, Owner, E
  <2>. QED BY <2>1, <2>2, <2>3, MildFacts
<1>7. \A o \in EvidenceTables[2].objects : Mild(o)
  BY <1>1, MildFacts DEF EvidenceTables, Create
<1>8. Owner \in E
  BY DEF EvidenceTables, Create
<1>9. /\ ByNotice("notice_requirements") \in RequirementTable[1].objects
      /\ ByNotice("proposal_sections") \in EvidenceTables[2].objects
  BY DEF RequirementTable, EvidenceTables, Create
<1>10. Neat(Up0012[1]) /\ Neat(Up0012[2]) /\ Neat(Up0012[3])
  <2>1. Neat(LibraryTables[1])
    BY <1>1, <1>2, LibraryBelongs, NeatTable
  <2>2. Neat(LibraryTables[2])
    BY <1>1, <1>3, LibraryBelongs, NeatTable
  <2>3. Neat(LibraryTables[3])
    BY <1>1, <1>4, LibraryBelongs, NeatTable
  <2>. QED BY <2>1, <2>2, <2>3, Up0012Facts
<1>11. Neat(Up0012[4]) /\ Neat(Up0012[6])
  <2>1. Neat(RequirementTable[1])
    BY <1>5, <1>9, LibraryBelongs, NeatTable
  <2>2. Neat(EvidenceTables[2])
    BY <1>7, <1>9, LibraryBelongs, NeatTable
  <2>. QED BY <2>1, <2>2, Up0012Facts
<1>12. /\ \A o \in E : o[2] = "requirement_evidences"
       /\ Up0012[5].objects = E /\ Up0012[5].sql = "create"
       /\ Up0012[4].sql = "create" /\ Up0012[4].objects = RequirementTable[1].objects
  BY LibraryBelongs, Up0012Facts DEF Creates
<1>13. E \subseteq Built(Up0012) /\ ByNotice("notice_requirements") \in Built(Up0012)
  <2>1. Len(Up0012) = 6 /\ 4 \in 1..6 /\ 5 \in 1..6
    BY Up0012Facts
  <2>. HIDE DEF E
  <2>2. E \subseteq Built(Up0012)
    BY <1>12, <2>1 DEF Built
  <2>3. ByNotice("notice_requirements") \in Built(Up0012)
    BY <1>9, <1>12, <2>1 DEF Built
  <2>. QED BY <2>2, <2>3
<1>14. Tied("requirement_evidences", Built(Up0012))
  BY <1>8, <1>13 DEF Tied
<1>15. \A i \in 1..6 : i = 1 \/ i = 2 \/ i = 3 \/ i = 4 \/ i = 5 \/ i = 6
  OBVIOUS
<1>16. \A o \in Built(Up0012) : Mild(o) /\ (o[1] = "table" => Tied(o[2], Built(Up0012)))
  <2>. SUFFICES ASSUME NEW i \in 1..6, Up0012[i].sql \in {"create", "create if missing"},
                       NEW o \in Up0012[i].objects
                PROVE  Mild(o) /\ (o[1] = "table" => Tied(o[2], Built(Up0012)))
    BY Up0012Facts DEF Built
  <2>. HIDE DEF E, Owner
  <2>1. CASE i = 5
    BY <1>6, <1>12, <1>14, <2>1
  <2>2. CASE i # 5
    <3>1. Neat(Up0012[i])
      <4>1. i = 1 \/ i = 2 \/ i = 3 \/ i = 4 \/ i = 6
        BY <1>15, <2>2
      <4>. QED BY <1>10, <1>11, <4>1
    <3>2. Mild(o) /\ (o[1] = "table" => Tied(o[2], Up0012[i].objects))
      BY <3>1 DEF Neat
    <3>3. Up0012[i].objects \subseteq Built(Up0012)
      BY Up0012Facts DEF Built
    <3>. QED BY <3>2, <3>3 DEF Tied
  <2>. QED BY <2>1, <2>2
<1>17. \A i \in 1..6 : Up0012[i].sql = "backfill" => Up0012[i].objects = {}
  BY <1>15, <1>10, <1>11, <1>12 DEF Neat
<1>. QED BY <1>16, <1>17, Up0012Facts DEF Tidy

\* No upgrade leaves a table of the notice behind.
LEMMA UpTidy == \A k \in 1..HeadRev : Tidy(Up[k])
<1>1. \A k \in 1..HeadRev : \/ k = 1 \/ k = 2 \/ k = 3 \/ k = 4 \/ k = 5 \/ k = 6 \/ k = 7
                            \/ k = 8 \/ k = 9 \/ k = 10 \/ k = 11 \/ k = 12 \/ k = 13
  BY Revisions
<1>. QED BY <1>1, UpNames, NoticesTidy, OntologyTidy, WorkTidy, HwpTidy, ProposalsTidy

-----------------------------------------------------------------------------
(* What a cleanup takes. *)

\* In a schema of the chain no table of the notice is on its own: Tied and
\* Mild are kept by every later upgrade.
LEMMA ChainTidy ==
  ASSUME NEW n \in 0..HeadRev, Done(n)
  PROVE  \A o \in SchemaAt[n] : Mild(o) /\ (o[1] = "table" => Tied(o[2], SchemaAt[n]))
<1>. SUFFICES ASSUME NEW o \in SchemaAt[n]
              PROVE  Mild(o) /\ (o[1] = "table" => Tied(o[2], SchemaAt[n]))
  OBVIOUS
<1>1. PICK k \in 1..n : o \in Built(Up[k])
  BY MadeByOne
<1>2. k \in 1..HeadRev
  BY Revisions
<1>3. Mild(o) /\ (o[1] = "table" => Tied(o[2], Built(Up[k])))
  BY <1>1, <1>2, UpTidy DEF Tidy
<1>4. ASSUME NEW p \in Built(Up[k]), p[1] = "ref" PROVE p \in SchemaAt[n]
  <2>1. k # 10
    <3>. SUFFICES ASSUME k = 10 PROVE FALSE
      OBVIOUS
    <3>1. Built(Up0010) \subseteq NewKinds
      <4>1. Len(Up0010) = 2 /\ Up0010[1] = Drop(OldKinds) /\ Up0010[2] = Create(NewKinds)
        BY DEF Up0010
      <4>2. Up0010[1].sql = "drop" /\ Up0010[2].objects = NewKinds
        BY <4>1 DEF Create, Drop
      <4>3. \A i \in 1..2 : i = 1 \/ i = 2
        OBVIOUS
      <4>. QED BY <4>1, <4>2, <4>3 DEF Built
    <3>2. \A q \in NewKinds : q[1] = "domain"
      BY MildFacts DEF NewKinds
    <3>. QED BY <1>4, <3>1, <3>2, UpNames
  <2>2. p \in SchemaAt[k]
    BY <1>4, <2>1, ChainGrows
  <2>3. p \notin OldKinds
    BY <1>4, OldKindFacts
  <2>. QED BY <2>2, <2>3, Stays
<1>5. \A t, c, p, r : Ref(t, c, p, r)[1] = "ref"
  BY DEF Ref
<1>6. \A t : ByNotice(t)[1] = "ref"
  BY <1>5 DEF ByNotice
<1>7. ASSUME Tied(o[2], Built(Up[k])) PROVE Tied(o[2], SchemaAt[n])
  BY <1>4, <1>5, <1>6, <1>7 DEF Tied
<1>. QED BY <1>3, <1>7

\* One step further down the cascades.
Cascaded(tables) == tables \cup {o[2] : o \in {p \in Of("ref", db.schema) :
                                                 p[5] = "CASCADE" /\ p[4] \in tables}}

\* A cleanup goes two cascades deep.
LEMMA SweptFacts == Swept[2] = Cascaded(Cascaded(Named))
<1>. DEFINE Step(f) == [n \in 0..2 |-> IF n = 0 THEN Named ELSE Cascaded(f[n - 1])]
            g == [n \in 0..2 |-> IF n = 0 THEN Named
                                 ELSE IF n = 1 THEN Cascaded(Named) ELSE Cascaded(Cascaded(Named))]
<1>1. g = Step(g)
  <2>1. \A n \in 0..2 : n = 0 \/ n = 1 \/ n = 2
    OBVIOUS
  <2>2. g[0] = Named /\ g[1] = Cascaded(Named) /\ g[2] = Cascaded(Cascaded(Named))
    OBVIOUS
  <2>3. \A n \in 0..2 : g[n] = Step(g)[n]
    <3>1. Step(g)[0] = Named /\ Step(g)[1] = Cascaded(g[0]) /\ Step(g)[2] = Cascaded(g[1])
      <4>. HIDE DEF g
      <4>. QED OBVIOUS
    <3>. HIDE DEF g, Step
    <3>. QED BY <2>1, <2>2, <3>1
  <2>. QED BY <2>3
<1>2. Swept = CHOOSE f : f = Step(f)
  BY DEF Swept, Cascaded
<1>3. Swept = Step(Swept)
  <2>. HIDE DEF Step, g
  <2>. QED BY <1>1, <1>2
<1>4. Swept[2] = Step(Swept)[2] /\ Swept[1] = Step(Swept)[1] /\ Swept[0] = Step(Swept)[0]
  <2>. HIDE DEF Step
  <2>. QED BY <1>3
<1>5. Swept[2] = Cascaded(Swept[1]) /\ Swept[1] = Cascaded(Swept[0]) /\ Swept[0] = Named
  BY <1>4
<1>. QED BY <1>5

\* It takes every table but those that outlive notices, and none of those.
LEMMA SweptAll ==
  ASSUME \A o \in db.schema : Mild(o) /\ (o[1] = "table" => Tied(o[2], db.schema))
  PROVE  /\ \A t \in Swept[2] : t \notin Shared
         /\ \A t : Table(t) \in db.schema /\ t \notin Shared => t \in Swept[2]
<1>1. \A t \in Named : t \notin Shared
  BY DEF Named, Shared
<1>2. ASSUME NEW T, \A t \in T : t \notin Shared PROVE \A t \in Cascaded(T) : t \notin Shared
  BY <1>2 DEF Cascaded, Of, Mild
<1>3. \A t \in Swept[2] : t \notin Shared
  BY <1>1, <1>2, SweptFacts
<1>4. \A T : T \subseteq Cascaded(T)
  BY DEF Cascaded
<1>5. ASSUME NEW T, NEW t, NEW c, NEW p, p \in T, Ref(t, c, p, "CASCADE") \in db.schema
      PROVE  t \in Cascaded(T)
  <2>. DEFINE o == Ref(t, c, p, "CASCADE")
  <2>1. o[1] = "ref" /\ o[2] = t /\ o[4] = p /\ o[5] = "CASCADE"
    BY DEF Ref
  <2>. HIDE DEF o
  <2>. QED BY <1>5, <2>1 DEF Cascaded, Of, o
<1>6. "bid_pipeline" \in Named
  BY DEF Named
<1>7. \A t : ByNotice(t) \in db.schema => t \in Cascaded(Named)
  BY <1>5, <1>6 DEF ByNotice
<1>8. ASSUME NEW t, Table(t) \in db.schema, t \notin Shared PROVE t \in Swept[2]
  <2>1. Tied(t, db.schema)
    BY <1>8, ObjectFacts
  <2>2. t \in Cascaded(Cascaded(Named))
    BY <1>4, <1>5, <1>7, <1>8, <2>1 DEF Tied
  <2>. QED BY <2>2, SweptFacts
<1>. QED BY <1>3, <1>8

\* Every row is in a table of the schema.
Housed(rows, schema) == \A r \in rows : Table(r[1]) \in schema

\* No downgrade fills in rows.
LEMMA DownFillsNothing ==
  \A k \in 1..HeadRev : \A i \in 1..Len(Down[k]) : Down[k][i].sql # "backfill"
<1>. DEFINE Fills(d) == \E i \in 1..Len(d) : d[i].sql = "backfill"
<1>1. \A st : st.sql \in {"drop", "drop if exists"} => st.sql # "backfill"
  OBVIOUS
<1>2. ~ Fills(Down0001) /\ ~ Fills(Down0002) /\ ~ Fills(Down0003)
  <2>1. Undoes(Down0001, Up0001)
    BY Revision0001
  <2>2. ASSUME NEW i \in 1..Len(Down0002) PROVE Down0002[i].sql # "backfill"
    <3>1. Len(Down0002) = 1 /\ Down0002[1] = DropIfExists(SearchIndexes)
      BY DEF Down0002
    <3>2. \A j \in 1..1 : j = 1
      OBVIOUS
    <3>. QED BY <3>1, <3>2, IfExistsReads, Zenon
  <2>3. ASSUME NEW i \in 1..Len(Down0003) PROVE Down0003[i].sql # "backfill"
    <3>. DEFINE X == UpdatedAtTriggers
    <3>1. Down0003 = <<DropIfExists(X), Down0003[2], Down0003[3], Down0003[4], Down0003[5],
                       Down0003[6], Down0003[7], Down0003[8], Down0003[9]>>
      BY DEF Down0003
    <3>2. /\ Down0003[2] = DropTable("role_bindings") /\ Down0003[3] = DropTable("notice_work_tasks")
          /\ Down0003[4] = DropTable("notice_assertions")
          /\ Down0003[5] = DropTable("ontology_relations")
          /\ Down0003[6] = DropTable("knowledge_evidence")
          /\ Down0003[7] = DropTable("ontology_rules")
          /\ Down0003[8] = DropTable("ontology_aliases")
          /\ Down0003[9] = DropTable("ontology_concepts")
      BY DEF Down0003
    <3>3. Len(Down0003) = 9 /\ Down0003[1] = DropIfExists(X)
      <4>. HIDE DEF X
      <4>. QED BY <3>1
    <3>4. i = 1 \/ \E t : Down0003[i] = DropTable(t)
      <4>1. \A j \in 1..9 : j = 1 \/ j = 2 \/ j = 3 \/ j = 4 \/ j = 5 \/ j = 6 \/ j = 7
                             \/ j = 8 \/ j = 9
        OBVIOUS
      <4>. QED BY <3>2, <3>3, <4>1
    <3>. HIDE DEF X
    <3>5. CASE i = 1
      <4>1. Down0003[i].sql = "drop if exists"
        BY <3>3, <3>5, IfExistsReads, Zenon
      <4>. QED BY <4>1
    <3>6. ASSUME NEW t, Down0003[i] = DropTable(t) PROVE Down0003[i].sql # "backfill"
      <4>1. Down0003[i].sql = "drop"
        BY <3>6, DropTableReads, Zenon
      <4>. QED BY <4>1
    <3>. QED BY <3>4, <3>5, <3>6
  <2>. QED BY <1>1, <2>1, <2>2, <2>3 DEF Undoes
<1>3. ~ Fills(Down0004)
  BY DEF Down0004
<1>. USE DEF Drop, DropTable, DropIfExists, Create
<1>4. ~ Fills(Down0005) /\ ~ Fills(Down0006) /\ ~ Fills(Down0007) /\ ~ Fills(Down0008)
  BY DEF Down0005, Down0006, Down0007, Down0008
<1>5. ~ Fills(Down0009) /\ ~ Fills(Down0010) /\ ~ Fills(Down0010b) /\ ~ Fills(Down0011)
  BY DEF Down0009, Down0010, Down0010b, Down0011
<1>6. ~ Fills(Down0012)
  BY DEF Down0012
<1>7. \A k \in 1..HeadRev : \/ k = 1 \/ k = 2 \/ k = 3 \/ k = 4 \/ k = 5 \/ k = 6 \/ k = 7
                            \/ k = 8 \/ k = 9 \/ k = 10 \/ k = 11 \/ k = 12 \/ k = 13
  BY Revisions
<1>8. \A k \in 1..HeadRev : ~ Fills(Down[k])
  <2>. HIDE DEF Fills
  <2>. QED BY <1>2, <1>3, <1>4, <1>5, <1>6, <1>7, DownNames
<1>. QED BY <1>8

\* A row goes with its table, and only then.
LEMMA ScriptHouses ==
  ASSUME NEW u, NEW s, NEW rows, Len(u) \in Nat, Housed(rows, s),
         \A i \in 1..Len(u) : u[i].sql = "backfill" => u[i].objects = {}
  PROVE  Housed(Ran(u, s, rows).rows, Ran(u, s, rows).schema)
<1>. DEFINE n == Len(u)
            Good(x) == IsResult(x) /\ Housed(x.rows, x.schema)
<1>1. PICK run : IsRun(run, u, s, rows) /\ Ran(u, s, rows) = run[n]
  BY RanFacts
<1>. DEFINE G == {k \in 0..n : Good(run[k])}
<1>2. 0 \in G /\ n \in Nat /\ n \in 0..n
  <2>1. run[0] = [ok |-> TRUE, schema |-> s, rows |-> rows]
    BY <1>1 DEF IsRun
  <2>2. IsResult(run[0]) /\ run[0].schema = s /\ run[0].rows = rows
    BY <2>1 DEF IsResult
  <2>3. Good(run[0])
    BY <2>2
  <2>. HIDE DEF Good
  <2>. QED BY <2>3
<1>3. ASSUME NEW st, st.sql = "backfill" => st.objects = {}, NEW x, Good(x)
      PROVE  Good(Executed(st, x))
  <2>1. IsResult(Executed(st, x))
    BY <1>3, ExecutedFacts
  <2>2. CASE ~ Executed(st, x).ok
    <3>1. ~ (x.ok /\ Legal(st, x.schema, x.rows))
      BY <1>3, <2>2, ExecutedFacts
    <3>2. Executed(st, x) = [x EXCEPT !.ok = FALSE]
      BY <3>1 DEF Executed
    <3>3. Executed(st, x).rows = x.rows /\ Executed(st, x).schema = x.schema
      BY <1>3, <3>2 DEF IsResult
    <3>. QED BY <1>3, <2>1, <3>3
  <2>3. CASE Executed(st, x).ok
    <3>1. /\ Executed(st, x).schema = After(st, x.schema)
          /\ Executed(st, x).rows = RowsAfter(st, x.schema, x.rows)
      BY <1>3, <2>3, ExecutedFacts
    <3>2. Housed(RowsAfter(st, x.schema, x.rows), After(st, x.schema))
      <4>1. CASE st.sql = "backfill"
        <5>1. Of("table", st.objects) = {}
          BY <1>3, <4>1 DEF Of
        <5>2. After(st, x.schema) = x.schema
          BY <1>3, <4>1, <5>1 DEF After
        <5>3. \A r : Backfilled(r)[1] = r[1]
          BY DEF Backfilled
        <5>. QED BY <1>3, <4>1, <5>2, <5>3 DEF RowsAfter, Housed
      <4>2. CASE st.sql # "backfill"
        BY <4>2 DEF RowsAfter, Housed
      <4>. QED BY <4>1, <4>2
    <3>. QED BY <2>1, <3>1, <3>2
  <2>. QED BY <2>2, <2>3
<1>4. ASSUME NEW k \in 0..n, k # n, k \in G PROVE k + 1 \in G
  <2>1. k + 1 \in 1..n /\ (k + 1) - 1 = k /\ k + 1 \in 0..n
    BY <1>4
  <2>2. run[k + 1] = Executed(u[k + 1], run[k])
    BY <1>1, <2>1 DEF IsRun
  <2>3. Good(run[k])
    BY <1>4
  <2>4. u[k + 1].sql = "backfill" => u[k + 1].objects = {}
    BY <2>1
  <2>. HIDE DEF Good
  <2>5. Good(run[k + 1])
    BY <1>3, <2>2, <2>3, <2>4
  <2>. QED BY <2>1, <2>5
<1>5. n \in G
  <2>. HIDE DEF n, G
  <2>1. \A i \in 0..n : i \in G
    BY <1>2, <1>4, Induct
  <2>. QED BY <1>2, <2>1
<1>. QED BY <1>1, <1>5

-----------------------------------------------------------------------------
(* The invariant. *)

Tx(rev, schema, rows, target, booting) ==
  [rev |-> rev, schema |-> schema, rows |-> rows, target |-> target, booting |-> booting]

IsTx(t) == t = Tx(t.rev, t.schema, t.rows, t.target, t.booting)

\* A migration after a revision.
Moved(t, rev, schema, rows) == [t EXCEPT !.schema = schema, !.rows = rows, !.rev = rev]

\* A revision, with a schema that its upgrades have built.
Reached(rev, schema) == rev \in 0..HeadRev /\ schema = SchemaAt[rev] /\ Done(rev)

\* What is committed and what the running migration has made so far each are
\* what a revision's upgrades build; for a downgrade it also matters that
\* those upgrades are known to fit one another.
IInv ==
  /\ db = [rev |-> db.rev, schema |-> db.schema, rows |-> db.rows]
  /\ Reached(db.rev, db.schema)
  /\ tx # <<>> => /\ IsTx(tx[1]) /\ tx[1].target \in 0..HeadRev
                  /\ Reached(tx[1].rev, tx[1].schema)

\* One revision leads from a reached schema to a reached one.
LEMMA RevisionReaches ==
  ASSUME NEW t, Reached(t.rev, t.schema), t.target \in 0..HeadRev, t.rev # t.target,
         Ran(Script(t), t.schema, t.rows).ok
  PROVE  Reached(IF Upwards(t) THEN t.rev + 1 ELSE t.rev - 1,
                 Ran(Script(t), t.schema, t.rows).schema)
<1>1. CASE Upwards(t)
  <2>. DEFINE k == t.rev + 1
  <2>1. k \in 1..HeadRev /\ k - 1 = t.rev /\ k \in 0..HeadRev /\ t.rev \in Nat
    BY <1>1, Revisions DEF Reached, Upwards
  <2>2. Script(t) = Up[k] /\ Len(Up[k]) \in Nat
    BY <1>1, <2>1, Lengths DEF Script
  <2>3. /\ Ran(Up[k], t.schema, {}).ok
        /\ Ran(Up[k], t.schema, {}).schema = Ran(Up[k], t.schema, t.rows).schema
    BY <2>2, RowsOnlyRefuse
  <2>4. t.schema = SchemaAt[k - 1] /\ Done(t.rev)
    BY <2>1 DEF Reached
  <2>5. SchemaAt[k] = Ran(Up[k], SchemaAt[k - 1], {}).schema
    BY <2>1, SchemaAtFacts
  <2>6. Done(k)
    <3>1. \A i \in 1..k : i = k \/ i \in 1..t.rev
      BY <2>1
    <3>. QED BY <2>3, <2>4, <3>1 DEF Done
  <2>. HIDE DEF k
  <2>7. Reached(k, Ran(Script(t), t.schema, t.rows).schema)
    BY <2>1, <2>2, <2>3, <2>4, <2>5, <2>6 DEF Reached
  <2>. QED BY <1>1, <2>7 DEF k
<1>2. CASE ~ Upwards(t)
  <2>. DEFINE n == t.rev
  <2>1. n \in 1..HeadRev /\ n - 1 \in 0..HeadRev /\ n \in 0..HeadRev /\ n \in 1..n
    BY <1>2, Revisions DEF Reached, Upwards
  <2>2. Script(t) = Down[n] /\ t.schema = SchemaAt[n] /\ Done(n)
    BY <1>2 DEF Script, Reached
  <2>3. Reverts(Up[n], Down[n], SchemaAt[n - 1])
    BY <2>1, <2>2, ChainReverts
  <2>4. SchemaAt[n] = Ran(Up[n], SchemaAt[n - 1], {}).schema
    BY <2>1, SchemaAtFacts
  <2>5. Ran(Script(t), t.schema, t.rows).schema = SchemaAt[n - 1]
    BY <2>2, <2>3, <2>4 DEF Reverts
  <2>6. Done(n - 1)
    <3>1. \A i \in 1..(n - 1) : i \in 1..n
      BY <2>1, Revisions
    <3>. QED BY <2>2, <3>1 DEF Done
  <2>. QED BY <1>2, <2>1, <2>5, <2>6 DEF Reached
<1>. QED BY <1>1, <1>2

\* A revision leaves the rest of the migration alone.
LEMMA MovedFacts ==
  ASSUME NEW t, IsTx(t), NEW rev, NEW schema, NEW rows
  PROVE  Moved(t, rev, schema, rows) = Tx(rev, schema, rows, t.target, t.booting)
<1>1. ASSUME NEW a, NEW b, NEW c, NEW d, NEW e, NEW x, NEW y, NEW z
      PROVE  Moved(Tx(a, b, c, d, e), z, x, y) = Tx(z, x, y, d, e)
  <2>1. [Tx(a, b, c, d, e) EXCEPT !.schema = x] = Tx(a, x, c, d, e)
    BY DEF Tx
  <2>2. [Tx(a, x, c, d, e) EXCEPT !.rows = y] = Tx(a, x, y, d, e)
    BY DEF Tx
  <2>3. [Tx(a, x, y, d, e) EXCEPT !.rev = z] = Tx(z, x, y, d, e)
    BY DEF Tx
  <2>. QED BY <2>1, <2>2, <2>3, Zenon DEF Moved
<1>2. PICK a, b, c, d, e : t = Tx(a, b, c, d, e) /\ d = t.target /\ e = t.booting
  BY DEF IsTx
<1>3. Moved(Tx(a, b, c, d, e), rev, schema, rows) = Tx(rev, schema, rows, d, e)
  BY <1>1
<1>. QED BY <1>2, <1>3

\* The empty database is at revision 0.
LEMMA InitIInv == Init => IInv
<1>. SUFFICES ASSUME Init PROVE IInv
  OBVIOUS
<1>1. Done(0)
  BY DEF Done
<1>2. 0 \in 0..HeadRev
  BY Revisions
<1>. QED BY <1>1, <1>2, SchemaAtFacts DEF Init, IInv, Reached

\* Every step keeps the invariant.
LEMMA NextIInv == IInv /\ [Next]_vars => IInv'
<1>. SUFFICES ASSUME IInv, [Next]_vars PROVE IInv'
  OBVIOUS
<1>1. ASSUME NEW target \in 0..HeadRev, NEW booting, Start(target, booting), UNCHANGED db
      PROVE  IInv'
  BY <1>1 DEF IInv, IsTx, Tx, Start
<1>2. CASE Boot
  <2>1. HeadRev \in 0..HeadRev
    BY Revisions
  <2>. QED BY <1>1, <1>2, <2>1 DEF Boot
<1>3. ASSUME NEW target \in Targets, Downgrade(target) PROVE IInv'
  BY <1>1, <1>3, MigrationsAssumption DEF Downgrade
<1>4. CASE Revision
  <2>. DEFINE t == tx[1]
              run == Ran(Script(t), t.schema, t.rows)
              next == IF Upwards(t) THEN t.rev + 1 ELSE t.rev - 1
  <2>1. IsTx(t) /\ t.target \in 0..HeadRev /\ Reached(t.rev, t.schema) /\ t.rev # t.target /\ run.ok
    BY <1>4 DEF IInv, Revision, Running
  <2>2. Reached(next, run.schema)
    <3>. HIDE DEF t
    <3>. QED BY <2>1, RevisionReaches
  <2>3. tx' = <<Moved(t, next, run.schema, run.rows)>>
    BY <1>4 DEF Revision, Moved
  <2>. HIDE DEF t, run, next
  <2>4. tx' = <<Tx(next, run.schema, run.rows, t.target, t.booting)>>
    BY <2>1, <2>3, MovedFacts
  <2>5. db' = db
    BY <1>4 DEF Revision
  <2>. QED BY <2>1, <2>2, <2>4, <2>5 DEF IInv, IsTx, Tx
<1>5. CASE RevisionFails
  BY <1>5 DEF RevisionFails, RolledBack, IInv
<1>6. CASE Commit
  BY <1>6 DEF Commit, IInv
<1>7. CASE Crash
  BY <1>7 DEF Crash, RolledBack, IInv
<1>8. ASSUME NEW rows, db' = [db EXCEPT !.rows = rows], UNCHANGED tx PROVE IInv'
  BY <1>8 DEF IInv
<1>9. ASSUME NEW r \in Rows, Store(r) PROVE IInv'
  BY <1>8, <1>9 DEF Store
<1>10. CASE E2ECleanup
  BY <1>8, <1>10 DEF E2ECleanup
<1>11. CASE UNCHANGED vars
  BY <1>11 DEF vars, IInv
<1>. QED
  BY <1>2, <1>3, <1>4, <1>5, <1>6, <1>7, <1>9, <1>10, <1>11 DEF Next, Migrate

\* Whatever was upgraded, downgraded, refused or cut short by a crash, the
\* committed schema is the one that alembic_version names: every downgrade
\* undoes its upgrade to the last column, from whatever rows, and a failed
\* migration leaves nothing.
THEOREM SchemaIsItsRevisionThm == Spec => []SchemaIsItsRevision
<1>1. IInv => SchemaIsItsRevision
  BY DEF IInv, Reached, SchemaIsItsRevision, Chain
<1>. QED BY InitIInv, NextIInv, <1>1, PTL DEF Spec

\* At head the database has every table, added column, index, foreign key and
\* CHECK domain that the code is written against, whichever downgrades and
\* upgrades have led there.
THEOREM HeadFitsTheCodeThm == Spec => []HeadFitsTheCode
<1>1. IInv => HeadFitsTheCode
  BY CodeAtHead, Revisions DEF IInv, Reached, HeadFitsTheCode
<1>. QED BY InitIInv, NextIInv, <1>1, PTL DEF Spec

\* What is committed, and what the running migration has made so far, houses
\* every row.
Rooms == Housed(db.rows, db.schema) /\ (tx # <<>> => Housed(tx[1].rows, tx[1].schema))

\* Every step keeps it so.
LEMMA NextRooms == IInv /\ Rooms /\ [Next]_vars => Rooms'
<1>. SUFFICES ASSUME IInv, Rooms, [Next]_vars PROVE Rooms'
  OBVIOUS
<1>1. ASSUME NEW target, NEW booting, Start(target, booting), UNCHANGED db PROVE Rooms'
  BY <1>1 DEF Rooms, Start
<1>2. CASE Boot
  BY <1>1, <1>2 DEF Boot
<1>3. ASSUME NEW target \in Targets, Downgrade(target) PROVE Rooms'
  BY <1>1, <1>3 DEF Downgrade
<1>4. CASE Revision
  <2>. DEFINE t == tx[1]
              run == Ran(Script(t), t.schema, t.rows)
              next == IF Upwards(t) THEN t.rev + 1 ELSE t.rev - 1
  <2>1. /\ IsTx(t) /\ t.target \in 0..HeadRev /\ t.rev \in 0..HeadRev /\ t.rev # t.target
        /\ Housed(t.rows, t.schema)
    BY <1>4 DEF IInv, Rooms, Revision, Running, Reached
  <2>2. Housed(run.rows, run.schema)
    <3>1. CASE Upwards(t)
      <4>1. t.rev + 1 \in 1..HeadRev
        BY <2>1, <3>1, Revisions DEF Upwards
      <4>2. Script(t) = Up[t.rev + 1]
        BY <3>1 DEF Script
      <4>3. /\ Len(Script(t)) \in Nat
            /\ \A i \in 1..Len(Script(t)) : Script(t)[i].sql = "backfill" => Script(t)[i].objects = {}
        <5>. HIDE DEF t
        <5>. QED BY <4>1, <4>2, Lengths, UpTidy DEF Tidy
      <4>. HIDE DEF t
      <4>. QED BY <2>1, <4>3, ScriptHouses
    <3>2. CASE ~ Upwards(t)
      <4>1. t.rev \in 1..HeadRev
        BY <2>1, <3>2, Revisions DEF Upwards
      <4>2. Script(t) = Down[t.rev]
        BY <3>2 DEF Script
      <4>3. /\ Len(Script(t)) \in Nat
            /\ \A i \in 1..Len(Script(t)) : Script(t)[i].sql = "backfill" => Script(t)[i].objects = {}
        <5>. HIDE DEF t
        <5>. QED BY <4>1, <4>2, Lengths, DownFillsNothing
      <4>. HIDE DEF t
      <4>. QED BY <2>1, <4>3, ScriptHouses
    <3>. QED BY <3>1, <3>2
  <2>3. tx' = <<Moved(t, next, run.schema, run.rows)>> /\ db' = db
    BY <1>4 DEF Revision, Moved
  <2>. HIDE DEF t, run, next
  <2>4. tx' = <<Tx(next, run.schema, run.rows, t.target, t.booting)>>
    BY <2>1, <2>3, MovedFacts
  <2>. QED BY <2>2, <2>3, <2>4 DEF Rooms, Tx
<1>5. CASE RevisionFails
  BY <1>5 DEF RevisionFails, RolledBack, Rooms
<1>6. CASE Commit
  BY <1>6 DEF Commit, Rooms
<1>7. CASE Crash
  BY <1>7 DEF Crash, RolledBack, Rooms
<1>8. ASSUME NEW r \in Rows, Store(r) PROVE Rooms'
  <2>1. PICK o \in CodeObjects : o[1] = "table" /\ o[2] = r[1]
    BY MigrationsAssumption DEF Of
  <2>2. o \in db.schema
    BY <1>8, <2>1 DEF Store
  <2>3. o = Table(r[1])
    BY <2>1, <2>2, ChainTidy DEF IInv, Reached, Mild
  <2>4. db'.schema = db.schema /\ db'.rows = db.rows \cup {r} /\ tx' = tx
    BY <1>8 DEF Store, IInv
  <2>. QED BY <2>2, <2>3, <2>4 DEF Rooms, Housed
<1>9. CASE E2ECleanup
  <2>1. db'.schema = db.schema /\ db'.rows \subseteq db.rows /\ tx' = tx
    BY <1>9 DEF E2ECleanup, IInv
  <2>. QED BY <2>1 DEF Rooms, Housed
<1>10. CASE UNCHANGED vars
  BY <1>10 DEF vars, Rooms
<1>. QED
  BY <1>2, <1>3, <1>4, <1>5, <1>6, <1>7, <1>8, <1>9, <1>10 DEF Next, Migrate

\* At head no foreign key stands in the way of a cleanup, whatever rows there
\* are; and at any revision where it works at all, a cleanup removes every row
\* of the notice, those of the tables it does not name included, and nothing
\* else: the cascades of the thirteen scripts reach all of a notice's tables
\* within two steps and none that outlives it.
THEOREM CleanupLeavesNoTraceThm == Spec => CleanupLeavesNoTrace
<1>. DEFINE Inv == IInv /\ Rooms
<1>1. Init => Inv
  BY InitIInv DEF Init, Rooms, Housed
<1>2. Inv /\ [Next]_vars => Inv'
  BY NextIInv, NextRooms
<1>3. ASSUME IInv
      PROVE  /\ \A o \in db.schema : Mild(o) /\ (o[1] = "table" => Tied(o[2], db.schema))
             /\ \A t \in Swept[2] : t \notin Shared
             /\ \A t : Table(t) \in db.schema /\ t \notin Shared => t \in Swept[2]
  <2>1. \A o \in db.schema : Mild(o) /\ (o[1] = "table" => Tied(o[2], db.schema))
    BY <1>3, ChainTidy DEF IInv, Reached
  <2>. QED BY <2>1, SweptAll
<1>4. Inv => (db.rev = HeadRev => CleanupWorks)
  <2>. SUFFICES ASSUME IInv, db.rev = HeadRev PROVE CleanupWorks
    OBVIOUS
  <2>1. CodeObjects \subseteq db.schema
    BY CodeAtHead, Revisions DEF IInv, Reached
  <2>2. {Table(t) : t \in Named} \subseteq CodeObjects
    BY DEF Named, CodeObjects, NoticeTables, TrackingTables
  <2>3. ~ Restricted
    BY <1>3 DEF Restricted, Of, Mild
  <2>. QED BY <2>1, <2>2, <2>3 DEF CleanupWorks
<1>5. Inv /\ [Next]_vars => [E2ECleanup => db'.rows = {r \in db.rows : r[1] \in Shared}]_vars
  <2>. SUFFICES ASSUME IInv, Rooms, E2ECleanup
                PROVE  db'.rows = {r \in db.rows : r[1] \in Shared}
    OBVIOUS
  <2>1. db'.rows = {r \in db.rows : r[1] \notin Swept[2]}
    BY DEF E2ECleanup, IInv
  <2>2. \A r \in db.rows : r[1] \notin Swept[2] <=> r[1] \in Shared
    BY <1>3 DEF Rooms, Housed
  <2>. QED BY <2>1, <2>2
<1>. HIDE DEF Inv
<1>6. Spec => [](db.rev = HeadRev => CleanupWorks)
  BY <1>1, <1>2, <1>4, PTL DEF Spec
<1>7. Spec => [][E2ECleanup => db'.rows = {r \in db.rows : r[1] \in Shared}]_vars
  BY <1>1, <1>2, <1>5, PTL DEF Spec
<1>. QED BY <1>6, <1>7, PTL DEF CleanupLeavesNoTrace

-----------------------------------------------------------------------------
(* Which scripts can be refused: when a script runs to its end. *)

\* A constraint that fewer rows meet too.
LEMMA FewerRows ==
  ASSUME NEW st, NEW schema, NEW rows, NEW R \in SUBSET rows, Legal(st, schema, rows)
  PROVE  Legal(st, schema, R)
BY DEF Legal

\* A script whose statements are legal one after the other, from the schemas m
\* that they make, runs to its end.
LEMMA RunsWell ==
  ASSUME NEW script, NEW m, NEW rows, Len(script) \in Nat,
         \A i \in 1..Len(script) : /\ script[i].sql # "backfill"
                                   /\ Legal(script[i], m[i - 1], rows)
                                   /\ m[i] = After(script[i], m[i - 1])
  PROVE  Ran(script, m[0], rows).ok /\ Ran(script, m[0], rows).schema = m[Len(script)]
<1>. DEFINE n == Len(script)
<1>1. PICK run : IsRun(run, script, m[0], rows) /\ Ran(script, m[0], rows) = run[n]
  BY RanFacts
<1>. DEFINE Good(r, s) == IsResult(r) /\ r.ok /\ r.schema = s /\ r.rows \subseteq rows
            G == {k \in 0..n : Good(run[k], m[k])}
<1>2. 0 \in G /\ n \in Nat /\ n \in 0..n
  <2>1. run[0] = [ok |-> TRUE, schema |-> m[0], rows |-> rows]
    BY <1>1 DEF IsRun
  <2>2. Good(run[0], m[0])
    BY <2>1 DEF IsResult
  <2>. QED BY <2>2
<1>3. ASSUME NEW k \in 0..n, k # n, k \in G PROVE k + 1 \in G
  <2>. DEFINE j == k + 1
  <2>1. j \in 1..n /\ j - 1 = k /\ j \in 0..n
    BY <1>3
  <2>2. /\ script[j].sql # "backfill" /\ Legal(script[j], m[k], rows)
        /\ m[j] = After(script[j], m[k]) /\ run[j] = Executed(script[j], run[k])
    BY <1>1, <2>1 DEF IsRun
  <2>3. Good(run[k], m[k])
    BY <1>3
  <2>. HIDE DEF j, G
  <2>4. Legal(script[j], run[k].schema, run[k].rows)
    BY <2>2, <2>3, FewerRows
  <2>5. RowsAfter(script[j], run[k].schema, run[k].rows) \subseteq run[k].rows
    BY <2>2 DEF RowsAfter
  <2>6. Good(run[j], m[j])
    BY <2>2, <2>3, <2>4, <2>5, ExecutedFacts
  <2>. QED BY <2>1, <2>6 DEF G, j
<1>4. n \in G
  <2>. HIDE DEF n, G
  <2>1. \A i \in 0..n : i \in G
    BY <1>2, <1>3, Induct
  <2>. QED BY <1>2, <2>1
<1>. QED BY <1>1, <1>4

\* A schema in which every object has what it needs.
Fine(s) == \A o \in s : Proper(o) /\ Needs(o) \subseteq s

\* What an object needs.
LEMMA NeedsFacts ==
  /\ \A o : o[1] \notin {"table", "function"} => Table(o[2]) \in Needs(o)
  /\ \A o : o[1] = "ref" => Table(o[4]) \in Needs(o)
  /\ \A o : o[1] = "trigger" => SetUpdatedAt \in Needs(o)
  /\ \A o, p : p \in Needs(o) =>
       \/ p = Table(o[2]) /\ o[1] \notin {"table", "function"}
       \/ p = Table(o[4]) /\ o[1] = "ref"
       \/ p = SetUpdatedAt /\ o[1] = "trigger"
BY DEF Needs, SetUpdatedAt

\* Every object of such a schema is with its table.
LEMMA FineFacts ==
  ASSUME NEW s, Fine(s)
  PROVE  /\ Sound(s) /\ WellFormed(s)
         /\ \A o \in s : o[1] = "ref" => Table(o[4]) \in s
<1>1. ASSUME NEW o \in s PROVE Owned(o, s) /\ (o[1] = "ref" => Table(o[4]) \in s)
  <2>1. Proper(o) /\ Needs(o) \subseteq s
    BY DEF Fine
  <2>2. CASE o[1] = "table"
    BY <2>1, <2>2 DEF Proper, Owned
  <2>3. CASE o[1] = "function"
    BY <2>1, <2>3 DEF Proper, Owned
  <2>4. CASE o[1] \notin {"table", "function"}
    BY <2>1, <2>4, NeedsFacts DEF Owned
  <2>. QED BY <2>2, <2>3, <2>4
<1>2. WellFormed(s)
  BY DEF Fine, WellFormed
<1>. QED BY <1>1, <1>2 DEF Sound

\* A statement that creates something and the one that takes it back: both
\* are legal, whatever rows there are in the end.
LEMMA Rung ==
  ASSUME NEW st, NEW un, NEW m, NEW rows, Fine(m), Inverse(st, un), Legal(st, m, rows)
  PROVE  /\ After(st, m) = m \cup st.objects
         /\ Fine(m \cup st.objects)
         /\ After(un, m \cup st.objects) = m
         /\ \A R : Legal(un, m \cup st.objects, R)
         /\ st.sql = "create" /\ un.sql = "drop"
<1>. DEFINE a == m \cup st.objects
<1>1. /\ st.sql = "create" /\ un.sql = "drop" /\ un.objects \subseteq st.objects
      /\ \A o \in st.objects : Proper(o)
      /\ \/ st.objects \subseteq un.objects
         \/ \E t : Table(t) \in un.objects /\ \A o \in st.objects : o[2] = t
  BY InverseFacts
<1>2. /\ st.objects \cap m = {}
      /\ \A o \in st.objects : Needs(o) \subseteq a
  BY <1>1 DEF Legal
<1>3. After(st, m) = a
  BY <1>1 DEF After
<1>4. Fine(a)
  BY <1>1, <1>2 DEF Fine
<1>5. After(un, a) = {o \in a \ un.objects : o[2] \notin {p[2] : p \in Of("table", un.objects)}}
  BY <1>1 DEF After
<1>6. After(un, a) = m
  <2>1. ASSUME NEW o \in m PROVE o \in After(un, a)
    <3>1. o \notin st.objects
      BY <1>2
    <3>2. ASSUME NEW p \in un.objects, p[1] = "table", p[2] = o[2] PROVE FALSE
      <4>1. p \in st.objects /\ p = Table(p[2]) /\ p[2] # "set_updated_at"
        BY <1>1, <3>2 DEF Proper
      <4>2. Owned(o, m)
        BY FineFacts DEF Sound
      <4>3. o # SetUpdatedAt
        BY <3>2, <4>1, ObjectFacts
      <4>. QED BY <1>2, <3>2, <4>1, <4>2, <4>3 DEF Owned
    <3>. QED BY <1>1, <1>5, <3>1, <3>2 DEF Of
  <2>2. ASSUME NEW o \in st.objects PROVE o \notin After(un, a)
    <3>1. CASE st.objects \subseteq un.objects
      BY <1>5, <3>1
    <3>2. ASSUME NEW t, Table(t) \in un.objects, \A x \in st.objects : x[2] = t
          PROVE  o \notin After(un, a)
      <4>1. Table(t) \in Of("table", un.objects) /\ o[2] = Table(t)[2]
        BY <3>2, ObjectFacts DEF Of
      <4>. QED BY <1>5, <4>1
    <3>. QED BY <1>1, <3>1, <3>2
  <2>3. After(un, a) \subseteq a
    BY <1>5
  <2>. QED BY <2>1, <2>2, <2>3
<1>7. ASSUME NEW R PROVE Legal(un, a, R)
  <2>1. un.objects \subseteq a
    BY <1>1
  <2>2. ASSUME NEW o \in Of("ref", After(un, a)) PROVE Table(o[4]) \notin un.objects
    <3>1. o \in m /\ o[1] = "ref"
      BY <1>6 DEF Of
    <3>2. Table(o[4]) \in m
      BY <3>1, FineFacts
    <3>. QED BY <1>1, <1>2, <3>2
  <2>. HIDE DEF a
  <2>. QED BY <1>1, <2>1, <2>2 DEF Legal
<1>. QED BY <1>1, <1>3, <1>4, <1>6, <1>7

\* Nothing stands in the way of the i-th statement of u, when those before it
\* have created their objects on top of the schema s.
Welcome(u, i, s, rows) ==
  /\ u[i].sql = "create"
  /\ \A o \in u[i].objects : o \notin s /\ \A j \in 1..(i - 1) : o \notin u[j].objects
  /\ \A o \in u[i].objects : Needs(o) \subseteq s \cup UNION {u[j].objects : j \in 1..i}
  /\ \A r \in rows : Fits(r, u[i].objects)

\* The schema s with what the first statements of u create.
Height(u, s, n) == [i \in 0..n |-> s \cup UNION {u[j].objects : j \in 1..i}]

\* Up and down the statements of u, and what takes each back.
Ladder(m, u, back, rows, n) ==
  /\ \A i \in 0..n : Fine(m[i])
  /\ \A i \in 1..n : /\ u[i].sql = "create" /\ Legal(u[i], m[i - 1], rows)
                     /\ m[i] = After(u[i], m[i - 1])
                     /\ back[i].sql = "drop" /\ \A R : Legal(back[i], m[i], R)
                     /\ m[i - 1] = After(back[i], m[i])

\* Where every statement is welcome one goes up, and down again.
LEMMA Climb ==
  ASSUME NEW u, NEW back, NEW s, NEW rows, NEW n \in Nat, Fine(s),
         \A i \in 1..n : Inverse(u[i], back[i]) /\ Welcome(u, i, s, rows)
  PROVE  Height(u, s, n)[0] = s /\ Ladder(Height(u, s, n), u, back, rows, n)
<1>. DEFINE m == Height(u, s, n)
<1>1. m[0] = s
  <2>1. m[0] = s \cup UNION {u[j].objects : j \in 1..0}
    BY DEF Height
  <2>2. 1..0 = {}
    OBVIOUS
  <2>. QED BY <2>1, <2>2
<1>2. ASSUME NEW i \in 1..n PROVE m[i] = m[i - 1] \cup u[i].objects /\ i - 1 \in 0..n
  <2>1. i - 1 \in 0..n /\ i \in 0..n
    OBVIOUS
  <2>2. \A j : j \in 1..i <=> j = i \/ j \in 1..(i - 1)
    OBVIOUS
  <2>3. /\ m[i] = s \cup UNION {u[j].objects : j \in 1..i}
        /\ m[i - 1] = s \cup UNION {u[j].objects : j \in 1..(i - 1)}
    BY <2>1 DEF Height
  <2>4. m[i] = m[i - 1] \cup u[i].objects
    BY <2>2, <2>3
  <2>. QED BY <2>1, <2>4
<1>3. ASSUME NEW i \in 1..n PROVE Legal(u[i], m[i - 1], rows)
  <2>1. /\ m[i] = s \cup UNION {u[j].objects : j \in 1..i}
        /\ m[i - 1] = s \cup UNION {u[j].objects : j \in 1..(i - 1)}
    BY DEF Height
  <2>2. /\ u[i].sql = "create"
        /\ \A o \in u[i].objects : o \notin s /\ \A j \in 1..(i - 1) : o \notin u[j].objects
        /\ \A o \in u[i].objects : Needs(o) \subseteq m[i]
        /\ \A r \in rows : Fits(r, u[i].objects)
    BY <2>1 DEF Welcome
  <2>3. u[i].objects \cap m[i - 1] = {}
    BY <2>1, <2>2
  <2>. HIDE DEF m
  <2>. QED BY <1>2, <2>2, <2>3 DEF Legal
<1>. HIDE DEF m
<1>. DEFINE G == {i \in 0..n : Fine(m[i])}
<1>4. \A i \in 0..n : i \in G
  <2>1. 0 \in G
    BY <1>1
  <2>2. ASSUME NEW i \in 0..n, i # n, i \in G PROVE i + 1 \in G
    <3>1. i + 1 \in 1..n /\ (i + 1) - 1 = i /\ i + 1 \in 0..n
      BY <2>2
    <3>2. PICK j \in 1..n : j = i + 1 /\ j - 1 = i
      BY <3>1
    <3>3. Fine(m[i]) /\ Legal(u[j], m[i], rows) /\ m[j] = m[i] \cup u[j].objects
      BY <1>2, <1>3, <2>2, <3>2
    <3>4. Fine(m[j])
      <4>1. PICK a : a = m[i]
        OBVIOUS
      <4>2. Fine(a) /\ Legal(u[j], a, rows) /\ Inverse(u[j], back[j])
        BY <3>3, <4>1
      <4>3. Fine(a \cup u[j].objects)
        BY <4>2, Rung
      <4>. QED BY <3>3, <4>1, <4>3
    <3>. QED BY <3>1, <3>2, <3>4
  <2>. HIDE DEF G
  <2>. QED BY <2>1, <2>2, Induct
<1>5. ASSUME NEW i \in 1..n
      PROVE  /\ u[i].sql = "create" /\ m[i] = After(u[i], m[i - 1])
             /\ back[i].sql = "drop" /\ \A R : Legal(back[i], m[i], R)
             /\ m[i - 1] = After(back[i], m[i])
  <2>1. /\ Fine(m[i - 1]) /\ Inverse(u[i], back[i]) /\ Legal(u[i], m[i - 1], rows)
        /\ m[i] = m[i - 1] \cup u[i].objects
    BY <1>2, <1>3, <1>4
  <2>. HIDE DEF G
  <2>2. PICK a : a = m[i - 1]
    OBVIOUS
  <2>3. PICK b : b = a \cup u[i].objects
    OBVIOUS
  <2>4. Fine(a) /\ Legal(u[i], a, rows) /\ b = m[i]
    BY <2>1, <2>2, <2>3
  <2>5. /\ After(u[i], a) = b /\ After(back[i], b) = a /\ u[i].sql = "create"
        /\ back[i].sql = "drop" /\ \A R : Legal(back[i], b, R)
    <3>1. Fine(a) /\ Inverse(u[i], back[i]) /\ Legal(u[i], a, rows)
      BY <2>1, <2>4
    <3>2. /\ After(u[i], a) = a \cup u[i].objects /\ After(back[i], a \cup u[i].objects) = a
          /\ \A R : Legal(back[i], a \cup u[i].objects, R)
          /\ u[i].sql = "create" /\ back[i].sql = "drop"
      BY <3>1, Rung
    <3>. QED BY <2>3, <3>2
  <2>. QED BY <2>2, <2>4, <2>5
<1>6. \A i \in 0..n : Fine(m[i])
  BY <1>4
<1>7. Ladder(m, u, back, rows, n)
  <2>. HIDE DEF G
  <2>. QED BY <1>3, <1>5, <1>6 DEF Ladder
<1>. QED BY <1>1, <1>7 DEF m

\* The kinds of values that the code has stored since the column exists, and
\* that fit wherever a domain is created again.
Fitted(rows) == \A r \in rows : Fits(r, Priority \cup Quality \cup NewKinds)

Guests(rows, s) == Housed(rows, s) /\ Fitted(rows)

\* An upgrade that no row holds up, and a downgrade that none does.
Passes(u, d, s) ==
  LET after == Ran(u, s, {}).schema
  IN  /\ \A rows : Guests(rows, s) => Ran(u, s, rows).ok
      /\ Fine(after)
      /\ \A rows : Ran(d, after, rows).ok

\* Nobody is always a guest.
LEMMA NoGuests == \A s : Guests({}, s)
BY DEF Guests, Housed, Fitted

\* Such are the scripts that take back every statement in reverse order.
LEMMA UpAndDown ==
  ASSUME NEW u, NEW d, NEW s, NEW n \in Nat, Len(u) = n, Len(d) = n, Fine(s),
         \A i \in 1..n : Inverse(u[i], d[n + 1 - i]),
         \A rows : Guests(rows, s) => \A i \in 1..n : Welcome(u, i, s, rows)
  PROVE  Passes(u, d, s)
<1>. DEFINE back == [i \in 1..n |-> d[n + 1 - i]]
            m == Height(u, s, n)
            down == [i \in 0..n |-> m[n - i]]
<1>1. \A i \in 1..n : back[i] = d[n + 1 - i]
  OBVIOUS
<1>2. \A i \in 1..n : Inverse(u[i], back[i])
  BY <1>1
<1>3. n \in 0..n /\ 0 \in 0..n /\ down[0] = m[n] /\ down[n] = m[0]
  <2>. HIDE DEF m
  <2>. QED OBVIOUS
<1>. HIDE DEF back
<1>4. ASSUME NEW rows, Guests(rows, s)
      PROVE  m[0] = s /\ Ladder(m, u, back, rows, n)
  <2>1. \A i \in 1..n : Inverse(u[i], back[i]) /\ Welcome(u, i, s, rows)
    BY <1>2, <1>4
  <2>. QED BY <2>1, Climb
<1>. HIDE DEF m
<1>5. ASSUME NEW rows, Guests(rows, s)
      PROVE  Ran(u, s, rows).ok /\ Ran(u, s, rows).schema = m[n]
  <2>1. m[0] = s
    BY <1>4, <1>5
  <2>2. \A i \in 1..Len(u) : /\ u[i].sql # "backfill" /\ Legal(u[i], m[i - 1], rows)
                             /\ m[i] = After(u[i], m[i - 1])
    BY <1>4, <1>5 DEF Ladder
  <2>3. Ran(u, m[0], rows).ok /\ Ran(u, m[0], rows).schema = m[Len(u)]
    BY <2>2, RunsWell
  <2>. QED BY <2>1, <2>3
<1>6. ASSUME NEW rows PROVE Ran(d, m[n], rows).ok
  <2>1. ASSUME NEW j \in 1..n
        PROVE  /\ d[j].sql # "backfill" /\ Legal(d[j], down[j - 1], rows)
               /\ down[j] = After(d[j], down[j - 1])
    <3>1. PICK i \in 1..n : i = n + 1 - j
      OBVIOUS
    <3>2. j = n + 1 - i /\ n - j = i - 1 /\ n - (j - 1) = i /\ j \in 0..n /\ j - 1 \in 0..n
      BY <3>1
    <3>3. d[j] = back[i] /\ down[j] = m[i - 1] /\ down[j - 1] = m[i]
      BY <1>1, <3>2
    <3>4. back[i].sql = "drop" /\ (\A R : Legal(back[i], m[i], R)) /\ m[i - 1] = After(back[i], m[i])
      BY <1>4, NoGuests DEF Ladder
    <3>. HIDE DEF down
    <3>. QED BY <3>3, <3>4
  <2>. HIDE DEF down
  <2>2. Ran(d, down[0], rows).ok
    BY <2>1, RunsWell
  <2>. QED BY <1>3, <2>2
<1>7. Ran(u, s, {}).schema = m[n] /\ Fine(m[n])
  BY <1>3, <1>4, <1>5, NoGuests DEF Ladder
<1>. QED BY <1>5, <1>6, <1>7 DEF Passes

\* A table is welcome where no table of that name is, if the tables it refers
\* to are there.
LEMMA TableWelcome ==
  ASSUME NEW u, NEW i \in Nat \ {0}, NEW s, NEW rows, NEW t, Fine(s), Housed(rows, s),
         Creates(u[i], t), Table(t) \notin s,
         \A j \in 1..(i - 1) : \A o \in u[j].objects : o[2] # t,
         \A o \in u[i].objects : o[1] = "ref" =>
           Table(o[4]) \in s \/ \E j \in 1..(i - 1) : Table(o[4]) \in u[j].objects
  PROVE  Welcome(u, i, s, rows)
<1>1. /\ u[i].sql = "create" /\ Table(t) \in u[i].objects
      /\ \A o \in u[i].objects : Proper(o) /\ o[1] # "trigger" /\ o[2] = t
  BY DEF Creates, Plain
<1>2. \A o \in u[i].objects : o \notin s /\ \A j \in 1..(i - 1) : o \notin u[j].objects
  <2>1. t # "set_updated_at"
    BY <1>1, ObjectFacts DEF Proper
  <2>2. \A o \in s : o[2] # t
    BY <2>1, FineFacts, ObjectFacts DEF Sound, Owned
  <2>. QED BY <1>1, <2>2
<1>3. ASSUME NEW o \in u[i].objects, NEW p \in Needs(o)
      PROVE  p \in s \cup UNION {u[j].objects : j \in 1..i}
  <2>1. i \in 1..i /\ \A j \in 1..(i - 1) : j \in 1..i
    OBVIOUS
  <2>2. p = Table(t) \/ (p = Table(o[4]) /\ o[1] = "ref")
    BY <1>1, <1>3, NeedsFacts
  <2>. QED BY <1>1, <2>1, <2>2
<1>4. \A r \in rows : Fits(r, u[i].objects)
  <2>1. \A r \in rows : r[1] # t
    BY DEF Housed
  <2>. QED BY <1>1, <2>1 DEF Fits, Of
<1>. QED BY <1>1, <1>2, <1>3, <1>4 DEF Welcome

\* Parts of a table are, if the table is there and the rows fit.
LEMMA PartWelcome ==
  ASSUME NEW u, NEW i \in Nat \ {0}, NEW s, NEW rows, NEW t, NEW X,
         u[i] = Create(X), Belong(X, t), Table(t) \in s,
         \A o \in X : o[1] # "ref" /\ o \notin s /\ \A j \in 1..(i - 1) : o \notin u[j].objects,
         \A r \in rows : Fits(r, X)
  PROVE  Welcome(u, i, s, rows)
<1>1. u[i].sql = "create" /\ u[i].objects = X
  BY DEF Create
<1>2. \A o \in X : o[1] # "trigger" /\ o[2] = t
  BY DEF Belong, Plain
<1>3. \A o \in X : Needs(o) \subseteq s
  BY <1>2, NeedsFacts
<1>. QED BY <1>1, <1>3 DEF Welcome

-----------------------------------------------------------------------------
(* Which tables a revision is about, and which their keys refer to. *)

NoticeOwners == {"bid_pipeline", "set_updated_at"}
OntologyOwners == {"ontology_concepts", "ontology_aliases", "ontology_rules", "knowledge_evidence",
                   "ontology_relations", "notice_assertions", "notice_work_tasks", "role_bindings"}
ReviewOwners == {"notice_spec_items", "notice_exports", "notice_errors"}
SourceOwners == {"notice_spec_items", "attachment_fetch_jobs", "attachment_fetch_files"}
HwpOwners == {"company_profiles", "hwp_templates", "document_field_mappings", "hwp_generation_jobs"}
ProposalOwners == {"proposal_documents", "document_chunks", "project_performances",
                   "notice_requirements", "requirement_evidences", "proposal_sections"}

Owners(k) == CASE k \in {1, 2} -> NoticeOwners
               [] k = 3 -> OntologyOwners
               [] k = 5 -> {"notice_spec_items"}
               [] k = 6 -> ReviewOwners
               [] k = 7 -> SourceOwners
               [] k \in {8, 10} -> {"notice_exports"}
               [] k = 9 -> HwpOwners
               [] k = 12 -> {"notice_required_documents"}
               [] k = 13 -> ProposalOwners
               [] OTHER -> {}

\* What a script builds belongs to the tables its statements are about.
LEMMA OwnerRule ==
  ASSUME NEW u, NEW n \in Nat, Len(u) = n, NEW T, \A i \in 1..n : \A o \in u[i].objects : o[2] \in T
  PROVE  \A o \in Built(u) : o[2] \in T
BY DEF Built

\* The tables of 0001 and 0002.
LEMMA NoticeOwned == \A o \in Built(Up0001) \cup Built(Up0002) : o[2] \in NoticeOwners
<1>1. \A o \in Built(Up0001) : o[2] \in NoticeOwners
  <2>. DEFINE X == Up0001[1].objects
  <2>1. /\ Len(Up0001) = 4 /\ Up0001[2] = CreateIfMissing({SetUpdatedAt})
        /\ Up0001[3] = DropIfExists({Trigger("bid_pipeline")})
        /\ Up0001[4] = Create({Trigger("bid_pipeline")})
    BY DEF Up0001, SetUpdatedAt
  <2>2. Belong(X, "bid_pipeline")
    BY PartFacts, ObjectFacts DEF Up0001, Belong, Create
  <2>3. \A o \in X : o[2] \in NoticeOwners
    BY <2>2 DEF Belong, NoticeOwners
  <2>4. \A o \in {SetUpdatedAt} : o[2] \in NoticeOwners
    BY ObjectFacts DEF NoticeOwners
  <2>5. \A o \in {Trigger("bid_pipeline")} : o[2] \in NoticeOwners
    BY PartFacts DEF NoticeOwners
  <2>. HIDE DEF X
  <2>6. /\ Up0001[2].objects = {SetUpdatedAt} /\ Up0001[3].objects = {Trigger("bid_pipeline")}
        /\ Up0001[4].objects = {Trigger("bid_pipeline")}
    <3>1. Up0001[2].objects = {SetUpdatedAt}
      BY <2>1, IfMissingReads, Zenon
    <3>2. Up0001[3].objects = {Trigger("bid_pipeline")}
      BY <2>1, IfExistsReads, Zenon
    <3>3. Up0001[4].objects = {Trigger("bid_pipeline")}
      BY <2>1 DEF Create, Drop
    <3>. QED BY <3>1, <3>2, <3>3
  <2>7. \A i \in 1..4 : i = 1 \/ i = 2 \/ i = 3 \/ i = 4
    OBVIOUS
  <2>8. \A i \in 1..4 : \A o \in Up0001[i].objects : o[2] \in NoticeOwners
    BY <2>3, <2>4, <2>5, <2>6, <2>7 DEF X
  <2>. QED BY <2>1, <2>8, OwnerRule
<1>2. \A o \in Built(Up0002) : o[2] \in NoticeOwners
  <2>1. Len(Up0002) = 1 /\ Up0002[1] = CreateIfMissing(SearchIndexes)
    BY DEF Up0002
  <2>2. \A o \in SearchIndexes : o[2] \in NoticeOwners
    BY PartFacts DEF SearchIndexes, NoticeOwners
  <2>3. Up0002[1].objects = SearchIndexes
    BY <2>1, IfMissingReads, Zenon
  <2>4. \A i \in 1..1 : i = 1
    OBVIOUS
  <2>5. \A i \in 1..1 : \A o \in Up0002[i].objects : o[2] \in NoticeOwners
    BY <2>2, <2>3, <2>4
  <2>. QED BY <2>1, <2>5, OwnerRule
<1>. QED BY <1>1, <1>2

\* The tables of 0003.
LEMMA OntologyOwned == \A o \in Built(Up0003) : o[2] \in OntologyOwners
<1>1. \A i \in 1..10 : \A o \in Up0003[i].objects : o[2] \in OntologyOwners
  <2>1. \A i \in 1..10 : i = 1 \/ i = 2 \/ i = 3 \/ i = 4 \/ i = 5 \/ i = 6 \/ i = 7 \/ i = 8
                         \/ i = 9 \/ i = 10
    OBVIOUS
  <2>2. \A st, t : Creates(st, t) /\ t \in OntologyOwners => \A o \in st.objects : o[2] \in OntologyOwners
    BY DEF Creates
  <2>3. /\ "ontology_concepts" \in OntologyOwners /\ "ontology_aliases" \in OntologyOwners
        /\ "ontology_rules" \in OntologyOwners /\ "knowledge_evidence" \in OntologyOwners
        /\ "ontology_relations" \in OntologyOwners /\ "notice_assertions" \in OntologyOwners
        /\ "notice_work_tasks" \in OntologyOwners /\ "role_bindings" \in OntologyOwners
    BY DEF OntologyOwners
  <2>4. \A o \in UpdatedAtTriggers : o[2] \in OntologyOwners
    BY PartFacts DEF UpdatedAtTriggers, OntologyOwners
  <2>5. Up0003[9].objects = UpdatedAtTriggers /\ Up0003[10].objects = UpdatedAtTriggers
    <3>1. Up0003[9] = DropIfExists(UpdatedAtTriggers) /\ Up0003[10] = Create(UpdatedAtTriggers)
      BY Up0003Facts
    <3>2. Up0003[9].objects = UpdatedAtTriggers
      BY <3>1, IfExistsReads, Zenon
    <3>3. Up0003[10].objects = UpdatedAtTriggers
      BY <3>1, CreateReads, Zenon
    <3>. QED BY <3>2, <3>3
  <2>6. /\ \A o \in Up0003[1].objects : o[2] \in OntologyOwners
        /\ \A o \in Up0003[2].objects : o[2] \in OntologyOwners
        /\ \A o \in Up0003[3].objects : o[2] \in OntologyOwners
        /\ \A o \in Up0003[4].objects : o[2] \in OntologyOwners
        /\ \A o \in Up0003[5].objects : o[2] \in OntologyOwners
        /\ \A o \in Up0003[6].objects : o[2] \in OntologyOwners
        /\ \A o \in Up0003[7].objects : o[2] \in OntologyOwners
        /\ \A o \in Up0003[8].objects : o[2] \in OntologyOwners
    BY <2>2, <2>3, Up0003Facts, OntologyBelongs
  <2>. QED BY <2>1, <2>4, <2>5, <2>6
<1>. QED BY <1>1, Up0003Facts, OwnerRule

\* The tables of 0005 to 0008.
LEMMA WorkOwned ==
  /\ \A o \in Built(Up0005) : o[2] \in {"notice_spec_items"}
  /\ \A o \in Built(Up0006) : o[2] \in ReviewOwners
  /\ \A o \in Built(Up0007) : o[2] \in SourceOwners
  /\ \A o \in Built(Up0008) : o[2] \in {"notice_exports"}
<1>1. \A st, t, T : Creates(st, t) /\ t \in T => \A o \in st.objects : o[2] \in T
  BY DEF Creates
<1>2. \A st, X, t, T : st = Create(X) /\ Belong(X, t) /\ t \in T => \A o \in st.objects : o[2] \in T
  <2>. SUFFICES ASSUME NEW X, NEW t, NEW T, Belong(X, t), t \in T, NEW o \in Create(X).objects
                PROVE  o[2] \in T
    OBVIOUS
  <2>1. Create(X).objects = X
    BY DEF Create
  <2>. QED BY <2>1 DEF Belong
<1>3. \A o \in Built(Up0005) : o[2] \in {"notice_spec_items"}
  <2>1. \A i \in 1..1 : i = 1
    OBVIOUS
  <2>2. \A i \in 1..1 : \A o \in Up0005[i].objects : o[2] \in {"notice_spec_items"}
    BY <1>1, <2>1, Statements0005
  <2>. QED BY <2>2, Statements0005, OwnerRule
<1>4. \A o \in Built(Up0006) : o[2] \in ReviewOwners
  <2>1. "notice_spec_items" \in ReviewOwners /\ "notice_exports" \in ReviewOwners
        /\ "notice_errors" \in ReviewOwners
    BY DEF ReviewOwners
  <2>2. \A i \in 1..3 : i = 1 \/ i = 2 \/ i = 3
    OBVIOUS
  <2>3. /\ \A o \in Up0006[1].objects : o[2] \in ReviewOwners
        /\ \A o \in Up0006[2].objects : o[2] \in ReviewOwners
        /\ \A o \in Up0006[3].objects : o[2] \in ReviewOwners
    BY <1>1, <1>2, <2>1, Statements0006
  <2>4. \A i \in 1..3 : \A o \in Up0006[i].objects : o[2] \in ReviewOwners
    BY <2>2, <2>3
  <2>. QED BY <2>4, Statements0006, OwnerRule
<1>5. \A o \in Built(Up0007) : o[2] \in SourceOwners
  <2>1. "notice_spec_items" \in SourceOwners /\ "attachment_fetch_jobs" \in SourceOwners
        /\ "attachment_fetch_files" \in SourceOwners
    BY DEF SourceOwners
  <2>2. \A i \in 1..4 : i = 1 \/ i = 2 \/ i = 3 \/ i = 4
    OBVIOUS
  <2>3. /\ \A o \in Up0007[1].objects : o[2] \in SourceOwners
        /\ \A o \in Up0007[2].objects : o[2] \in SourceOwners
        /\ \A o \in Up0007[3].objects : o[2] \in SourceOwners
        /\ \A o \in Up0007[4].objects : o[2] \in SourceOwners
    BY <1>1, <1>2, <2>1, Statements0007
  <2>4. \A i \in 1..4 : \A o \in Up0007[i].objects : o[2] \in SourceOwners
    BY <2>2, <2>3
  <2>. QED BY <2>4, Statements0007, OwnerRule
<1>6. \A o \in Built(Up0008) : o[2] \in {"notice_exports"}
  <2>1. \A i \in 1..2 : i = 1 \/ i = 2
    OBVIOUS
  <2>2. /\ \A o \in Up0008[1].objects : o[2] \in {"notice_exports"}
        /\ \A o \in Up0008[2].objects : o[2] \in {"notice_exports"}
    BY <1>2, Statements0008
  <2>3. \A i \in 1..2 : \A o \in Up0008[i].objects : o[2] \in {"notice_exports"}
    BY <2>1, <2>2
  <2>. QED BY <2>3, Statements0008, OwnerRule
<1>. QED BY <1>3, <1>4, <1>5, <1>6

\* The tables of 0009 to 0012.
LEMMA LaterOwned ==
  /\ \A o \in Built(Up0009) : o[2] \in HwpOwners
  /\ \A o \in Built(Up0010) : o[2] \in {"notice_exports"}
  /\ \A o \in Built(Up0011) : o[2] \in {"notice_required_documents"}
  /\ \A o \in Built(Up0012) : o[2] \in ProposalOwners
<1>1. \A st, t, T : Creates(st, t) /\ t \in T => \A o \in st.objects : o[2] \in T
  BY DEF Creates
<1>2. \A o \in Built(Up0009) : o[2] \in HwpOwners
  <2>1. "company_profiles" \in HwpOwners /\ "hwp_templates" \in HwpOwners
        /\ "document_field_mappings" \in HwpOwners /\ "hwp_generation_jobs" \in HwpOwners
    BY DEF HwpOwners
  <2>2. \A i \in 1..4 : i = 1 \/ i = 2 \/ i = 3 \/ i = 4
    OBVIOUS
  <2>3. /\ \A o \in Up0009[1].objects : o[2] \in HwpOwners
        /\ \A o \in Up0009[2].objects : o[2] \in HwpOwners
        /\ \A o \in Up0009[3].objects : o[2] \in HwpOwners
        /\ \A o \in Up0009[4].objects : o[2] \in HwpOwners
    BY <1>1, <2>1, Statements0009
  <2>4. \A i \in 1..4 : \A o \in Up0009[i].objects : o[2] \in HwpOwners
    BY <2>2, <2>3
  <2>. QED BY <2>4, Statements0009, OwnerRule
<1>3. \A o \in Built(Up0010) : o[2] \in {"notice_exports"}
  <2>1. Len(Up0010) = 2 /\ Up0010[1] = Drop(OldKinds) /\ Up0010[2] = Create(NewKinds)
    BY DEF Up0010
  <2>2. Up0010[1].objects = OldKinds /\ Up0010[2].objects = NewKinds
    BY <2>1 DEF Create, Drop
  <2>3. \A o \in OldKinds \cup NewKinds : o[2] = "notice_exports"
    BY PartFacts DEF OldKinds, NewKinds
  <2>4. \A i \in 1..2 : i = 1 \/ i = 2
    OBVIOUS
  <2>5. \A i \in 1..2 : \A o \in Up0010[i].objects : o[2] \in {"notice_exports"}
    BY <2>2, <2>3, <2>4
  <2>. QED BY <2>1, <2>5, OwnerRule
<1>4. \A o \in Built(Up0011) : o[2] \in {"notice_required_documents"}
  <2>1. \A i \in 1..1 : i = 1
    OBVIOUS
  <2>2. \A i \in 1..1 : \A o \in Up0011[i].objects : o[2] \in {"notice_required_documents"}
    BY <1>1, <2>1, Statements0011
  <2>. QED BY <2>2, Statements0011, OwnerRule
<1>5. \A o \in Built(Up0012) : o[2] \in ProposalOwners
  <2>1. /\ "proposal_documents" \in ProposalOwners /\ "document_chunks" \in ProposalOwners
        /\ "project_performances" \in ProposalOwners /\ "notice_requirements" \in ProposalOwners
        /\ "requirement_evidences" \in ProposalOwners /\ "proposal_sections" \in ProposalOwners
    BY DEF ProposalOwners
  <2>2. \A i \in 1..6 : i = 1 \/ i = 2 \/ i = 3 \/ i = 4 \/ i = 5 \/ i = 6
    OBVIOUS
  <2>3. /\ \A o \in Up0012[1].objects : o[2] \in ProposalOwners
        /\ \A o \in Up0012[2].objects : o[2] \in ProposalOwners
        /\ \A o \in Up0012[3].objects : o[2] \in ProposalOwners
        /\ \A o \in Up0012[4].objects : o[2] \in ProposalOwners
        /\ \A o \in Up0012[5].objects : o[2] \in ProposalOwners
        /\ \A o \in Up0012[6].objects : o[2] \in ProposalOwners
    BY <1>1, <2>1, Up0012Facts, LibraryBelongs
  <2>4. \A i \in 1..6 : \A o \in Up0012[i].objects : o[2] \in ProposalOwners
    BY <2>2, <2>3
  <2>. QED BY <2>4, Up0012Facts, OwnerRule
<1>. QED BY <1>2, <1>3, <1>4, <1>5

\* What a revision builds belongs to the tables it is about.
LEMMA AllOwned == \A k \in 1..HeadRev : \A o \in Built(Up[k]) : o[2] \in Owners(k)
<1>1. \A k \in 1..HeadRev : \/ k = 1 \/ k = 2 \/ k = 3 \/ k = 4 \/ k = 5 \/ k = 6 \/ k = 7
                            \/ k = 8 \/ k = 9 \/ k = 10 \/ k = 11 \/ k = 12 \/ k = 13
  BY Revisions
<1>2. Built(Up0004) = {} /\ Built(Up0010b) = {}
  <2>1. Len(Up0004) = 1 /\ Up0004[1].sql = "backfill" /\ \A i \in 1..1 : i = 1
    BY ObjectFacts DEF Up0004
  <2>2. Len(Up0010b) = 0 /\ 1..0 = {}
    BY DEF Up0010b
  <2>. QED BY <2>1, <2>2 DEF Built
<1>3. /\ Owners(1) = NoticeOwners /\ Owners(2) = NoticeOwners /\ Owners(3) = OntologyOwners
      /\ Owners(5) = {"notice_spec_items"} /\ Owners(6) = ReviewOwners /\ Owners(7) = SourceOwners
      /\ Owners(8) = {"notice_exports"} /\ Owners(9) = HwpOwners /\ Owners(10) = {"notice_exports"}
      /\ Owners(12) = {"notice_required_documents"} /\ Owners(13) = ProposalOwners
  BY DEF Owners
<1>. QED
  BY <1>1, <1>2, <1>3, UpNames, NoticeOwned, OntologyOwned, WorkOwned, LaterOwned

\* The tables that foreign keys of X refer to are among P.
RefersTo(X, P) == \A o \in X : o[1] = "ref" => o[4] \in P

\* Which objects refer to which table.
LEMMA KeyFacts ==
  /\ \A t : Table(t)[1] # "ref"
  /\ \A t, c, v : Domain(t, c, v)[1] # "ref"
  /\ \A t, c : Index(t, c)[1] # "ref"
  /\ \A t, N : \A o \in Indexes(t, N) : o[1] # "ref"
  /\ \A t, N : \A o \in Columns(t, N) : o[1] # "ref"
  /\ \A t : ByNotice(t)[4] = "bid_pipeline"
  /\ \A t, c, p, r : Ref(t, c, p, r)[4] = p
BY DEF Table, Domain, Index, Indexes, Columns, Column, ByNotice, Ref

\* The object refers to the table p.
Points(o, p) == o[4] = p

\* The fact about foreign keys, on its own for the provers.
LEMMA KeyOf ==
  /\ \A t, c, p, r : Points(Ref(t, c, p, r), p)
  /\ \A t, c, p : Points(Ref(t, c, p, "SET NULL"), p)
<1>1. \A t, c, p, r : Points(Ref(t, c, p, r), p)
  BY KeyFacts DEF Points
<1>. QED BY <1>1, Zenon

\* The keys of 0005 to 0008 and of 0011.
LEMMA WorkRefers ==
  /\ RefersTo(Up0005[1].objects, {"bid_pipeline"})
  /\ RefersTo(Up0006[2].objects, {"bid_pipeline"})
  /\ RefersTo(Up0006[3].objects, {"bid_pipeline"})
  /\ RefersTo(Up0007[3].objects, {"bid_pipeline"})
  /\ RefersTo(Up0007[4].objects, {"bid_pipeline", "attachment_fetch_jobs"})
  /\ RefersTo(Up0011[1].objects, {"bid_pipeline"})
<1>1. RefersTo(Up0005[1].objects, {"bid_pipeline"})
  BY KeyFacts DEF RefersTo, Up0005, Create
<1>2. RefersTo(Up0006[2].objects, {"bid_pipeline"})
  BY KeyFacts DEF RefersTo, Up0006, Create
<1>3. RefersTo(Up0006[3].objects, {"bid_pipeline"})
  BY KeyFacts DEF RefersTo, Up0006, Create
<1>4. RefersTo(Up0007[3].objects, {"bid_pipeline"})
  BY KeyFacts DEF RefersTo, Up0007, Create
<1>5. RefersTo(Up0007[4].objects, {"bid_pipeline", "attachment_fetch_jobs"})
  BY KeyFacts DEF RefersTo, Up0007, Create
<1>6. RefersTo(Up0011[1].objects, {"bid_pipeline"})
  BY KeyFacts DEF RefersTo, Up0011, Create
<1>. QED BY <1>1, <1>2, <1>3, <1>4, <1>5, <1>6

\* The keys of 0009.
LEMMA HwpRefers ==
  /\ RefersTo(Up0009[1].objects, {}) /\ RefersTo(Up0009[2].objects, {})
  /\ RefersTo(Up0009[3].objects, {"hwp_templates"})
  /\ RefersTo(Up0009[4].objects, {"bid_pipeline", "hwp_templates", "notice_exports"})
<1>1. RefersTo(Up0009[1].objects, {}) /\ RefersTo(Up0009[2].objects, {})
  BY KeyFacts DEF RefersTo, Up0009, Create
<1>2. RefersTo(Up0009[3].objects, {"hwp_templates"})
  BY KeyFacts DEF RefersTo, Up0009, Create
<1>3. RefersTo(Up0009[4].objects, {"bid_pipeline", "hwp_templates", "notice_exports"})
  <2>. DEFINE R == {Ref("hwp_generation_jobs", "template_id", "hwp_templates", "SET NULL"), JobExport}
              P == {Table("hwp_generation_jobs"), ByNotice("hwp_generation_jobs"),
                    Domain("hwp_generation_jobs", "status",
                           {"pending", "running", "completed", "failed"}),
                    Domain("hwp_generation_jobs", "review_status",
                           {"pending", "approved", "rejected"})}
  <2>1. \A o \in R : Points(o, "hwp_templates") \/ Points(o, "notice_exports")
    BY KeyOf, Zenon DEF JobExport
  <2>2. RefersTo(P, {"bid_pipeline"})
    BY KeyFacts DEF RefersTo
  <2>3. Up0009[4].objects = P \cup R \cup Indexes("hwp_generation_jobs", {"notice", "review"})
    BY DEF Up0009, Create
  <2>. HIDE DEF P, R
  <2>. QED BY <2>1, <2>2, <2>3, KeyFacts DEF RefersTo, Points
<1>. QED BY <1>1, <1>2, <1>3

\* The keys of 0003.
LEMMA OntologyRefers ==
  /\ RefersTo(ConceptTables[1].objects, {})
  /\ RefersTo(ConceptTables[2].objects, {"ontology_concepts"})
  /\ RefersTo(RuleTables[1].objects, {})
  /\ RefersTo(RuleTables[2].objects, {})
  /\ RefersTo(RuleTables[3].objects, {"ontology_concepts", "knowledge_evidence"})
  /\ RefersTo(TaskTables[1].objects, {"bid_pipeline", "ontology_concepts", "knowledge_evidence"})
  /\ RefersTo(TaskTables[2].objects, {"bid_pipeline", "ontology_concepts"})
  /\ RefersTo(TaskTables[3].objects, {"ontology_concepts"})
<1>1. /\ RefersTo(ConceptTables[1].objects, {})
      /\ RefersTo(ConceptTables[2].objects, {"ontology_concepts"})
  BY KeyFacts DEF RefersTo, ConceptTables, Create
<1>2. RefersTo(RuleTables[1].objects, {}) /\ RefersTo(RuleTables[2].objects, {})
  BY KeyFacts DEF RefersTo, RuleTables, Create
<1>3. RefersTo(RuleTables[3].objects, {"ontology_concepts", "knowledge_evidence"})
  <2>. DEFINE R == {Ref("ontology_relations", "subject_concept_id", "ontology_concepts", "CASCADE"),
                    Ref("ontology_relations", "object_concept_id", "ontology_concepts", "CASCADE")}
              S == {Ref("ontology_relations", "evidence_id", "knowledge_evidence", "SET NULL")}
              V == {Domain("ontology_relations", "predicate",
                     {"requires_document", "triggers_task", "assigned_role", "depends_on",
                      "satisfies", "conflicts_with"}),
                    Domain("ontology_relations", "status", {"active", "deprecated"})}
  <2>1. \A o \in R : o[4] = "ontology_concepts"
    BY KeyFacts
  <2>2. \A o \in S : Points(o, "knowledge_evidence")
    BY KeyOf, Zenon
  <2>3. RefersTo(V, {})
    BY KeyFacts DEF RefersTo
  <2>4. RuleTables[3].objects \subseteq {Table("ontology_relations")} \cup R \cup S \cup V
                      \cup Indexes("ontology_relations", {"subject", "object"})
    BY DEF RuleTables, Create
  <2>. HIDE DEF R, S, V
  <2>. QED BY <2>1, <2>2, <2>3, <2>4, KeyFacts DEF RefersTo, Points
<1>4. RefersTo(TaskTables[1].objects, {"bid_pipeline", "ontology_concepts", "knowledge_evidence"})
  <2>. DEFINE R == {ByNotice("notice_assertions"),
                    Ref("notice_assertions", "concept_id", "ontology_concepts", "CASCADE")}
              S == {Ref("notice_assertions", "evidence_id", "knowledge_evidence", "SET NULL")}
              V == {Domain("notice_assertions", "status", {"candidate", "approved", "rejected"})}
  <2>1. \A o \in R : o[4] = "ontology_concepts" \/ o[4] = "bid_pipeline"
    BY KeyFacts
  <2>2. \A o \in S : Points(o, "knowledge_evidence")
    BY KeyOf, Zenon
  <2>3. RefersTo(V, {})
    BY KeyFacts DEF RefersTo
  <2>4. TaskTables[1].objects \subseteq {Table("notice_assertions")} \cup R \cup S \cup V
                      \cup Indexes("notice_assertions", {"notice", "concept", "status"})
    BY DEF TaskTables, Create
  <2>. HIDE DEF R, S, V
  <2>. QED BY <2>1, <2>2, <2>3, <2>4, KeyFacts DEF RefersTo, Points
<1>5. RefersTo(TaskTables[2].objects, {"bid_pipeline", "ontology_concepts"})
  BY KeyFacts DEF RefersTo, TaskTables, Create
<1>6. RefersTo(TaskTables[3].objects, {"ontology_concepts"})
  BY KeyFacts DEF RefersTo, TaskTables, Create
<1>. QED BY <1>1, <1>2, <1>3, <1>4, <1>5, <1>6

\* The keys of 0012.
LEMMA ProposalRefers ==
  /\ RefersTo(LibraryTables[1].objects, {})
  /\ RefersTo(LibraryTables[2].objects, {"proposal_documents"})
  /\ RefersTo(LibraryTables[3].objects, {"proposal_documents"})
  /\ RefersTo(RequirementTable[1].objects, {"bid_pipeline"})
  /\ RefersTo(EvidenceTables[1].objects,
              {"notice_requirements", "proposal_documents", "document_chunks",
               "project_performances"})
  /\ RefersTo(EvidenceTables[2].objects, {"bid_pipeline"})
<1>1. /\ RefersTo(LibraryTables[1].objects, {})
      /\ RefersTo(LibraryTables[2].objects, {"proposal_documents"})
  BY KeyFacts DEF RefersTo, LibraryTables, Create
<1>2. RefersTo(LibraryTables[3].objects, {"proposal_documents"})
  <2>. DEFINE S == {Ref("project_performances", "evidence_document_id", "proposal_documents",
                        "SET NULL")}
  <2>1. \A o \in S : Points(o, "proposal_documents")
    BY KeyOf, Zenon
  <2>2. LibraryTables[3].objects \subseteq {Table("project_performances")} \cup S
                      \cup Indexes("project_performances", {"verified", "customer"})
    BY DEF LibraryTables, Create
  <2>. HIDE DEF S
  <2>. QED BY <2>1, <2>2, KeyFacts DEF RefersTo, Points
<1>3. RefersTo(RequirementTable[1].objects, {"bid_pipeline"})
  BY KeyFacts DEF RefersTo, RequirementTable, Create
<1>4. RefersTo(EvidenceTables[1].objects,
               {"notice_requirements", "proposal_documents", "document_chunks",
                "project_performances"})
  <2>. DEFINE E == EvidenceTables[1].objects
              Owner == Ref("requirement_evidences", "requirement_id", "notice_requirements", "CASCADE")
              S == {Ref("requirement_evidences", "document_id", "proposal_documents", "SET NULL"),
                    Ref("requirement_evidences", "chunk_id", "document_chunks", "SET NULL"),
                    Ref("requirement_evidences", "performance_id", "project_performances",
                        "SET NULL")}
  <2>1. \A o \in S : \/ Points(o, "proposal_documents") \/ Points(o, "document_chunks")
                     \/ Points(o, "project_performances")
    BY KeyOf, Zenon
  <2>2. Owner[4] = "notice_requirements"
    BY KeyFacts
  <2>3. E \subseteq {Table("requirement_evidences"), Owner} \cup S
                      \cup Indexes("requirement_evidences", {"requirement", "document"})
    BY DEF EvidenceTables, Create
  <2>. HIDE DEF S, Owner, E
  <2>4. RefersTo(E, {"notice_requirements", "proposal_documents", "document_chunks",
                     "project_performances"})
    BY <2>1, <2>2, <2>3, KeyFacts DEF RefersTo, Points
  <2>. QED BY <2>4 DEF E
<1>5. RefersTo(EvidenceTables[2].objects, {"bid_pipeline"})
  BY KeyFacts DEF RefersTo, EvidenceTables, Create
<1>. QED BY <1>1, <1>2, <1>3, <1>4, <1>5

-----------------------------------------------------------------------------
(* The upgrades and downgrades, one after the other. *)

\* What is in a schema of the chain belongs to a table that one of the
\* upgrades so far is about.
LEMMA MadeOf ==
  ASSUME NEW n \in 0..HeadRev, Done(n), NEW o \in SchemaAt[n]
  PROVE  \E k \in 1..n : k \in 1..13 /\ o \in Built(Up[k]) /\ o[2] \in Owners(k)
<1>1. \A k \in 1..n : k \in 1..13
  BY Revisions
<1>. QED BY <1>1, MadeByOne, AllOwned, Revisions

\* A table that no upgrade so far is about is not there.
LEMMA NotYet ==
  ASSUME NEW n \in 0..HeadRev, Done(n), NEW t, \A k \in 1..n : t \notin Owners(k)
  PROVE  Table(t) \notin SchemaAt[n]
BY MadeOf, ObjectFacts

\* What an earlier upgrade has created is still there.
LEMMA StillThere ==
  ASSUME NEW n \in 0..HeadRev, Done(n), NEW k \in 1..n, k # 10, NEW i \in 1..Len(Up[k]),
         Up[k][i].sql = "create", NEW o \in Up[k][i].objects, o[1] # "trigger", o \notin OldKinds
  PROVE  o \in SchemaAt[n]
<1>1. o \in Built(Up[k])
  BY DEF Built
<1>2. o \in SchemaAt[k]
  BY <1>1, ChainGrows
<1>. QED BY <1>2, Stays

\* The tables that later upgrades refer to.
LEMMA ParentsThere ==
  ASSUME NEW n \in 0..HeadRev, Done(n)
  PROVE  /\ n >= 1 => Table("bid_pipeline") \in SchemaAt[n] /\ SetUpdatedAt \in SchemaAt[n]
         /\ n >= 5 => Table("notice_spec_items") \in SchemaAt[n]
         /\ n >= 6 => Table("notice_exports") \in SchemaAt[n]
<1>1. \A t : Table(t)[1] # "trigger" /\ Table(t) \notin OldKinds
  BY ObjectFacts, OldKindFacts
<1>2. n \in Nat /\ n <= 13
  BY Revisions
<1>3. ASSUME n >= 1 PROVE Table("bid_pipeline") \in SchemaAt[n] /\ SetUpdatedAt \in SchemaAt[n]
  <2>1. /\ 1 \in 1..n /\ Up[1] = Up0001 /\ 1 \in 1..Len(Up0001) /\ Up0001[1].sql = "create"
        /\ Table("bid_pipeline") \in Up0001[1].objects
    BY <1>2, <1>3, UpNames DEF Up0001, Create
  <2>2. Table("bid_pipeline") \in SchemaAt[n]
    BY <1>1, <2>1, StillThere
  <2>3. 2 \in 1..Len(Up0001) /\ Up0001[2] = CreateIfMissing({SetUpdatedAt})
    BY DEF Up0001, SetUpdatedAt
  <2>4. SetUpdatedAt \in Built(Up[1])
    <3>1. Up0001[2].sql = "create if missing" /\ Up0001[2].objects = {SetUpdatedAt}
      BY <2>3, IfMissingReads, Zenon
    <3>. QED BY <2>1, <2>3, <3>1 DEF Built
  <2>5. SetUpdatedAt[1] # "trigger" /\ SetUpdatedAt \notin OldKinds
    BY ObjectFacts, OldKindFacts
  <2>6. SetUpdatedAt \in SchemaAt[1]
    BY <2>1, <2>4, <2>5, ChainGrows
  <2>7. SetUpdatedAt \in SchemaAt[n]
    BY <2>1, <2>5, <2>6, Stays
  <2>. QED BY <2>2, <2>7
<1>4. ASSUME n >= 5 PROVE Table("notice_spec_items") \in SchemaAt[n]
  <2>1. /\ 5 \in 1..n /\ Up[5] = Up0005 /\ 1 \in 1..Len(Up0005) /\ Up0005[1].sql = "create"
        /\ Table("notice_spec_items") \in Up0005[1].objects
    BY <1>2, <1>4, UpNames, Statements0005 DEF Creates
  <2>. QED BY <1>1, <2>1, StillThere
<1>5. ASSUME n >= 6 PROVE Table("notice_exports") \in SchemaAt[n]
  <2>1. /\ 6 \in 1..n /\ Up[6] = Up0006 /\ 2 \in 1..Len(Up0006) /\ Up0006[2].sql = "create"
        /\ Table("notice_exports") \in Up0006[2].objects
    BY <1>2, <1>5, UpNames, Statements0006 DEF Creates
  <2>. QED BY <1>1, <2>1, StillThere
<1>. QED BY <1>3, <1>4, <1>5

\* A revision that can follow those before it.
Follows(k) == Done(k - 1) /\ Fine(SchemaAt[k - 1]) => Passes(Up[k], Down[k], SchemaAt[k - 1])

\* 0005 creates the spec items.
LEMMA Follows0005 == Follows(5)
<1>. DEFINE s == SchemaAt[4]
<1>. SUFFICES ASSUME Done(4), Fine(s) PROVE Passes(Up0005, Down0005, s)
  BY UpNames, DownNames DEF Follows
<1>1. Len(Down0005) = 1 /\ Down0005[1] = DropTable("notice_spec_items")
  BY DEF Down0005
<1>2. Inverse(Up0005[1], Down0005[1])
  BY <1>1, Statements0005 DEF Inverse
<1>3. 4 \in 0..HeadRev /\ \A k \in 1..4 : k = 1 \/ k = 2 \/ k = 3 \/ k = 4
  BY Revisions
<1>4. Table("bid_pipeline") \in s
  BY <1>3, ParentsThere
<1>5. Table("notice_spec_items") \notin s
  <2>1. \A k \in 1..4 : "notice_spec_items" \notin Owners(k)
    BY <1>3 DEF Owners, NoticeOwners, OntologyOwners
  <2>. QED BY <1>3, <2>1, NotYet
<1>. HIDE DEF s
<1>6. ASSUME NEW rows, Guests(rows, s) PROVE Welcome(Up0005, 1, s, rows)
  <2>1. Housed(rows, s) /\ Creates(Up0005[1], "notice_spec_items") /\ 1..(1 - 1) = {}
    BY <1>6, Statements0005 DEF Guests
  <2>2. \A o \in Up0005[1].objects : o[1] = "ref" => Table(o[4]) \in s
    BY <1>4, WorkRefers DEF RefersTo
  <2>. QED BY <1>5, <2>1, <2>2, TableWelcome
<1>7. \A i \in 1..1 : i = 1
  OBVIOUS
<1>8. /\ \A i \in 1..1 : Inverse(Up0005[i], Down0005[1 + 1 - i])
      /\ \A rows : Guests(rows, s) => \A i \in 1..1 : Welcome(Up0005, i, s, rows)
  BY <1>2, <1>6, <1>7
<1>. QED BY <1>1, <1>8, Statements0005, UpAndDown

\* 0011 creates the required documents.
LEMMA Follows0011 == Follows(12)
<1>. DEFINE s == SchemaAt[11]
<1>. SUFFICES ASSUME Done(11), Fine(s) PROVE Passes(Up0011, Down0011, s)
  BY UpNames, DownNames DEF Follows
<1>1. Len(Down0011) = 1 /\ Down0011[1] = DropTable("notice_required_documents")
  BY DEF Down0011
<1>2. Inverse(Up0011[1], Down0011[1])
  BY <1>1, Statements0011 DEF Inverse
<1>3. 11 \in 0..HeadRev /\ \A k \in 1..11 : k <= 11
  BY Revisions
<1>4. Table("bid_pipeline") \in s
  BY <1>3, ParentsThere
<1>5. Table("notice_required_documents") \notin s
  <2>1. \A k \in 1..11 : "notice_required_documents" \notin Owners(k)
    BY <1>3 DEF Owners, NoticeOwners, OntologyOwners, ReviewOwners, SourceOwners, HwpOwners
  <2>. QED BY <1>3, <2>1, NotYet
<1>. HIDE DEF s
<1>6. ASSUME NEW rows, Guests(rows, s) PROVE Welcome(Up0011, 1, s, rows)
  <2>1. Housed(rows, s) /\ Creates(Up0011[1], "notice_required_documents") /\ 1..(1 - 1) = {}
    BY <1>6, Statements0011 DEF Guests
  <2>2. \A o \in Up0011[1].objects : o[1] = "ref" => Table(o[4]) \in s
    BY <1>4, WorkRefers DEF RefersTo
  <2>. QED BY <1>5, <2>1, <2>2, TableWelcome
<1>7. \A i \in 1..1 : i = 1
  OBVIOUS
<1>8. /\ \A i \in 1..1 : Inverse(Up0011[i], Down0011[1 + 1 - i])
      /\ \A rows : Guests(rows, s) => \A i \in 1..1 : Welcome(Up0011, i, s, rows)
  BY <1>2, <1>6, <1>7
<1>. QED BY <1>1, <1>8, Statements0011, UpAndDown

\* 0010b does nothing.
LEMMA Follows0010b == Follows(11)
<1>. DEFINE s == SchemaAt[10]
<1>. SUFFICES ASSUME Fine(s) PROVE Passes(Up0010b, Down0010b, s)
  BY UpNames, DownNames DEF Follows
<1>1. Len(Up0010b) = 0 /\ Len(Down0010b) = 0 /\ 1..0 = {}
  BY DEF Up0010b, Down0010b
<1>. QED BY <1>1, UpAndDown

\* The first statements of u create the tables T, none of which s has, and
\* refer to tables P of s or of earlier statements.
Tables(u, T, P, s, n) ==
  \A i \in 1..n : /\ Creates(u[i], T[i]) /\ Table(T[i]) \notin s
                  /\ RefersTo(u[i].objects, P[i])
                  /\ \A p \in P[i] : Table(p) \in s \/ \E j \in 1..(i - 1) : p = T[j]
                  /\ \A j \in 1..(i - 1) : T[j] # T[i]

\* Such statements are welcome.
LEMMA TablesWelcome ==
  ASSUME NEW u, NEW T, NEW P, NEW s, NEW n \in Nat, NEW rows, Fine(s), Housed(rows, s),
         Tables(u, T, P, s, n)
  PROVE  \A i \in 1..n : Welcome(u, i, s, rows)
<1>. SUFFICES ASSUME NEW i \in 1..n PROVE Welcome(u, i, s, rows)
  OBVIOUS
<1>1. /\ Creates(u[i], T[i]) /\ Table(T[i]) \notin s /\ RefersTo(u[i].objects, P[i])
      /\ \A p \in P[i] : Table(p) \in s \/ \E j \in 1..(i - 1) : p = T[j]
      /\ \A j \in 1..(i - 1) : j \in 1..n /\ Creates(u[j], T[j]) /\ T[j] # T[i]
  BY DEF Tables
<1>2. \A j \in 1..(i - 1) : Table(T[j]) \in u[j].objects /\ \A o \in u[j].objects : o[2] # T[i]
  BY <1>1 DEF Creates
<1>3. \A o \in u[i].objects : o[1] = "ref" =>
        Table(o[4]) \in s \/ \E j \in 1..(i - 1) : Table(o[4]) \in u[j].objects
  BY <1>1, <1>2 DEF RefersTo
<1>4. i \in Nat \ {0}
  OBVIOUS
<1>. QED BY <1>1, <1>2, <1>3, <1>4, TableWelcome

\* 0009 creates the tables of the HWP work.
LEMMA Follows0009 == Follows(9)
<1>. DEFINE s == SchemaAt[8]
            T == <<"company_profiles", "hwp_templates", "document_field_mappings",
                   "hwp_generation_jobs">>
            P == <<{}, {}, {"hwp_templates"}, {"bid_pipeline", "hwp_templates", "notice_exports"}>>
<1>. SUFFICES ASSUME Done(8), Fine(s) PROVE Passes(Up0009, Down0009, s)
  BY UpNames, DownNames DEF Follows
<1>1. /\ Len(Down0009) = 4
      /\ Down0009[4] = DropTable("company_profiles")
      /\ Down0009[3] = DropTable("hwp_templates")
      /\ Down0009[2] = DropTable("document_field_mappings")
      /\ Down0009[1] = DropTable("hwp_generation_jobs")
  BY DEF Down0009
<1>2. /\ Inverse(Up0009[1], Down0009[4])
      /\ Inverse(Up0009[2], Down0009[3])
      /\ Inverse(Up0009[3], Down0009[2])
      /\ Inverse(Up0009[4], Down0009[1])
  BY <1>1, Statements0009 DEF Inverse
<1>3. \A i \in 1..4 : Inverse(Up0009[i], Down0009[4 + 1 - i])
  BY <1>2
<1>4. 8 \in 0..HeadRev /\ \A k \in 1..8 : k <= 8
  BY Revisions
<1>5. Table("bid_pipeline") \in s /\ Table("notice_exports") \in s
  BY <1>4, ParentsThere
<1>6. \A t \in HwpOwners : Table(t) \notin s
  <2>1. \A t \in HwpOwners : \A k \in 1..8 : t \notin Owners(k)
    BY <1>4 DEF Owners, NoticeOwners, OntologyOwners, ReviewOwners, SourceOwners, HwpOwners
  <2>. QED BY <1>4, <2>1, NotYet
<1>. HIDE DEF s
<1>7. Tables(Up0009, T, P, s, 4)
  <2>1. \A i \in 1..4 : i = 1 \/ i = 2 \/ i = 3 \/ i = 4
    OBVIOUS
  <2>2. \A i \in 1..4 : Creates(Up0009[i], T[i]) /\ RefersTo(Up0009[i].objects, P[i])
    BY <2>1, Statements0009, HwpRefers
  <2>3. \A i \in 1..4 : T[i] \in HwpOwners /\ \A j \in 1..(i - 1) : T[j] # T[i]
    BY <2>1 DEF HwpOwners
  <2>4. \A i \in 1..4 : \A p \in P[i] : Table(p) \in s \/ \E j \in 1..(i - 1) : p = T[j]
    <3>1. 2 \in 1..(3 - 1) /\ 2 \in 1..(4 - 1) /\ T[2] = "hwp_templates"
      OBVIOUS
    <3>. QED BY <1>5, <2>1, <3>1
  <2>. HIDE DEF T, P
  <2>. QED BY <1>6, <2>2, <2>3, <2>4 DEF Tables
<1>8. \A rows : Guests(rows, s) => \A i \in 1..4 : Welcome(Up0009, i, s, rows)
  <2>. HIDE DEF T, P
  <2>. QED BY <1>7, TablesWelcome DEF Guests
<1>. QED BY <1>1, <1>3, <1>8, Statements0009, UpAndDown

\* 0012 creates the library, the requirements and what hangs on them.
LEMMA Follows0012 == Follows(13)
<1>. DEFINE s == SchemaAt[12]
            T == <<"proposal_documents", "document_chunks", "project_performances",
                   "notice_requirements", "requirement_evidences", "proposal_sections">>
            P == <<{}, {"proposal_documents"}, {"proposal_documents"}, {"bid_pipeline"},
                   {"notice_requirements", "proposal_documents", "document_chunks",
                    "project_performances"},
                   {"bid_pipeline"}>>
<1>. SUFFICES ASSUME Done(12), Fine(s) PROVE Passes(Up0012, Down0012, s)
  BY UpNames, DownNames DEF Follows
<1>1. /\ Len(Down0012) = 6
      /\ Down0012[1] = DropTable("proposal_sections")
      /\ Down0012[2] = DropTable("requirement_evidences")
      /\ Down0012[3] = DropTable("notice_requirements")
      /\ Down0012[4] = DropTable("project_performances")
      /\ Down0012[5] = DropTable("document_chunks")
      /\ Down0012[6] = DropTable("proposal_documents")
  BY DEF Down0012
<1>2. /\ Inverse(Up0012[1], Down0012[6]) /\ Inverse(Up0012[2], Down0012[5])
      /\ Inverse(Up0012[3], Down0012[4]) /\ Inverse(Up0012[4], Down0012[3])
      /\ Inverse(Up0012[5], Down0012[2]) /\ Inverse(Up0012[6], Down0012[1])
  BY <1>1, Up0012Facts, LibraryBelongs DEF Inverse
<1>3. \A i \in 1..6 : Inverse(Up0012[i], Down0012[6 + 1 - i])
  BY <1>2
<1>4. 12 \in 0..HeadRev /\ \A k \in 1..12 : k <= 12
  BY Revisions
<1>5. Table("bid_pipeline") \in s
  BY <1>4, ParentsThere
<1>6. \A t \in ProposalOwners : Table(t) \notin s
  <2>1. \A t \in ProposalOwners : \A k \in 1..12 : t \notin Owners(k)
    BY <1>4 DEF Owners, NoticeOwners, OntologyOwners, ReviewOwners, SourceOwners, HwpOwners,
                ProposalOwners
  <2>. QED BY <1>4, <2>1, NotYet
<1>. HIDE DEF s
<1>7. Tables(Up0012, T, P, s, 6)
  <2>1. \A i \in 1..6 : i = 1 \/ i = 2 \/ i = 3 \/ i = 4 \/ i = 5 \/ i = 6
    OBVIOUS
  <2>2. \A i \in 1..6 : Creates(Up0012[i], T[i]) /\ RefersTo(Up0012[i].objects, P[i])
    <3>1. /\ Creates(Up0012[1], T[1]) /\ Creates(Up0012[2], T[2]) /\ Creates(Up0012[3], T[3])
          /\ Creates(Up0012[4], T[4]) /\ Creates(Up0012[5], T[5]) /\ Creates(Up0012[6], T[6])
      BY Up0012Facts, LibraryBelongs
    <3>2. /\ RefersTo(Up0012[1].objects, P[1]) /\ RefersTo(Up0012[2].objects, P[2])
          /\ RefersTo(Up0012[3].objects, P[3]) /\ RefersTo(Up0012[4].objects, P[4])
          /\ RefersTo(Up0012[5].objects, P[5]) /\ RefersTo(Up0012[6].objects, P[6])
      BY Up0012Facts, ProposalRefers
    <3>. HIDE DEF T, P
    <3>. QED BY <2>1, <3>1, <3>2
  <2>3. \A i \in 1..6 : T[i] \in ProposalOwners /\ \A j \in 1..(i - 1) : T[j] # T[i]
    BY <2>1 DEF ProposalOwners
  <2>4. \A i \in 1..6 : \A p \in P[i] : Table(p) \in s \/ \E j \in 1..(i - 1) : p = T[j]
    <3>1. /\ 1 \in 1..(2 - 1) /\ 1 \in 1..(3 - 1)
          /\ 1 \in 1..(5 - 1) /\ 2 \in 1..(5 - 1) /\ 3 \in 1..(5 - 1) /\ 4 \in 1..(5 - 1)
          /\ T[1] = "proposal_documents" /\ T[2] = "document_chunks"
          /\ T[3] = "project_performances" /\ T[4] = "notice_requirements"
      OBVIOUS
    <3>. QED BY <1>5, <2>1, <3>1
  <2>. HIDE DEF T, P
  <2>. QED BY <1>6, <2>2, <2>3, <2>4 DEF Tables
<1>8. \A rows : Guests(rows, s) => \A i \in 1..6 : Welcome(Up0012, i, s, rows)
  <2>. HIDE DEF T, P
  <2>. QED BY <1>7, TablesWelcome DEF Guests
<1>. QED BY <1>1, <1>3, <1>8, Up0012Facts, UpAndDown

\* Which parts the scripts add to the spec items and the exports.
LEMMA PartNames ==
  /\ \A o \in Built(Up0005) : o[1] # "column" /\ (o[1] = "domain" => o[3] = "status")
  /\ \A o \in Built(Up0006) :
       /\ o[1] = "column" => o \in ReviewColumns
       /\ o[1] = "domain" => o[2] # "notice_spec_items"
       /\ o[1] = "domain" /\ o[2] = "notice_exports" => o \in OldKinds
  /\ \A o \in Built(Up0008) : o[1] = "domain" => o \in Quality
<1>1. ASSUME NEW o \in Built(Up0005) PROVE o[1] # "column" /\ (o[1] = "domain" => o[3] = "status")
  <2>1. o \in Up0005[1].objects
    <3>1. \A i \in 1..1 : i = 1
      OBVIOUS
    <3>. QED BY <3>1, Statements0005 DEF Built
  <2>. QED BY <2>1 DEF Up0005, Create, Table, ByNotice, Ref, Domain, Indexes, Index
<1>2. ASSUME NEW o \in Built(Up0006)
      PROVE  /\ o[1] = "column" => o \in ReviewColumns
             /\ o[1] = "domain" => o[2] # "notice_spec_items"
             /\ o[1] = "domain" /\ o[2] = "notice_exports" => o \in OldKinds
  <2>1. o \in ReviewColumns \/ o \in Up0006[2].objects \/ o \in Up0006[3].objects
    <3>1. \A i \in 1..3 : i = 1 \/ i = 2 \/ i = 3
      OBVIOUS
    <3>2. Up0006[1].objects = ReviewColumns
      BY Statements0006 DEF Create, Drop
    <3>. QED BY <3>1, <3>2, Statements0006 DEF Built
  <2>2. CASE o \in ReviewColumns
    BY <2>2, MildFacts DEF ReviewColumns
  <2>3. CASE o \in Up0006[2].objects
    BY <2>3 DEF Up0006, Create, Table, ByNotice, Ref, Domain, Indexes, Index, OldKinds
  <2>4. CASE o \in Up0006[3].objects
    BY <2>4 DEF Up0006, Create, Table, ByNotice, Ref, Domain, Indexes, Index
  <2>. QED BY <2>1, <2>2, <2>3, <2>4
<1>3. ASSUME NEW o \in Built(Up0008) PROVE o[1] = "domain" => o \in Quality
  <2>1. o \in QualityColumns \/ o \in Quality
    <3>1. \A i \in 1..2 : i = 1 \/ i = 2
      OBVIOUS
    <3>2. Up0008[1].objects = QualityColumns
      BY Statements0008 DEF Create, Drop
    <3>3. Up0008[2].objects = Quality
      BY Statements0008 DEF Create, Drop
    <3>. QED BY <3>1, <3>2, <3>3, Statements0008 DEF Built
  <2>. QED BY <2>1, MildFacts DEF QualityColumns
<1>. QED BY <1>1, <1>2, <1>3

\* Rows always fit what has no domain, and the guests the three that come later.
LEMMA FitFacts ==
  /\ \A r, X : (\A o \in X : o[1] # "domain") => Fits(r, X)
  /\ \A rows, s : Guests(rows, s) =>
       \A r \in rows : Fits(r, Priority) /\ Fits(r, Quality) /\ Fits(r, NewKinds)
BY DEF Fits, Of, Guests, Fitted

\* The parts that are added have these kinds and names.
LEMMA AddedParts ==
  /\ \A o \in ReviewColumns : /\ o[1] = "column" /\ o[2] = "notice_spec_items"
                              /\ o[3] \in {"note", "reviewed_by", "reviewed_at", "locked_fields"}
  /\ \A o \in SourceColumns : /\ o[1] = "column" /\ o[2] = "notice_spec_items"
                              /\ o[3] \in {"source_text", "source_file_name", "source_page",
                                           "review_priority"}
  /\ \A o \in QualityColumns : o[1] = "column" /\ o[2] = "notice_exports"
  /\ \A o \in Priority : /\ o[1] = "domain" /\ o[2] = "notice_spec_items"
                         /\ o[3] = "review_priority"
  /\ \A o \in Quality : /\ o[1] = "domain" /\ o[2] = "notice_exports"
                        /\ o[3] = "validation_status"
  /\ \A o \in OldKinds \cup NewKinds : o[1] = "domain" /\ o[2] = "notice_exports" /\ o[3] = "kind"
BY DEF ReviewColumns, SourceColumns, QualityColumns, Priority, Quality, OldKinds, NewKinds,
       Columns, Column, Domain

\* Up to 0009, what is in the schema of the spec items and the exports.
LEMMA PartsSoFar ==
  ASSUME NEW n \in 0..9, Done(n), NEW o \in SchemaAt[n]
  PROVE  /\ o[2] = "notice_spec_items" =>
              \/ n >= 5 /\ o \in Built(Up0005)
              \/ n >= 6 /\ o \in Built(Up0006)
              \/ n >= 7 /\ o \in Built(Up0007)
         /\ o[2] = "notice_exports" =>
              \/ n >= 6 /\ o \in Built(Up0006)
              \/ n >= 8 /\ o \in Built(Up0008)
<1>1. n \in 0..HeadRev /\ \A k \in 1..n : k \in 1..9 /\ k <= n
  BY Revisions
<1>2. PICK k \in 1..n : o \in Built(Up[k]) /\ o[2] \in Owners(k)
  BY <1>1, MadeOf
<1>3. \/ k = 1 \/ k = 2 \/ k = 3 \/ k = 4 \/ k = 5 \/ k = 6 \/ k = 7 \/ k = 8 \/ k = 9
  BY <1>1
<1>4. /\ \A j \in {1, 2, 3, 4, 8, 9} : "notice_spec_items" \notin Owners(j)
      /\ \A j \in {1, 2, 3, 4, 5, 7, 9} : "notice_exports" \notin Owners(j)
  BY DEF Owners, NoticeOwners, OntologyOwners, ReviewOwners, SourceOwners, HwpOwners
<1>5. o[2] = "notice_spec_items" => k = 5 \/ k = 6 \/ k = 7
  BY <1>2, <1>3, <1>4
<1>6. o[2] = "notice_exports" => k = 6 \/ k = 8
  BY <1>2, <1>3, <1>4
<1>7. n >= k
  BY <1>1
<1>. QED BY <1>2, <1>5, <1>6, <1>7, UpNames

\* 0006 adds the review columns and creates exports and errors.
LEMMA Follows0006 == Follows(6)
<1>. DEFINE s == SchemaAt[5]
<1>. SUFFICES ASSUME Done(5), Fine(s) PROVE Passes(Up0006, Down0006, s)
  BY UpNames, DownNames DEF Follows
<1>1. /\ Len(Down0006) = 3
      /\ Down0006[3] = Drop(ReviewColumns)
      /\ Down0006[2] = DropTable("notice_exports")
      /\ Down0006[1] = DropTable("notice_errors")
  BY DEF Down0006
<1>2. /\ Inverse(Up0006[1], Down0006[3])
      /\ Inverse(Up0006[2], Down0006[2])
      /\ Inverse(Up0006[3], Down0006[1])
  BY <1>1, Statements0006, PartInverse DEF Inverse
<1>3. \A i \in 1..3 : Inverse(Up0006[i], Down0006[3 + 1 - i])
  BY <1>2
<1>4. 5 \in 0..HeadRev /\ 5 \in 0..9 /\ \A k \in 1..5 : k <= 5
  BY Revisions
<1>5. Table("bid_pipeline") \in s /\ Table("notice_spec_items") \in s
  BY <1>4, ParentsThere
<1>6. Table("notice_exports") \notin s /\ Table("notice_errors") \notin s
  <2>1. \A k \in 1..5 : "notice_exports" \notin Owners(k)
    BY <1>4 DEF Owners, NoticeOwners, OntologyOwners
  <2>2. \A k \in 1..5 : "notice_errors" \notin Owners(k)
    BY <1>4 DEF Owners, NoticeOwners, OntologyOwners
  <2>. QED BY <1>4, <2>1, <2>2, NotYet
<1>7. \A o \in ReviewColumns : o \notin s
  BY <1>4, AddedParts, PartNames, PartsSoFar
<1>. HIDE DEF s
<1>8. ASSUME NEW rows, Guests(rows, s) PROVE \A i \in 1..3 : Welcome(Up0006, i, s, rows)
  <2>1. Housed(rows, s) /\ 1..(1 - 1) = {} /\ (\A j \in 1..(2 - 1) : j = 1)
        /\ \A j \in 1..(3 - 1) : j = 1 \/ j = 2
    BY <1>8 DEF Guests
  <2>2. Welcome(Up0006, 1, s, rows)
    <3>1. \A o \in ReviewColumns : o[1] # "ref" /\ o \notin s /\ \A j \in 1..(1 - 1) : o \notin Up0006[j].objects
      BY <1>7, <2>1, AddedParts
    <3>2. \A r \in rows : Fits(r, ReviewColumns)
      BY AddedParts, FitFacts
    <3>. QED BY <1>5, <3>1, <3>2, Statements0006, PartWelcome
  <2>3. \A o \in Up0006[1].objects : o[2] = "notice_spec_items"
    <3>1. Up0006[1].objects = ReviewColumns
      BY Statements0006 DEF Create, Drop
    <3>. QED BY <3>1, AddedParts
  <2>4. Welcome(Up0006, 2, s, rows)
    <3>1. \A o \in Up0006[2].objects : o[1] = "ref" => Table(o[4]) \in s
      BY <1>5, WorkRefers DEF RefersTo
    <3>2. \A j \in 1..(2 - 1) : \A o \in Up0006[j].objects : o[2] # "notice_exports"
      BY <2>1, <2>3
    <3>. QED BY <1>6, <2>1, <3>1, <3>2, Statements0006, TableWelcome
  <2>5. Welcome(Up0006, 3, s, rows)
    <3>1. \A o \in Up0006[3].objects : o[1] = "ref" => Table(o[4]) \in s
      BY <1>5, WorkRefers DEF RefersTo
    <3>2. \A o \in Up0006[2].objects : o[2] = "notice_exports"
      BY Statements0006 DEF Creates
    <3>3. \A j \in 1..(3 - 1) : \A o \in Up0006[j].objects : o[2] # "notice_errors"
      BY <2>1, <2>3, <3>2
    <3>. QED BY <1>6, <2>1, <3>1, <3>3, Statements0006, TableWelcome
  <2>6. \A i \in 1..3 : i = 1 \/ i = 2 \/ i = 3
    OBVIOUS
  <2>. QED BY <2>2, <2>4, <2>5, <2>6
<1>. QED BY <1>1, <1>3, <1>8, Statements0006, UpAndDown

\* 0007 adds the sources and priorities of the spec items and the fetch tables.
LEMMA Follows0007 == Follows(7)
<1>. DEFINE s == SchemaAt[6]
            New == {"attachment_fetch_jobs", "attachment_fetch_files"}
<1>. SUFFICES ASSUME Done(6), Fine(s) PROVE Passes(Up0007, Down0007, s)
  BY UpNames, DownNames DEF Follows
<1>1. /\ Len(Down0007) = 4
      /\ Down0007[4] = Drop(SourceColumns) /\ Down0007[3] = Drop(Priority)
      /\ Down0007[2] = DropTable("attachment_fetch_jobs")
      /\ Down0007[1] = DropTable("attachment_fetch_files")
  BY DEF Down0007
<1>2. /\ Inverse(Up0007[1], Down0007[4]) /\ Inverse(Up0007[2], Down0007[3])
      /\ Inverse(Up0007[3], Down0007[2]) /\ Inverse(Up0007[4], Down0007[1])
  BY <1>1, Statements0007, PartInverse DEF Inverse
<1>3. \A i \in 1..4 : Inverse(Up0007[i], Down0007[4 + 1 - i])
  BY <1>2
<1>4. 6 \in 0..HeadRev /\ 6 \in 0..9 /\ \A k \in 1..6 : k <= 6
  BY Revisions
<1>5. Table("bid_pipeline") \in s /\ Table("notice_spec_items") \in s
  BY <1>4, ParentsThere
<1>6. \A t \in New : Table(t) \notin s
  <2>1. \A t \in New : \A k \in 1..6 : t \notin Owners(k)
    BY <1>4 DEF Owners, NoticeOwners, OntologyOwners, ReviewOwners
  <2>. QED BY <1>4, <2>1, NotYet
<1>7. \A o \in SourceColumns \cup Priority : o \notin s
  BY <1>4, AddedParts, PartNames, PartsSoFar
<1>. HIDE DEF s
<1>8. ASSUME NEW rows, Guests(rows, s) PROVE \A i \in 1..4 : Welcome(Up0007, i, s, rows)
  <2>1. Housed(rows, s) /\ 1..(1 - 1) = {} /\ (\A j \in 1..(2 - 1) : j = 1)
        /\ (\A j \in 1..(3 - 1) : j = 1 \/ j = 2) /\ (\A j \in 1..(4 - 1) : j = 1 \/ j = 2 \/ j = 3)
    BY <1>8 DEF Guests
  <2>2. Up0007[1].objects = SourceColumns /\ Up0007[2].objects = Priority
    <3>1. Up0007[1].objects = SourceColumns
      BY Statements0007 DEF Create, Drop
    <3>2. Up0007[2].objects = Priority
      BY Statements0007 DEF Create, Drop
    <3>. QED BY <3>1, <3>2
  <2>3. Welcome(Up0007, 1, s, rows)
    <3>1. \A o \in SourceColumns :
            o[1] # "ref" /\ o \notin s /\ \A j \in 1..(1 - 1) : o \notin Up0007[j].objects
      BY <1>7, <2>1, AddedParts
    <3>2. \A r \in rows : Fits(r, SourceColumns)
      BY AddedParts, FitFacts
    <3>. QED BY <1>5, <3>1, <3>2, Statements0007, PartWelcome
  <2>4. Welcome(Up0007, 2, s, rows)
    <3>1. \A o \in Priority :
            o[1] # "ref" /\ o \notin s /\ \A j \in 1..(2 - 1) : o \notin Up0007[j].objects
      BY <1>7, <2>1, <2>2, AddedParts
    <3>2. \A r \in rows : Fits(r, Priority)
      BY <1>8, FitFacts
    <3>. QED BY <1>5, <3>1, <3>2, Statements0007, PartWelcome
  <2>5. \A o \in Up0007[1].objects \cup Up0007[2].objects : o[2] = "notice_spec_items"
    BY <2>2, AddedParts
  <2>6. Welcome(Up0007, 3, s, rows)
    <3>1. \A o \in Up0007[3].objects : o[1] = "ref" => Table(o[4]) \in s
      BY <1>5, WorkRefers DEF RefersTo
    <3>2. \A j \in 1..(3 - 1) : \A o \in Up0007[j].objects : o[2] # "attachment_fetch_jobs"
      BY <2>1, <2>5
    <3>. QED BY <1>6, <2>1, <3>1, <3>2, Statements0007, TableWelcome
  <2>7. Welcome(Up0007, 4, s, rows)
    <3>1. /\ Table("attachment_fetch_jobs") \in Up0007[3].objects
          /\ \A o \in Up0007[3].objects : o[2] = "attachment_fetch_jobs"
      BY Statements0007 DEF Creates
    <3>2. 3 \in 1..(4 - 1)
      OBVIOUS
    <3>3. \A o \in Up0007[4].objects : o[1] = "ref" =>
            Table(o[4]) \in s \/ \E j \in 1..(4 - 1) : Table(o[4]) \in Up0007[j].objects
      BY <1>5, <3>1, <3>2, WorkRefers DEF RefersTo
    <3>4. \A j \in 1..(4 - 1) : \A o \in Up0007[j].objects : o[2] # "attachment_fetch_files"
      BY <2>1, <2>5, <3>1
    <3>. QED BY <1>6, <2>1, <3>3, <3>4, Statements0007, TableWelcome
  <2>8. \A i \in 1..4 : i = 1 \/ i = 2 \/ i = 3 \/ i = 4
    OBVIOUS
  <2>. QED BY <2>3, <2>4, <2>6, <2>7, <2>8
<1>. QED BY <1>1, <1>3, <1>8, Statements0007, UpAndDown

\* 0008 adds what the exports' validation has found.
LEMMA Follows0008 == Follows(8)
<1>. DEFINE s == SchemaAt[7]
<1>. SUFFICES ASSUME Done(7), Fine(s) PROVE Passes(Up0008, Down0008, s)
  BY UpNames, DownNames DEF Follows
<1>1. Len(Down0008) = 2 /\ Down0008[2] = Drop(QualityColumns) /\ Down0008[1] = Drop(Quality)
  BY DEF Down0008
<1>2. Inverse(Up0008[1], Down0008[2]) /\ Inverse(Up0008[2], Down0008[1])
  BY <1>1, Statements0008, PartInverse
<1>3. \A i \in 1..2 : Inverse(Up0008[i], Down0008[2 + 1 - i])
  BY <1>2
<1>4. 7 \in 0..HeadRev /\ 7 \in 0..9
  BY Revisions
<1>5. Table("notice_exports") \in s
  BY <1>4, ParentsThere
<1>6. \A o \in QualityColumns \cup Quality : o \notin s
  <2>1. \A o \in s : o[2] = "notice_exports" => o \in Built(Up0006)
    BY <1>4, PartsSoFar
  <2>2. \A o \in s : o[2] = "notice_exports" => o[1] # "column"
    BY <2>1, AddedParts, PartNames
  <2>3. \A o \in s : o[2] = "notice_exports" /\ o[1] = "domain" => o[3] = "kind"
    BY <2>1, AddedParts, PartNames
  <2>. QED BY <2>2, <2>3, AddedParts
<1>. HIDE DEF s
<1>7. ASSUME NEW rows, Guests(rows, s) PROVE \A i \in 1..2 : Welcome(Up0008, i, s, rows)
  <2>1. 1..(1 - 1) = {} /\ \A j \in 1..(2 - 1) : j = 1
    OBVIOUS
  <2>2. Up0008[1].objects = QualityColumns
    BY Statements0008 DEF Create, Drop
  <2>3. Welcome(Up0008, 1, s, rows)
    <3>1. \A o \in QualityColumns :
            o[1] # "ref" /\ o \notin s /\ \A j \in 1..(1 - 1) : o \notin Up0008[j].objects
      BY <1>6, <2>1, AddedParts
    <3>2. \A r \in rows : Fits(r, QualityColumns)
      BY AddedParts, FitFacts
    <3>. QED BY <1>5, <3>1, <3>2, Statements0008, PartWelcome
  <2>4. Welcome(Up0008, 2, s, rows)
    <3>1. \A o \in Quality :
            o[1] # "ref" /\ o \notin s /\ \A j \in 1..(2 - 1) : o \notin Up0008[j].objects
      BY <1>6, <2>1, <2>2, AddedParts
    <3>2. \A r \in rows : Fits(r, Quality)
      BY <1>7, FitFacts
    <3>. QED BY <1>5, <3>1, <3>2, Statements0008, PartWelcome
  <2>5. \A i \in 1..2 : i = 1 \/ i = 2
    OBVIOUS
  <2>. QED BY <2>3, <2>4, <2>5
<1>. QED BY <1>1, <1>3, <1>7, Statements0008, UpAndDown

\* 0004 only fills in dates, which nothing can hold up.
LEMMA Follows0004 == Follows(4)
<1>. DEFINE s == SchemaAt[3]
<1>. SUFFICES ASSUME Fine(s) PROVE Passes(Up0004, Down0004, s)
  BY UpNames, DownNames DEF Follows
<1>. HIDE DEF s
<1>1. Len(Up0004) = 1 /\ Up0004[1] = Backfill /\ Len(Down0004) = 0 /\ 1..0 = {}
  BY DEF Up0004, Down0004
<1>2. ASSUME NEW rows PROVE Ran(Up0004, s, rows).ok /\ Ran(Up0004, s, rows).schema = s
  <2>1. PICK run : IsRun(run, Up0004, s, rows) /\ Ran(Up0004, s, rows) = run[1]
    BY <1>1, RanFacts
  <2>2. /\ run[0] = [ok |-> TRUE, schema |-> s, rows |-> rows]
        /\ run[1] = Executed(Backfill, run[0])
    BY <1>1, <2>1 DEF IsRun
  <2>3. IsResult(run[0]) /\ run[0].ok /\ run[0].schema = s
    BY <2>2 DEF IsResult
  <2>4. Legal(Backfill, s, run[0].rows)
    BY ObjectFacts DEF Legal
  <2>5. After(Backfill, s) = s
    BY ObjectFacts DEF After, Of
  <2>. QED BY <2>1, <2>2, <2>3, <2>4, <2>5, ExecutedFacts
<1>3. ASSUME NEW rows PROVE Ran(Down0004, s, rows).ok
  <2>. DEFINE m == [i \in 0..0 |-> s]
  <2>1. m[0] = s
    OBVIOUS
  <2>. HIDE DEF m
  <2>2. Len(Down0004) \in Nat /\ \A i \in 1..Len(Down0004) : FALSE
    BY <1>1
  <2>3. Ran(Down0004, m[0], rows).ok
    BY <2>2, RunsWell
  <2>. QED BY <2>1, <2>3
<1>. QED BY <1>2, <1>3 DEF Passes

\* A script that exchanges CHECKs of one table, where the rows fit the new ones.
LEMMA Swapped ==
  ASSUME NEW script, NEW old, NEW new, NEW t, NEW s, NEW rows, Fine(s), Table(t) \in s,
         \A o \in old \cup new : o[1] = "domain" /\ o[2] = t,
         Len(script) = 2, script[1] = Drop(old), script[2] = Create(new),
         old \subseteq s, new \cap (s \ old) = {}, \A r \in rows : Fits(r, new)
  PROVE  /\ Ran(script, s, rows).ok
         /\ Ran(script, s, rows).schema = (s \ old) \cup new
         /\ Fine((s \ old) \cup new)
<1>. DEFINE m == [i \in 0..2 |-> IF i = 0 THEN s ELSE IF i = 1 THEN s \ old ELSE (s \ old) \cup new]
<1>1. m[0] = s /\ m[1] = s \ old /\ m[2] = (s \ old) \cup new
  OBVIOUS
<1>2. /\ script[1].sql = "drop" /\ script[1].objects = old
      /\ script[2].sql = "create" /\ script[2].objects = new
  <2>1. script[1].sql = "drop" /\ script[1].objects = old
    <3>1. script[1] = Drop(old)
      OBVIOUS
    <3>. QED BY ONLY <3>1 DEF Create, Drop
  <2>2. script[2].sql = "create" /\ script[2].objects = new
    <3>1. script[2] = Create(new)
      OBVIOUS
    <3>. QED BY ONLY <3>1 DEF Create, Drop
  <2>. QED BY <2>1, <2>2
<1>3. \A o \in old : o[1] # "table" /\ o[1] # "function"
  OBVIOUS
<1>4. \A o \in s \cup new : \A p \in Needs(o) : p \notin old
  <2>1. \A t2 : Table(t2)[1] = "table"
    BY ObjectFacts
  <2>. QED BY <1>3, <2>1, NeedsFacts, ObjectFacts
<1>5. \A o \in new : Needs(o) \subseteq s
  BY NeedsFacts
<1>6. Fine((s \ old) \cup new)
  <2>1. \A o \in new : Proper(o)
    BY DEF Proper
  <2>. QED BY <1>4, <1>5, <2>1 DEF Fine
<1>7. After(script[1], s) = s \ old
  <2>1. Of("table", old) = {}
    BY DEF Of
  <2>. QED BY <1>2, <2>1 DEF After
<1>8. Legal(script[1], s, rows)
  <2>1. \A t2 : Table(t2) \notin old
    BY <1>3, ObjectFacts
  <2>. QED BY <1>2, <2>1 DEF Legal
<1>9. After(script[2], s \ old) = (s \ old) \cup new
  BY <1>2 DEF After
<1>10. Legal(script[2], s \ old, rows)
  <2>1. \A o \in new : Needs(o) \subseteq (s \ old) \cup new
    BY <1>4, <1>5
  <2>. QED BY <1>2, <2>1 DEF Legal
<1>11. \A i \in 1..2 : i = 1 \/ i = 2
  OBVIOUS
<1>. HIDE DEF m
<1>12. \A i \in 1..Len(script) : /\ script[i].sql # "backfill"
                                 /\ Legal(script[i], m[i - 1], rows)
                                 /\ m[i] = After(script[i], m[i - 1])
  <2>1. 1 - 1 = 0 /\ 2 - 1 = 1
    OBVIOUS
  <2>. DEFINE Good(i) == /\ script[i].sql # "backfill"
                         /\ Legal(script[i], m[i - 1], rows)
                         /\ m[i] = After(script[i], m[i - 1])
  <2>2. Good(1)
    BY <1>1, <1>2, <1>7, <1>8, <1>9, <1>10, <2>1
  <2>3. Good(2)
    BY <1>1, <1>2, <1>7, <1>8, <1>9, <1>10, <2>1
  <2>. HIDE DEF Good
  <2>4. \A i \in 1..Len(script) : Good(i)
    BY <1>11, <2>2, <2>3
  <2>. QED BY <2>4 DEF Good
<1>13. Ran(script, m[0], rows).ok /\ Ran(script, m[0], rows).schema = m[Len(script)]
  <2>1. Len(script) \in Nat
    OBVIOUS
  <2>. QED BY <1>12, <2>1, RunsWell
<1>. QED BY <1>1, <1>6, <1>13

\* The old kinds are in the schemas from 0006 up to 0009.
LEMMA OldKindsStay ==
  ASSUME Done(9)
  PROVE  \A n \in 6..9 : OldKinds \subseteq SchemaAt[n]
<1>1. 9 \in 0..HeadRev /\ 9 \in 0..9 /\ HeadRev = 13
  BY Revisions
<1>2. OldKinds \subseteq SchemaAt[6]
  <2>1. OldKinds \subseteq Built(Up0006)
    <3>1. Up0006[2].sql = "create" /\ OldKinds \subseteq Up0006[2].objects
      BY DEF Up0006, Create, OldKinds
    <3>2. 2 \in 1..Len(Up0006)
      BY Statements0006
    <3>3. Up0006[2].objects \subseteq Built(Up0006)
      BY <3>1, <3>2 DEF Built
    <3>. QED BY <3>1, <3>3
  <2>2. 6 \in 1..9 /\ Up[6] = Up0006
    BY UpNames
  <2>3. \A o \in Built(Up[6]) : o[1] # "trigger" => o \in SchemaAt[6]
    BY <1>1, <2>2, ChainGrows
  <2>. QED BY <2>1, <2>2, <2>3, OldKindFacts
<1>3. \A k \in 7..9 : SchemaAt[k - 1] \subseteq SchemaAt[k]
  <2>. SUFFICES ASSUME NEW k \in 7..9 PROVE SchemaAt[k - 1] \subseteq SchemaAt[k]
    OBVIOUS
  <2>1. k \in 3..13 /\ k \in 1..9 /\ k \in 1..HeadRev /\ k # 10 /\ k - 1 \in 1..9
    BY <1>1
  <2>2. Additive(Up[k], Down[k]) /\ Ran(Up[k], SchemaAt[k - 1], {}).ok
    BY <2>1, LaterRevisions DEF Done
  <2>3. Sound(SchemaAt[k - 1])
    <3>1. PICK j \in 1..9 : j = k - 1
      BY <2>1
    <3>2. Reverts(Up[j], Down[j], SchemaAt[j - 1])
      BY <1>1, ChainReverts
    <3>3. SchemaAt[j] = Ran(Up[j], SchemaAt[j - 1], {}).schema
      BY <1>1, SchemaAtFacts
    <3>. QED BY <3>1, <3>2, <3>3 DEF Reverts
  <2>4. Grows(Up[k], SchemaAt[k - 1])
    BY <2>2, <2>3 DEF Additive
  <2>5. SchemaAt[k] = Ran(Up[k], SchemaAt[k - 1], {}).schema
    BY <2>1, SchemaAtFacts
  <2>. QED BY <2>4, <2>5 DEF Grows
<1>. QED
  <2>1. /\ 7 \in 7..9 /\ 8 \in 7..9 /\ 9 \in 7..9 /\ 7 - 1 = 6 /\ 8 - 1 = 7 /\ 9 - 1 = 8
    OBVIOUS
  <2>2. OldKinds \subseteq SchemaAt[7] /\ OldKinds \subseteq SchemaAt[8] /\ OldKinds \subseteq SchemaAt[9]
    BY <1>2, <1>3, <2>1
  <2>3. \A n \in 6..9 : n = 6 \/ n = 7 \/ n = 8 \/ n = 9
    OBVIOUS
  <2>. QED BY <1>2, <2>2, <2>3

\* Before 0010 the schema has the old kinds, and not the new ones.
LEMMA KindsSoFar ==
  ASSUME Done(9)
  PROVE  OldKinds \subseteq SchemaAt[9] /\ NewKinds \cap (OldKinds \cup SchemaAt[9]) = {}
<1>1. 9 \in 0..9 /\ 9 \in 6..9
  OBVIOUS
<1>2. OldKinds \subseteq SchemaAt[9]
  BY <1>1, OldKindsStay
<1>3. NewKinds \cap OldKinds = {}
  BY DEF NewKinds, OldKinds, Domain
<1>4. NewKinds \cap SchemaAt[9] = {}
  <2>. SUFFICES ASSUME NEW o \in NewKinds, o \in SchemaAt[9] PROVE FALSE
    OBVIOUS
  <2>1. o[1] = "domain" /\ o[2] = "notice_exports" /\ o[3] = "kind"
    BY AddedParts
  <2>2. o \in Built(Up0006) \/ o \in Built(Up0008)
    BY <1>1, <2>1, PartsSoFar
  <2>3. o \in OldKinds \/ o \in Quality
    BY <2>1, <2>2, PartNames
  <2>. QED BY <1>3, <2>1, <2>3, AddedParts
<1>. QED BY <1>2, <1>3, <1>4

\* 0010 lets the exports have the new kind; it does not go back while one has it.
LEMMA Follows0010 ==
  ASSUME Done(9), Fine(SchemaAt[9])
  PROVE  /\ \A rows : Guests(rows, SchemaAt[9]) => Ran(Up0010, SchemaAt[9], rows).ok
         /\ Fine(Ran(Up0010, SchemaAt[9], {}).schema)
         /\ \A rows : (\A r \in rows : Fits(r, OldKinds))
                        => Ran(Down0010, Ran(Up0010, SchemaAt[9], {}).schema, rows).ok
<1>. DEFINE s == SchemaAt[9]
            after == (s \ OldKinds) \cup NewKinds
<1>1. /\ Len(Up0010) = 2 /\ Up0010[1] = Drop(OldKinds) /\ Up0010[2] = Create(NewKinds)
      /\ Len(Down0010) = 2 /\ Down0010[1] = Drop(NewKinds) /\ Down0010[2] = Create(OldKinds)
  BY DEF Up0010, Down0010
<1>2. OldKinds \subseteq s /\ NewKinds \cap (OldKinds \cup s) = {}
  BY KindsSoFar
<1>3. \A o \in OldKinds \cup NewKinds : o[1] = "domain" /\ o[2] = "notice_exports"
  BY AddedParts
<1>4. Table("notice_exports") \in s /\ Fine(s)
  <2>1. 9 \in 0..HeadRev
    BY Revisions
  <2>. QED BY <2>1, ParentsThere
<1>. HIDE DEF s
<1>5. ASSUME NEW rows, \A r \in rows : Fits(r, NewKinds)
      PROVE  Ran(Up0010, s, rows).ok /\ Ran(Up0010, s, rows).schema = after /\ Fine(after)
  <2>1. NewKinds \cap (s \ OldKinds) = {}
    BY <1>2
  <2>2. PICK u, x, y : u = Up0010 /\ x = OldKinds /\ y = NewKinds
    OBVIOUS
  <2>3. /\ Fine(s) /\ Table("notice_exports") \in s
        /\ \A o \in x \cup y : o[1] = "domain" /\ o[2] = "notice_exports"
        /\ Len(u) = 2 /\ u[1] = Drop(x) /\ u[2] = Create(y)
        /\ x \subseteq s /\ y \cap (s \ x) = {} /\ \A r \in rows : Fits(r, y)
    BY <1>1, <1>2, <1>3, <1>4, <1>5, <2>1, <2>2
  <2>4. /\ Ran(u, s, rows).ok /\ Ran(u, s, rows).schema = (s \ x) \cup y
        /\ Fine((s \ x) \cup y)
    BY <2>3, Swapped
  <2>. QED BY <2>2, <2>4
<1>6. Ran(Up0010, s, {}).schema = after /\ Fine(after)
  BY <1>5
<1>7. ASSUME NEW rows, \A r \in rows : Fits(r, OldKinds) PROVE Ran(Down0010, after, rows).ok
  <2>1. /\ NewKinds \subseteq after /\ OldKinds \cap (after \ NewKinds) = {}
        /\ Table("notice_exports") \in after
    BY <1>2, <1>3, <1>4, ObjectFacts
  <2>2. \A o \in NewKinds \cup OldKinds : o[1] = "domain" /\ o[2] = "notice_exports"
    BY <1>3
  <2>3. Fine(after)
    BY <1>6
  <2>. HIDE DEF after
  <2>. QED BY <1>1, <1>7, <2>1, <2>2, <2>3, Swapped
<1>8. \A rows : Guests(rows, s) => Ran(Up0010, s, rows).ok
  BY <1>5, FitFacts
<1>. QED BY <1>6, <1>7, <1>8 DEF s

\* Triggers that are dropped if they exist.
LEMMA TriggersOff ==
  ASSUME NEW st, NEW X, NEW m, st = DropIfExists(X), \A o \in X : o[1] = "trigger"
  PROVE  /\ st.sql = "drop if exists" /\ After(st, m) = m \ X
         /\ \A R : Legal(st, m, R)
<1>1. st.sql = "drop if exists" /\ st.objects = X
  BY DEF DropIfExists
<1>2. After(st, m) = m \ X
  <2>1. Of("table", X) = {}
    BY DEF Of
  <2>. QED BY <1>1, <2>1 DEF After
<1>3. \A o, p : p \in Needs(o) => p \notin X
  BY NeedsFacts, ObjectFacts
<1>. QED BY <1>1, <1>2, <1>3 DEF Legal

\* Triggers that are created where their tables and the function are.
LEMMA TriggersOn ==
  ASSUME NEW st, NEW X, NEW m, st = Create(X), Fine(m), X \cap m = {}, SetUpdatedAt \in m,
         \A o \in X : o[1] = "trigger" /\ Proper(o) /\ Table(o[2]) \in m
  PROVE  /\ st.sql = "create" /\ After(st, m) = m \cup X
         /\ \A R : Legal(st, m, R)
         /\ Fine(m \cup X)
<1>1. st.sql = "create" /\ st.objects = X
  BY DEF Create
<1>2. \A o \in X : Needs(o) \subseteq m
  BY NeedsFacts
<1>3. \A r : Fits(r, X)
  BY DEF Fits, Of
<1>4. After(st, m) = m \cup X
  BY <1>1 DEF After
<1>5. \A R : Legal(st, m, R)
  BY <1>1, <1>2, <1>3 DEF Legal
<1>6. Fine(m \cup X)
  BY <1>2 DEF Fine
<1>. QED BY <1>1, <1>4, <1>5, <1>6

\* The n statements of a script are legal from the schemas m, and make them.
Leads(script, n, m, rows) ==
  /\ Len(script) = n
  /\ \A i \in 1..n : /\ script[i].sql # "backfill" /\ Legal(script[i], m[i - 1], rows)
                     /\ m[i] = After(script[i], m[i - 1])

\* Such a script goes from the first of them to the last.
LEMMA RunsFromTo ==
  ASSUME NEW script, NEW n \in Nat, NEW m, NEW rows, Leads(script, n, m, rows)
  PROVE  Ran(script, m[0], rows).ok /\ Ran(script, m[0], rows).schema = m[n]
<1>1. Len(script) = n /\ Len(script) \in Nat /\ 1..Len(script) = 1..n
  BY DEF Leads
<1>2. Ran(script, m[0], rows).ok /\ Ran(script, m[0], rows).schema = m[Len(script)]
  BY <1>1, RunsWell DEF Leads
<1>. QED BY <1>1, <1>2

\* The statements of 0001.
LEMMA Statements0001 ==
  /\ Len(Up0001) = 4 /\ Len(Down0001) = 3
  /\ Up0001[1].sql = "create" /\ Belong(Up0001[1].objects, "bid_pipeline")
  /\ Table("bid_pipeline") \in Up0001[1].objects
  /\ \A o \in Up0001[1].objects : o[1] # "ref"
  /\ Up0001[2] = CreateIfMissing({SetUpdatedAt})
  /\ Up0001[3] = DropIfExists({Trigger("bid_pipeline")})
  /\ Up0001[4] = Create({Trigger("bid_pipeline")})
  /\ Down0001[1] = DropIfExists({Trigger("bid_pipeline")})
  /\ Down0001[2] = DropIfExists({SetUpdatedAt})
  /\ Down0001[3] = DropTable("bid_pipeline")
<1>1. /\ Len(Up0001) = 4 /\ Len(Down0001) = 3
      /\ Up0001[1].sql = "create" /\ Table("bid_pipeline") \in Up0001[1].objects
      /\ Up0001[2] = CreateIfMissing({SetUpdatedAt})
      /\ Up0001[3] = DropIfExists({Trigger("bid_pipeline")})
      /\ Up0001[4] = Create({Trigger("bid_pipeline")})
      /\ Down0001[1] = DropIfExists({Trigger("bid_pipeline")})
      /\ Down0001[2] = DropIfExists({SetUpdatedAt})
      /\ Down0001[3] = DropTable("bid_pipeline")
  BY DEF Up0001, Down0001, Create, SetUpdatedAt
<1>2. Belong(Up0001[1].objects, "bid_pipeline")
  BY PartFacts, ObjectFacts DEF Up0001, Belong, Create
<1>3. \A o \in Up0001[1].objects : o[1] # "ref"
  BY KeyFacts DEF Up0001, Create
<1>. QED BY <1>1, <1>2, <1>3

\* 0001 creates the notices, where nothing is.
LEMMA Follows0001 == Follows(1)
<1>. DEFINE X == Up0001[1].objects
            T == {Trigger("bid_pipeline")}
            base == X \cup {SetUpdatedAt}
            m == [i \in 0..4 |-> CASE i = 0 -> {} [] i = 1 -> X [] i \in {2, 3} -> base
                                   [] OTHER -> base \cup T]
            d == [i \in 0..3 |-> CASE i = 0 -> base \cup T [] i = 1 -> base [] i = 2 -> X
                                   [] OTHER -> {}]
<1>1. /\ m[0] = {} /\ m[1] = X /\ m[2] = base /\ m[3] = base /\ m[4] = base \cup T
      /\ d[0] = base \cup T /\ d[1] = base /\ d[2] = X /\ d[3] = {}
  <2>. HIDE DEF X, T, base
  <2>. QED OBVIOUS
<1>. HIDE DEF m, d
<1>2. /\ \A o \in X : o[1] \notin {"ref", "trigger"} /\ o[2] = "bid_pipeline" /\ Proper(o)
      /\ Table("bid_pipeline") \in X /\ SetUpdatedAt \notin X
      /\ \A o \in T : o[1] = "trigger" /\ o[2] = "bid_pipeline" /\ Proper(o)
  <2>1. \A o \in X : o[1] \notin {"ref", "trigger"} /\ o[2] = "bid_pipeline" /\ Proper(o)
    BY Statements0001 DEF Belong, Plain
  <2>2. \A o \in T : o[1] = "trigger" /\ o[2] = "bid_pipeline" /\ Proper(o)
    BY PartFacts
  <2>. HIDE DEF T
  <2>. QED BY <2>1, <2>2, Statements0001, ObjectFacts
<1>3. /\ Up0001[1].sql = "create" /\ Up0001[1].objects = X
      /\ Up0001[2].sql = "create if missing" /\ Up0001[2].objects = {SetUpdatedAt}
      /\ Up0001[3] = DropIfExists(T) /\ Up0001[4] = Create(T) /\ Down0001[1] = DropIfExists(T)
      /\ Down0001[2].sql = "drop if exists" /\ Down0001[2].objects = {SetUpdatedAt}
      /\ Down0001[3].sql = "drop" /\ Down0001[3].objects = {Table("bid_pipeline")}
  <2>1. Up0001[2].sql = "create if missing" /\ Up0001[2].objects = {SetUpdatedAt}
    <3>1. Up0001[2] = CreateIfMissing({SetUpdatedAt})
      BY Statements0001
    <3>. QED BY <3>1, IfMissingReads, Zenon
  <2>2. Down0001[2].sql = "drop if exists" /\ Down0001[2].objects = {SetUpdatedAt}
    <3>1. Down0001[2] = DropIfExists({SetUpdatedAt})
      BY Statements0001
    <3>. QED BY <3>1, IfExistsReads, Zenon
  <2>3. Down0001[3].sql = "drop" /\ Down0001[3].objects = {Table("bid_pipeline")}
    <3>1. Down0001[3] = DropTable("bid_pipeline")
      BY Statements0001
    <3>. QED BY <3>1 DEF DropTable, Drop
  <2>. QED BY <2>1, <2>2, <2>3, Statements0001
<1>. HIDE DEF X, T
<1>4. \A o \in X : Needs(o) \subseteq X
  BY <1>2, NeedsFacts
<1>5. Fine(X) /\ Fine(base) /\ T \cap base = {} /\ SetUpdatedAt \in base /\ Table("bid_pipeline") \in base
  <2>1. Proper(SetUpdatedAt) /\ Needs(SetUpdatedAt) = {} /\ SetUpdatedAt[1] # "trigger"
    BY ObjectFacts, NeedsFacts DEF Proper
  <2>. QED BY <1>2, <1>4, <2>1 DEF Fine
<1>6. Legal(Up0001[1], {}, {}) /\ After(Up0001[1], {}) = X
  BY <1>3, <1>4 DEF Legal, After
<1>7. (\A R : Legal(Up0001[2], X, R)) /\ After(Up0001[2], X) = base
  BY <1>3 DEF Legal, After
<1>8. (\A R : Legal(Up0001[3], base, R)) /\ After(Up0001[3], base) = base
      /\ Up0001[3].sql = "drop if exists"
  <2>1. base \ T = base
    BY <1>5
  <2>. HIDE DEF base
  <2>2. PICK st, a : st = Up0001[3] /\ a = base
    OBVIOUS
  <2>3. st = DropIfExists(T) /\ \A o \in T : o[1] = "trigger"
    BY <1>2, <1>3, <2>2
  <2>4. st.sql = "drop if exists" /\ After(st, a) = a \ T /\ \A R : Legal(st, a, R)
    BY <2>3, TriggersOff
  <2>. QED BY <2>1, <2>2, <2>4
<1>9. /\ \A R : Legal(Up0001[4], base, R)
      /\ After(Up0001[4], base) = base \cup T /\ Up0001[4].sql = "create" /\ Fine(base \cup T)
  <2>. HIDE DEF base
  <2>1. PICK st, a : st = Up0001[4] /\ a = base
    OBVIOUS
  <2>2. /\ st = Create(T) /\ Fine(a) /\ T \cap a = {} /\ SetUpdatedAt \in a
        /\ \A o \in T : o[1] = "trigger" /\ Proper(o) /\ Table(o[2]) \in a
    BY <1>2, <1>3, <1>5, <2>1
  <2>3. st.sql = "create" /\ After(st, a) = a \cup T /\ (\A R : Legal(st, a, R)) /\ Fine(a \cup T)
    BY <2>2, TriggersOn
  <2>. QED BY <2>1, <2>3
<1>10. /\ \A R : Legal(Down0001[1], base \cup T, R)
       /\ After(Down0001[1], base \cup T) = base /\ Down0001[1].sql = "drop if exists"
  <2>1. (base \cup T) \ T = base
    BY <1>5
  <2>. HIDE DEF base
  <2>2. PICK st, a : st = Down0001[1] /\ a = base \cup T
    OBVIOUS
  <2>3. st = DropIfExists(T) /\ \A o \in T : o[1] = "trigger"
    BY <1>2, <1>3, <2>2
  <2>4. st.sql = "drop if exists" /\ After(st, a) = a \ T /\ \A R : Legal(st, a, R)
    BY <2>3, TriggersOff
  <2>. QED BY <2>1, <2>2, <2>4
<1>11. (\A R : Legal(Down0001[2], base, R)) /\ After(Down0001[2], base) = X
  <2>1. Of("table", {SetUpdatedAt}) = {}
    BY ObjectFacts DEF Of
  <2>2. After(Down0001[2], base) = X
    BY <1>2, <1>3, <2>1 DEF After
  <2>3. Of("trigger", X) = {}
    BY <1>2 DEF Of
  <2>. QED BY <1>3, <2>2, <2>3 DEF Legal
<1>12. (\A R : Legal(Down0001[3], X, R)) /\ After(Down0001[3], X) = {}
  <2>1. Table("bid_pipeline") \in Of("table", {Table("bid_pipeline")})
    BY ObjectFacts DEF Of
  <2>2. After(Down0001[3], X) = {}
    <3>. DEFINE Owning == {p[2] : p \in Of("table", {Table("bid_pipeline")})}
    <3>1. "bid_pipeline" \in Owning
      <4>1. Table("bid_pipeline")[2] = "bid_pipeline"
        BY ObjectFacts
      <4>. QED BY <2>1, <4>1
    <3>2. \A o \in X : o[2] = "bid_pipeline"
      BY <1>2
    <3>3. \A o \in X : o[2] \in Owning
      <4>. HIDE DEF Owning
      <4>. QED BY <3>1, <3>2
    <3>. QED BY <1>3, <3>3 DEF After
  <2>. QED BY <1>2, <1>3, <2>2 DEF Legal, Of
<1>. HIDE DEF base
<1>13. Ran(Up0001, {}, {}).ok /\ Ran(Up0001, {}, {}).schema = base \cup T
  <2>1. \A i \in 1..4 : i = 1 \/ i = 2 \/ i = 3 \/ i = 4
    OBVIOUS
  <2>2. \A i \in 1..4 : /\ Up0001[i].sql # "backfill" /\ Legal(Up0001[i], m[i - 1], {})
                        /\ m[i] = After(Up0001[i], m[i - 1])
    <3>1. 1 - 1 = 0 /\ 2 - 1 = 1 /\ 3 - 1 = 2 /\ 4 - 1 = 3
      OBVIOUS
    <3>. DEFINE Good(i) == /\ Up0001[i].sql # "backfill" /\ Legal(Up0001[i], m[i - 1], {})
                           /\ m[i] = After(Up0001[i], m[i - 1])
    <3>2. Good(1)
      BY <1>1, <1>3, <1>6, <3>1
    <3>3. Good(2)
      BY <1>1, <1>3, <1>7, <3>1
    <3>4. Good(3)
      BY <1>1, <1>3, <1>8, <3>1
    <3>5. Good(4)
      BY <1>1, <1>3, <1>9, <3>1
    <3>. HIDE DEF Good
    <3>6. \A i \in 1..4 : Good(i)
      BY <2>1, <3>2, <3>3, <3>4, <3>5
    <3>. QED BY <3>6 DEF Good
  <2>3. Leads(Up0001, 4, m, {})
    BY <2>2, Statements0001 DEF Leads
  <2>4. Ran(Up0001, m[0], {}).ok /\ Ran(Up0001, m[0], {}).schema = m[4]
    BY <2>3, RunsFromTo
  <2>. QED BY <1>1, <2>4
<1>14. ASSUME NEW rows PROVE Ran(Down0001, base \cup T, rows).ok
  <2>1. \A i \in 1..3 : i = 1 \/ i = 2 \/ i = 3
    OBVIOUS
  <2>2. \A i \in 1..3 : /\ Down0001[i].sql # "backfill" /\ Legal(Down0001[i], d[i - 1], rows)
                        /\ d[i] = After(Down0001[i], d[i - 1])
    <3>1. 1 - 1 = 0 /\ 2 - 1 = 1 /\ 3 - 1 = 2
      OBVIOUS
    <3>. DEFINE Good(i) == /\ Down0001[i].sql # "backfill" /\ Legal(Down0001[i], d[i - 1], rows)
                           /\ d[i] = After(Down0001[i], d[i - 1])
    <3>2. Good(1)
      BY <1>1, <1>3, <1>10, <3>1
    <3>3. Good(2)
      BY <1>1, <1>3, <1>11, <3>1
    <3>4. Good(3)
      BY <1>1, <1>3, <1>12, <3>1
    <3>. HIDE DEF Good
    <3>5. \A i \in 1..3 : Good(i)
      BY <2>1, <3>2, <3>3, <3>4
    <3>. QED BY <3>5 DEF Good
  <2>3. Leads(Down0001, 3, d, rows)
    BY <2>2, Statements0001 DEF Leads
  <2>4. Ran(Down0001, d[0], rows).ok
    BY <2>3, RunsFromTo
  <2>. QED BY <1>1, <2>4
<1>15. \A rows : Guests(rows, {}) => rows = {}
  BY DEF Guests, Housed
<1>16. Passes(Up0001, Down0001, {})
  BY <1>9, <1>13, <1>14, <1>15 DEF Passes
<1>. QED BY <1>16, UpNames, DownNames, SchemaAtFacts DEF Follows

\* 0002 adds indexes to the notices, unless they exist.
LEMMA Follows0002 == Follows(2)
<1>. DEFINE s == SchemaAt[1]
            X == SearchIndexes
<1>. SUFFICES ASSUME Done(1), Fine(s) PROVE Passes(Up0002, Down0002, s)
  BY UpNames, DownNames DEF Follows
<1>1. Table("bid_pipeline") \in s
  <2>1. 1 \in 0..HeadRev
    BY Revisions
  <2>. QED BY <2>1, ParentsThere
<1>2. Len(Up0002) = 1 /\ Up0002[1] = CreateIfMissing(X) /\ Len(Down0002) = 1
      /\ Down0002[1] = DropIfExists(X)
  BY DEF Up0002, Down0002
<1>3. \A o \in X : o[1] = "index" /\ o[2] = "bid_pipeline" /\ Proper(o)
  BY PartFacts, MildFacts DEF SearchIndexes, Plain
<1>. HIDE DEF s, X
<1>4. Up0002[1].sql = "create if missing" /\ Up0002[1].objects = X
  BY <1>2, IfMissingReads, Zenon
<1>5. Down0002[1].sql = "drop if exists" /\ Down0002[1].objects = X
  BY <1>2, IfExistsReads, Zenon
<1>6. (\A R : Legal(Up0002[1], s, R)) /\ After(Up0002[1], s) = s \cup X
  BY <1>4 DEF Legal, After
<1>7. Fine(s \cup X)
  <2>1. \A o \in X : Needs(o) \subseteq s
    BY <1>1, <1>3, NeedsFacts
  <2>. QED BY <1>3, <2>1 DEF Fine
<1>8. \A R : Legal(Down0002[1], s \cup X, R)
  <2>1. \A o, p : p \in Needs(o) => p \notin X
    BY <1>3, NeedsFacts, ObjectFacts
  <2>. QED BY <1>5, <2>1 DEF Legal
<1>9. ASSUME NEW rows PROVE Ran(Up0002, s, rows).ok /\ Ran(Up0002, s, rows).schema = s \cup X
  <2>. DEFINE m == [i \in 0..1 |-> IF i = 0 THEN s ELSE s \cup X]
  <2>1. m[0] = s /\ m[1] = s \cup X
    OBVIOUS
  <2>. HIDE DEF m
  <2>2. \A i \in 1..1 : /\ Up0002[i].sql # "backfill" /\ Legal(Up0002[i], m[i - 1], rows)
                        /\ m[i] = After(Up0002[i], m[i - 1])
    <3>1. (\A i \in 1..1 : i = 1) /\ 1 - 1 = 0
      OBVIOUS
    <3>. QED BY <1>4, <1>6, <2>1, <3>1
  <2>3. Leads(Up0002, 1, m, rows)
    BY <1>2, <2>2 DEF Leads
  <2>4. Ran(Up0002, m[0], rows).ok /\ Ran(Up0002, m[0], rows).schema = m[1]
    BY <2>3, RunsFromTo
  <2>. QED BY <2>1, <2>4
<1>10. ASSUME NEW rows PROVE Ran(Down0002, s \cup X, rows).ok
  <2>. DEFINE m == [i \in 0..1 |-> IF i = 0 THEN s \cup X ELSE After(Down0002[1], s \cup X)]
  <2>1. m[0] = s \cup X /\ m[1] = After(Down0002[1], s \cup X)
    OBVIOUS
  <2>. HIDE DEF m
  <2>2. \A i \in 1..1 : /\ Down0002[i].sql # "backfill" /\ Legal(Down0002[i], m[i - 1], rows)
                        /\ m[i] = After(Down0002[i], m[i - 1])
    <3>1. (\A i \in 1..1 : i = 1) /\ 1 - 1 = 0
      OBVIOUS
    <3>. QED BY <1>5, <1>8, <2>1, <3>1
  <2>3. Leads(Down0002, 1, m, rows)
    BY <1>2, <2>2 DEF Leads
  <2>4. Ran(Down0002, m[0], rows).ok
    BY <2>3, RunsFromTo
  <2>. QED BY <2>1, <2>4
<1>. QED BY <1>7, <1>9, <1>10 DEF Passes

\* The tables of 0003, each with those it refers to.
LEMMA OntologyTables ==
  LET T == <<"ontology_concepts", "ontology_aliases", "ontology_rules", "knowledge_evidence",
             "ontology_relations", "notice_assertions", "notice_work_tasks", "role_bindings">>
      P == <<{}, {"ontology_concepts"}, {}, {}, {"ontology_concepts", "knowledge_evidence"},
             {"bid_pipeline", "ontology_concepts", "knowledge_evidence"},
             {"bid_pipeline", "ontology_concepts"}, {"ontology_concepts"}>>
  IN  \A s : Table("bid_pipeline") \in s /\ (\A t \in OntologyOwners : Table(t) \notin s)
               => Tables(Up0003, T, P, s, 8)
<1>. DEFINE T == <<"ontology_concepts", "ontology_aliases", "ontology_rules", "knowledge_evidence",
                   "ontology_relations", "notice_assertions", "notice_work_tasks", "role_bindings">>
            P == <<{}, {"ontology_concepts"}, {}, {}, {"ontology_concepts", "knowledge_evidence"},
                   {"bid_pipeline", "ontology_concepts", "knowledge_evidence"},
                   {"bid_pipeline", "ontology_concepts"}, {"ontology_concepts"}>>
<1>. SUFFICES ASSUME NEW s, Table("bid_pipeline") \in s, \A t \in OntologyOwners : Table(t) \notin s
              PROVE  Tables(Up0003, T, P, s, 8)
  OBVIOUS
<1>1. \A i \in 1..8 : i = 1 \/ i = 2 \/ i = 3 \/ i = 4 \/ i = 5 \/ i = 6 \/ i = 7 \/ i = 8
  OBVIOUS
<1>2. \A i \in 1..8 : Creates(Up0003[i], T[i])
  <2>1. /\ Creates(Up0003[1], T[1]) /\ Creates(Up0003[2], T[2]) /\ Creates(Up0003[3], T[3])
        /\ Creates(Up0003[4], T[4]) /\ Creates(Up0003[5], T[5]) /\ Creates(Up0003[6], T[6])
        /\ Creates(Up0003[7], T[7]) /\ Creates(Up0003[8], T[8])
    BY Up0003Facts, OntologyBelongs
  <2>. HIDE DEF T
  <2>. QED BY <1>1, <2>1
<1>3. \A i \in 1..8 : RefersTo(Up0003[i].objects, P[i])
  <2>1. /\ RefersTo(Up0003[1].objects, P[1]) /\ RefersTo(Up0003[2].objects, P[2])
        /\ RefersTo(Up0003[3].objects, P[3]) /\ RefersTo(Up0003[4].objects, P[4])
        /\ RefersTo(Up0003[5].objects, P[5]) /\ RefersTo(Up0003[6].objects, P[6])
        /\ RefersTo(Up0003[7].objects, P[7]) /\ RefersTo(Up0003[8].objects, P[8])
    BY Up0003Facts, OntologyRefers
  <2>. HIDE DEF P
  <2>. QED BY <1>1, <2>1
<1>4. \A i \in 1..8 : T[i] \in OntologyOwners
  BY <1>1 DEF OntologyOwners
<1>5. \A i \in 1..8 : \A j \in 1..(i - 1) : T[j] # T[i]
  BY <1>1
<1>6. \A i \in 1..8 : \A p \in P[i] : Table(p) \in s \/ \E j \in 1..(i - 1) : p = T[j]
  <2>1. /\ 1 \in 1..(2 - 1) /\ 1 \in 1..(5 - 1) /\ 4 \in 1..(5 - 1) /\ 1 \in 1..(6 - 1)
        /\ 4 \in 1..(6 - 1) /\ 1 \in 1..(7 - 1) /\ 1 \in 1..(8 - 1)
        /\ T[1] = "ontology_concepts" /\ T[4] = "knowledge_evidence"
    OBVIOUS
  <2>2. /\ \A p \in P[1] : FALSE
        /\ \A p \in P[2] : p = T[1]
        /\ \A p \in P[3] : FALSE
        /\ \A p \in P[4] : FALSE
        /\ \A p \in P[5] : p = T[1] \/ p = T[4]
        /\ \A p \in P[6] : Table(p) \in s \/ p = T[1] \/ p = T[4]
        /\ \A p \in P[7] : Table(p) \in s \/ p = T[1]
        /\ \A p \in P[8] : p = T[1]
    BY <2>1
  <2>. HIDE DEF T, P
  <2>. QED BY <1>1, <2>1, <2>2
<1>. HIDE DEF T, P
<1>. QED BY <1>2, <1>3, <1>4, <1>5, <1>6 DEF Tables

\* 0003 and what takes it back.
LEMMA Statements0003 ==
  /\ Len(Up0003) = 10 /\ Len(Down0003) = 9
  /\ \A i \in 1..8 : Inverse(Up0003[i], Down0003[10 - i])
  /\ Up0003[9] = DropIfExists(UpdatedAtTriggers) /\ Up0003[10] = Create(UpdatedAtTriggers)
  /\ Down0003[1] = DropIfExists(UpdatedAtTriggers)
<1>1. /\ Len(Down0003) = 9 /\ Down0003[1] = DropIfExists(UpdatedAtTriggers)
      /\ Down0003[2] = DropTable("role_bindings") /\ Down0003[3] = DropTable("notice_work_tasks")
      /\ Down0003[4] = DropTable("notice_assertions")
      /\ Down0003[5] = DropTable("ontology_relations")
      /\ Down0003[6] = DropTable("knowledge_evidence")
      /\ Down0003[7] = DropTable("ontology_rules") /\ Down0003[8] = DropTable("ontology_aliases")
      /\ Down0003[9] = DropTable("ontology_concepts")
  BY DEF Down0003
<1>2. /\ Inverse(Up0003[1], Down0003[9]) /\ Inverse(Up0003[2], Down0003[8])
      /\ Inverse(Up0003[3], Down0003[7]) /\ Inverse(Up0003[4], Down0003[6])
      /\ Inverse(Up0003[5], Down0003[5]) /\ Inverse(Up0003[6], Down0003[4])
      /\ Inverse(Up0003[7], Down0003[3]) /\ Inverse(Up0003[8], Down0003[2])
  BY <1>1, Up0003Facts, OntologyBelongs DEF Inverse
<1>3. \A i \in 1..8 : Inverse(Up0003[i], Down0003[10 - i])
  BY <1>2
<1>. QED BY <1>1, <1>3, Up0003Facts

\* The triggers of 0003 are for three of its tables.
LEMMA TriggersOfOntology ==
  \A o \in UpdatedAtTriggers :
    /\ o[1] = "trigger" /\ Proper(o)
    /\ o[2] \in {"ontology_concepts", "ontology_rules", "notice_work_tasks"}
BY PartFacts DEF UpdatedAtTriggers

\* 0003 creates the vocabulary, the rules and the tasks, and three triggers.
LEMMA Follows0003 == Follows(3)
<1>. DEFINE s == SchemaAt[2]
            X == UpdatedAtTriggers
            h == Height(Up0003, s, 8)
            back == [i \in 1..8 |-> Down0003[10 - i]]
            m == [i \in 0..10 |-> IF i \in 0..8 THEN h[i] ELSE IF i = 9 THEN h[8] ELSE h[8] \cup X]
            d == [j \in 0..9 |-> IF j = 0 THEN h[8] \cup X ELSE h[9 - j]]
<1>. SUFFICES ASSUME Done(2), Fine(s) PROVE Passes(Up0003, Down0003, s)
  BY UpNames, DownNames DEF Follows
<1>1. 2 \in 0..HeadRev /\ \A k \in 1..2 : k = 1 \/ k = 2
  BY Revisions
<1>2. Table("bid_pipeline") \in s /\ SetUpdatedAt \in s
  BY <1>1, ParentsThere
<1>3. \A t \in OntologyOwners : Table(t) \notin s
  <2>1. \A t \in OntologyOwners : \A k \in 1..2 : t \notin Owners(k)
    BY <1>1 DEF Owners, NoticeOwners, OntologyOwners
  <2>. QED BY <1>1, <2>1, NotYet
<1>4. \A o \in X : o \notin s
  <2>1. \A o \in s : o[2] \in NoticeOwners
    <3>1. Owners(1) = NoticeOwners /\ Owners(2) = NoticeOwners
      BY DEF Owners
    <3>. QED BY <1>1, <3>1, MadeOf
  <2>. QED BY <2>1, TriggersOfOntology DEF NoticeOwners
<1>. HIDE DEF s, X
<1>5. ASSUME NEW rows, Guests(rows, s) PROVE \A i \in 1..8 : Welcome(Up0003, i, s, rows)
  <2>1. PICK T, P : Tables(Up0003, T, P, s, 8)
    BY <1>2, <1>3, OntologyTables
  <2>2. 8 \in Nat /\ Housed(rows, s)
    BY <1>5 DEF Guests
  <2>. QED BY <2>1, <2>2, TablesWelcome
<1>6. \A i \in 1..8 : back[i] = Down0003[10 - i]
  OBVIOUS
<1>7. (\A i \in 0..8 : m[i] = h[i]) /\ m[9] = h[8] /\ m[10] = h[8] \cup X
  <2>. HIDE DEF h
  <2>. QED OBVIOUS
<1>8. d[0] = h[8] \cup X /\ \A j \in 1..9 : d[j] = h[9 - j]
  <2>. HIDE DEF h
  <2>. QED OBVIOUS
<1>. HIDE DEF h, back, m, d
<1>9. ASSUME NEW rows, Guests(rows, s) PROVE h[0] = s /\ Ladder(h, Up0003, back, rows, 8)
  <2>1. \A i \in 1..8 : Inverse(Up0003[i], back[i]) /\ Welcome(Up0003, i, s, rows)
    BY <1>5, <1>6, <1>9, Statements0003
  <2>2. 8 \in Nat
    OBVIOUS
  <2>. QED BY <2>1, <2>2, Climb DEF h
<1>10. h[0] = s /\ Ladder(h, Up0003, back, {}, 8)
  BY <1>9, NoGuests
<1>11. Fine(h[8])
  BY <1>10 DEF Ladder
<1>12. /\ \A o \in X : o \notin h[8] /\ o[1] = "trigger" /\ Proper(o) /\ Table(o[2]) \in h[8]
       /\ SetUpdatedAt \in h[8]
  <2>1. h[8] = s \cup UNION {Up0003[j].objects : j \in 1..8}
    BY DEF h, Height
  <2>2. \A i \in 1..8 : \A o \in Up0003[i].objects : o[1] # "trigger"
    <3>1. PICK T, P : Tables(Up0003, T, P, s, 8)
      BY <1>2, <1>3, OntologyTables
    <3>. QED BY <3>1 DEF Tables, Creates, Plain
  <2>3. /\ Table("ontology_concepts") \in h[8] /\ Table("ontology_rules") \in h[8]
        /\ Table("notice_work_tasks") \in h[8]
    <3>1. /\ Table("ontology_concepts") \in Up0003[1].objects
          /\ Table("ontology_rules") \in Up0003[3].objects
          /\ Table("notice_work_tasks") \in Up0003[7].objects
      BY Up0003Facts, OntologyBelongs DEF Creates
    <3>2. 1 \in 1..8 /\ 3 \in 1..8 /\ 7 \in 1..8
      OBVIOUS
    <3>. QED BY <2>1, <3>1, <3>2
  <2>4. \A o \in X : o[1] = "trigger" /\ Proper(o) /\ Table(o[2]) \in h[8]
    BY <2>3, TriggersOfOntology DEF X
  <2>5. \A o \in X : o \notin h[8]
    BY <1>4, <2>1, <2>2, <2>4
  <2>. QED BY <1>2, <2>1, <2>4, <2>5
<1>13. /\ Up0003[9].sql = "drop if exists" /\ After(Up0003[9], h[8]) = h[8]
       /\ \A R : Legal(Up0003[9], h[8], R)
  <2>1. PICK st, a : st = Up0003[9] /\ a = h[8]
    OBVIOUS
  <2>2. st = DropIfExists(X) /\ \A o \in X : o[1] = "trigger"
    BY <1>12, <2>1, Statements0003 DEF X
  <2>3. st.sql = "drop if exists" /\ After(st, a) = a \ X /\ \A R : Legal(st, a, R)
    BY <2>2, TriggersOff
  <2>4. a \ X = a
    BY <1>12, <2>1
  <2>. QED BY <2>1, <2>3, <2>4
<1>14. /\ Up0003[10].sql = "create" /\ After(Up0003[10], h[8]) = h[8] \cup X
       /\ (\A R : Legal(Up0003[10], h[8], R)) /\ Fine(h[8] \cup X)
  <2>1. PICK st, a : st = Up0003[10] /\ a = h[8]
    OBVIOUS
  <2>2. /\ st = Create(X) /\ Fine(a) /\ X \cap a = {} /\ SetUpdatedAt \in a
        /\ \A o \in X : o[1] = "trigger" /\ Proper(o) /\ Table(o[2]) \in a
    BY <1>11, <1>12, <2>1, Statements0003 DEF X
  <2>3. st.sql = "create" /\ After(st, a) = a \cup X /\ (\A R : Legal(st, a, R)) /\ Fine(a \cup X)
    BY <2>2, TriggersOn
  <2>. QED BY <2>1, <2>3
<1>15. /\ Down0003[1].sql = "drop if exists" /\ After(Down0003[1], h[8] \cup X) = h[8]
       /\ \A R : Legal(Down0003[1], h[8] \cup X, R)
  <2>1. PICK st, a : st = Down0003[1] /\ a = h[8] \cup X
    OBVIOUS
  <2>2. st = DropIfExists(X) /\ \A o \in X : o[1] = "trigger"
    BY <1>12, <2>1, Statements0003 DEF X
  <2>3. st.sql = "drop if exists" /\ After(st, a) = a \ X /\ \A R : Legal(st, a, R)
    BY <2>2, TriggersOff
  <2>4. a \ X = h[8]
    BY <1>12, <2>1
  <2>. QED BY <2>1, <2>3, <2>4
<1>16. ASSUME NEW rows, Guests(rows, s)
       PROVE  Ran(Up0003, s, rows).ok /\ Ran(Up0003, s, rows).schema = h[8] \cup X
  <2>1. ASSUME NEW i \in 1..10
        PROVE  /\ Up0003[i].sql # "backfill" /\ Legal(Up0003[i], m[i - 1], rows)
               /\ m[i] = After(Up0003[i], m[i - 1])
    <3>1. CASE i \in 1..8
      <4>1. i \in 0..8 /\ i - 1 \in 0..8
        BY <3>1
      <4>2. m[i] = h[i] /\ m[i - 1] = h[i - 1]
        BY <1>7, <4>1
      <4>. QED BY <1>9, <1>16, <3>1, <4>2 DEF Ladder
    <3>2. CASE i = 9
      <4>1. m[9 - 1] = h[8]
        BY <1>7
      <4>. QED BY <1>7, <1>13, <3>2, <4>1
    <3>3. CASE i = 10
      <4>1. m[10 - 1] = h[8]
        BY <1>7
      <4>. QED BY <1>7, <1>14, <3>3, <4>1
    <3>. QED BY <3>1, <3>2, <3>3
  <2>2. Leads(Up0003, 10, m, rows)
    BY <2>1, Statements0003 DEF Leads
  <2>3. Ran(Up0003, m[0], rows).ok /\ Ran(Up0003, m[0], rows).schema = m[10]
    BY <2>2, RunsFromTo
  <2>4. m[0] = s
    BY <1>7, <1>10
  <2>. QED BY <1>7, <2>3, <2>4
<1>17. ASSUME NEW rows PROVE Ran(Down0003, h[8] \cup X, rows).ok
  <2>1. ASSUME NEW j \in 1..9
        PROVE  /\ Down0003[j].sql # "backfill" /\ Legal(Down0003[j], d[j - 1], rows)
               /\ d[j] = After(Down0003[j], d[j - 1])
    <3>1. CASE j = 1
      <4>1. d[1 - 1] = h[8] \cup X /\ d[1] = h[8]
        BY <1>8
      <4>. QED BY <1>15, <3>1, <4>1
    <3>2. CASE j # 1
      <4>1. PICK i \in 1..8 : i = 10 - j
        BY <3>2
      <4>2. 10 - i = j /\ 9 - j = i - 1 /\ j - 1 \in 1..9 /\ 9 - (j - 1) = i
        BY <3>2, <4>1
      <4>3. back[i] = Down0003[j] /\ d[j] = h[i - 1] /\ d[j - 1] = h[i]
        BY <1>6, <1>8, <4>2
      <4>4. /\ back[i].sql = "drop" /\ (\A R : Legal(back[i], h[i], R))
            /\ h[i - 1] = After(back[i], h[i])
        BY <1>10 DEF Ladder
      <4>. QED BY <4>3, <4>4
    <3>. QED BY <3>1, <3>2
  <2>2. Leads(Down0003, 9, d, rows)
    BY <2>1, Statements0003 DEF Leads
  <2>3. Ran(Down0003, d[0], rows).ok
    BY <2>2, RunsFromTo
  <2>. QED BY <1>8, <2>3
<1>18. Ran(Up0003, s, {}).schema = h[8] \cup X
  BY <1>16, NoGuests
<1>. QED BY <1>14, <1>16, <1>17, <1>18 DEF Passes

\* All revisions but 0010 follow on those before them, and take nothing amiss.
LEMMA AllFollow == \A k \in 1..HeadRev : k # 10 => Follows(k)
<1>1. \A k \in 1..HeadRev : \/ k = 1 \/ k = 2 \/ k = 3 \/ k = 4 \/ k = 5 \/ k = 6 \/ k = 7
                            \/ k = 8 \/ k = 9 \/ k = 10 \/ k = 11 \/ k = 12 \/ k = 13
  BY Revisions
<1>. QED
  BY <1>1, Follows0001, Follows0002, Follows0003, Follows0004, Follows0005, Follows0006,
     Follows0007, Follows0008, Follows0009, Follows0010b, Follows0011, Follows0012

\* From an empty database every upgrade goes through, and leaves every object
\* with what it needs.
LEMMA AllDone == \A n \in 0..HeadRev : Done(n) /\ Fine(SchemaAt[n])
<1>. DEFINE G == {n \in 0..13 : Done(n) /\ Fine(SchemaAt[n])}
<1>1. 0 \in G
  <2>1. 1..0 = {}
    OBVIOUS
  <2>. QED BY <2>1, SchemaAtFacts DEF Done, Fine
<1>2. ASSUME NEW n \in 0..13, n # 13, n \in G PROVE n + 1 \in G
  <2>1. PICK k \in 1..13 : k = n + 1
    BY <1>2
  <2>2. /\ k - 1 = n /\ k \in 0..13 /\ k \in 1..HeadRev /\ n \in Nat
        /\ \A i \in 1..k : i = k \/ i \in 1..n
    BY <2>1, Revisions
  <2>3. Done(k - 1) /\ Fine(SchemaAt[k - 1])
    BY <1>2, <2>2
  <2>4. Ran(Up[k], SchemaAt[k - 1], {}).ok /\ Fine(Ran(Up[k], SchemaAt[k - 1], {}).schema)
    <3>1. CASE k = 10
      <4>1. 10 - 1 = 9 /\ Up[10] = Up0010
        BY UpNames
      <4>2. Done(9) /\ Fine(SchemaAt[9])
        BY <2>3, <3>1, <4>1
      <4>. QED BY <3>1, <4>1, <4>2, NoGuests, Follows0010
    <3>2. CASE k # 10
      <4>1. Passes(Up[k], Down[k], SchemaAt[k - 1])
        BY <2>2, <2>3, <3>2, AllFollow DEF Follows
      <4>. QED BY <4>1, NoGuests DEF Passes
    <3>. QED BY <3>1, <3>2
  <2>5. SchemaAt[k] = Ran(Up[k], SchemaAt[k - 1], {}).schema
    BY <2>2, SchemaAtFacts
  <2>6. Done(k)
    BY <2>2, <2>3, <2>4 DEF Done
  <2>. QED BY <2>1, <2>2, <2>4, <2>5, <2>6
<1>3. 13 \in Nat
  OBVIOUS
<1>4. \A n \in 0..13 : n \in G
  <2>. HIDE DEF G
  <2>. QED BY <1>1, <1>2, <1>3, Induct
<1>. QED BY <1>4, Revisions

\* The columns that an item or an export needs to be stored come with 0007
\* and 0008.
LEMMA ColumnsCome ==
  ASSUME NEW n \in 0..HeadRev
  PROVE  /\ Column("notice_spec_items", "source_text") \in SchemaAt[n] => n >= 7
         /\ Column("notice_exports", "version") \in SchemaAt[n] => n >= 8
<1>1. \A k : k \in 1..n => n >= k
  BY Revisions
<1>2. \A k \in 1..13 : \/ k = 1 \/ k = 2 \/ k = 3 \/ k = 4 \/ k = 5 \/ k = 6 \/ k = 7
                       \/ k = 8 \/ k = 9 \/ k = 10 \/ k = 11 \/ k = 12 \/ k = 13
  OBVIOUS
<1>3. /\ \A t, c : Column(t, c)[1] = "column" /\ Column(t, c)[2] = t /\ Column(t, c)[3] = c
  BY DEF Column
<1>4. \A o \in Built(Up0010) : o[1] # "column"
  <2>1. /\ Len(Up0010) = 2 /\ Up0010[1].sql = "drop" /\ Up0010[2].objects = NewKinds
    <3>1. Len(Up0010) = 2 /\ Up0010[1] = Drop(OldKinds) /\ Up0010[2] = Create(NewKinds)
      BY DEF Up0010
    <3>2. Up0010[1].sql = "drop"
      BY <3>1 DEF Create, Drop
    <3>3. Up0010[2].objects = NewKinds
      BY <3>1 DEF Create, Drop
    <3>. QED BY <3>1, <3>2, <3>3
  <2>2. \A i \in 1..2 : i = 1 \/ i = 2
    OBVIOUS
  <2>3. \A o \in NewKinds : o[1] = "domain"
    BY AddedParts
  <2>. QED BY <2>1, <2>2, <2>3 DEF Built
<1>5. ASSUME Column("notice_spec_items", "source_text") \in SchemaAt[n] PROVE n >= 7
  <2>1. PICK o : o = Column("notice_spec_items", "source_text")
    OBVIOUS
  <2>2. o[1] = "column" /\ o[2] = "notice_spec_items" /\ o[3] = "source_text"
    BY <1>3, <2>1
  <2>3. PICK k \in 1..n : k \in 1..13 /\ o \in Built(Up[k]) /\ o[2] \in Owners(k)
    BY <1>5, <2>1, AllDone, MadeOf
  <2>4. k = 5 \/ k = 6 \/ k = 7
    <3>1. \A j \in {1, 2, 3, 4, 8, 9, 10, 11, 12, 13} : "notice_spec_items" \notin Owners(j)
      BY DEF Owners, NoticeOwners, OntologyOwners, ReviewOwners, SourceOwners, HwpOwners,
             ProposalOwners
    <3>. QED BY <1>2, <2>2, <2>3, <3>1
  <2>5. k # 5 /\ k # 6
    <3>1. o \notin ReviewColumns
      BY <2>2, AddedParts
    <3>2. Up[5] = Up0005 /\ Up[6] = Up0006
      BY UpNames
    <3>. QED BY <2>2, <2>3, <3>1, <3>2, PartNames
  <2>. QED BY <1>1, <2>3, <2>4, <2>5
<1>6. ASSUME Column("notice_exports", "version") \in SchemaAt[n] PROVE n >= 8
  <2>1. PICK o : o = Column("notice_exports", "version")
    OBVIOUS
  <2>2. o[1] = "column" /\ o[2] = "notice_exports" /\ o[3] = "version"
    BY <1>3, <2>1
  <2>3. PICK k \in 1..n : k \in 1..13 /\ o \in Built(Up[k]) /\ o[2] \in Owners(k)
    BY <1>6, <2>1, AllDone, MadeOf
  <2>4. k = 6 \/ k = 8 \/ k = 10
    <3>1. \A j \in {1, 2, 3, 4, 5, 7, 9, 11, 12, 13} : "notice_exports" \notin Owners(j)
      BY DEF Owners, NoticeOwners, OntologyOwners, ReviewOwners, SourceOwners, HwpOwners,
             ProposalOwners
    <3>. QED BY <1>2, <2>2, <2>3, <3>1
  <2>5. k # 6 /\ k # 10
    <3>1. o \notin ReviewColumns
      BY <2>2, AddedParts
    <3>2. Up[6] = Up0006 /\ Up[10] = Up0010
      BY UpNames
    <3>. QED BY <1>4, <2>2, <2>3, <3>1, <3>2, PartNames
  <2>. QED BY <1>1, <2>3, <2>4, <2>5
<1>. QED BY <1>5, <1>6

\* From then on the schema has their CHECKs, the kinds in one form or the other.
LEMMA DomainsCome ==
  ASSUME NEW n \in 0..HeadRev
  PROVE  /\ n >= 7 => Priority \subseteq SchemaAt[n]
         /\ n >= 8 => Quality \subseteq SchemaAt[n]
         /\ n >= 8 => OldKinds \subseteq SchemaAt[n] \/ NewKinds \subseteq SchemaAt[n]
<1>1. HeadRev = 13 /\ n \in Nat /\ Done(n)
  BY AllDone, Revisions
<1>2. Priority \cap OldKinds = {} /\ Quality \cap OldKinds = {} /\ NewKinds \cap OldKinds = {}
  <2>1. NewKinds \cap OldKinds = {}
    BY DEF NewKinds, OldKinds, Domain
  <2>. QED BY <2>1, AddedParts
<1>3. ASSUME n >= 7 PROVE Priority \subseteq SchemaAt[n]
  <2>1. 7 \in 1..n /\ 7 # 10 /\ 2 \in 1..4 /\ Up[7] = Up0007 /\ Len(Up0007) = 4
    BY <1>1, <1>3, UpNames, Statements0007
  <2>2. Up0007[2].objects = Priority
    BY Statements0007 DEF Create, Drop
  <2>3. Up0007[2].sql = "create"
    BY Statements0007 DEF Create, Drop
  <2>. QED BY <1>1, <1>2, <2>1, <2>2, <2>3, StillThere, AddedParts
<1>4. ASSUME n >= 8 PROVE Quality \subseteq SchemaAt[n]
  <2>1. 8 \in 1..n /\ 8 # 10 /\ 2 \in 1..2 /\ Up[8] = Up0008 /\ Len(Up0008) = 2
    BY <1>1, <1>4, UpNames, Statements0008
  <2>2. Up0008[2].objects = Quality
    BY Statements0008 DEF Create, Drop
  <2>3. Up0008[2].sql = "create"
    BY Statements0008 DEF Create, Drop
  <2>. QED BY <1>1, <1>2, <2>1, <2>2, <2>3, StillThere, AddedParts
<1>5. ASSUME n >= 8, n < 10 PROVE OldKinds \subseteq SchemaAt[n]
  <2>1. n \in 6..9 /\ 9 \in 0..HeadRev
    BY <1>1, <1>5
  <2>. QED BY <2>1, AllDone, OldKindsStay
<1>6. ASSUME n >= 10 PROVE NewKinds \subseteq SchemaAt[n]
  <2>1. 10 \in 1..n
    BY <1>1, <1>6
  <2>2. NewKinds \subseteq SchemaAt[10]
    BY <1>1, <2>1, ChainGrows
  <2>. QED BY <1>1, <1>2, <2>1, <2>2, Stays
<1>7. n < 10 \/ n >= 10
  BY <1>1
<1>. QED BY <1>3, <1>4, <1>5, <1>6, <1>7

-----------------------------------------------------------------------------
(* The rows that a migration meets. *)

\* A script stores no row: it deletes some, and 0004 fills in a notice's date.
LEMMA ScriptStoresNone ==
  ASSUME NEW u, NEW s, NEW rows, Len(u) \in Nat
  PROVE  \A r \in Ran(u, s, rows).rows : r \in rows \/ r[1] = "bid_pipeline"
<1>. DEFINE n == Len(u)
            Good(x) == IsResult(x) /\ \A r \in x.rows : r \in rows \/ r[1] = "bid_pipeline"
<1>1. PICK run : IsRun(run, u, s, rows) /\ Ran(u, s, rows) = run[n]
  BY RanFacts
<1>. DEFINE G == {k \in 0..n : Good(run[k])}
<1>2. 0 \in G /\ n \in Nat /\ n \in 0..n
  <2>1. run[0] = [ok |-> TRUE, schema |-> s, rows |-> rows]
    BY <1>1 DEF IsRun
  <2>2. IsResult(run[0]) /\ run[0].rows = rows
    BY <2>1 DEF IsResult
  <2>3. Good(run[0])
    BY <2>2
  <2>. HIDE DEF Good
  <2>. QED BY <2>3
<1>3. ASSUME NEW st, NEW x, Good(x) PROVE Good(Executed(st, x))
  <2>1. IsResult(Executed(st, x))
    BY <1>3, ExecutedFacts
  <2>2. CASE ~ Executed(st, x).ok
    <3>1. ~ (x.ok /\ Legal(st, x.schema, x.rows))
      BY <1>3, <2>2, ExecutedFacts
    <3>2. Executed(st, x) = [x EXCEPT !.ok = FALSE]
      BY <3>1 DEF Executed
    <3>3. Executed(st, x).rows = x.rows
      BY <1>3, <3>2 DEF IsResult
    <3>. QED BY <1>3, <2>1, <3>3
  <2>3. CASE Executed(st, x).ok
    <3>1. Executed(st, x).rows = RowsAfter(st, x.schema, x.rows)
      BY <1>3, <2>3, ExecutedFacts
    <3>2. \A r : Backfilled(r) = r \/ (r[1] = "bid_pipeline" /\ Backfilled(r)[1] = "bid_pipeline")
      BY DEF Backfilled
    <3>3. \A r \in RowsAfter(st, x.schema, x.rows) : r \in rows \/ r[1] = "bid_pipeline"
      BY <1>3, <3>2 DEF RowsAfter
    <3>. QED BY <2>1, <3>1, <3>3
  <2>. QED BY <2>2, <2>3
<1>4. ASSUME NEW k \in 0..n, k # n, k \in G PROVE k + 1 \in G
  <2>1. k + 1 \in 1..n /\ (k + 1) - 1 = k /\ k + 1 \in 0..n
    BY <1>4
  <2>2. run[k + 1] = Executed(u[k + 1], run[k])
    BY <1>1, <2>1 DEF IsRun
  <2>3. Good(run[k])
    BY <1>4
  <2>. HIDE DEF Good
  <2>4. Good(run[k + 1])
    BY <1>3, <2>2, <2>3
  <2>. QED BY <2>1, <2>4
<1>5. n \in G
  <2>. HIDE DEF n, G
  <2>1. \A i \in 0..n : i \in G
    BY <1>2, <1>4, Induct
  <2>. QED BY <1>2, <2>1
<1>. QED BY <1>1, <1>5

\* What it is to fit the kinds of an export.
LEMMA KindFacts ==
  ASSUME NEW r
  PROVE  /\ Fits(r, OldKinds) <=> (r[1] = "notice_exports" /\ r[2] = "kind"
                                    => r[3] \in {"excel", "hwp", "proposal_hwp"})
         /\ Fits(r, NewKinds) <=> (r[1] = "notice_exports" /\ r[2] = "kind"
                                    => r[3] \in {"excel", "hwp", "bid_form_hwp", "proposal_hwp"})
<1>1. \A V : LET o == Domain("notice_exports", "kind", V)
             IN  o[1] = "domain" /\ o[2] = "notice_exports" /\ o[3] = "kind" /\ o[4] = V
  BY DEF Domain
<1>2. \A V : Fits(r, {Domain("notice_exports", "kind", V)})
               <=> (r[1] = "notice_exports" /\ r[2] = "kind" => r[3] \in V)
  <2>. TAKE V
  <2>1. PICK o : o = Domain("notice_exports", "kind", V)
    OBVIOUS
  <2>2. o[1] = "domain" /\ o[2] = "notice_exports" /\ o[3] = "kind" /\ o[4] = V
    BY <1>1, <2>1
  <2>3. Of("domain", {o}) = {o}
    BY <2>2 DEF Of
  <2>4. Fits(r, {o}) <=> (r[1] = "notice_exports" /\ r[2] = "kind" => r[3] \in V)
    BY <2>2, <2>3 DEF Fits
  <2>. QED BY <2>1, <2>4
<1>. QED BY <1>2 DEF OldKinds, NewKinds

\* A row that could be stored fits whatever is created again over it.
LEMMA StoredFits ==
  ASSUME NEW r, NEW n \in 0..HeadRev,
         {o \in CodeObjects : o[1] \in {"table", "column"} /\ o[2] = r[1]} \subseteq SchemaAt[n],
         Fits(r, SchemaAt[n])
  PROVE  Fits(r, Priority \cup Quality \cup NewKinds)
<1>1. \A X : X \subseteq SchemaAt[n] => Fits(r, X)
  BY DEF Fits, Of
<1>2. \A o \in Priority : o[2] = "notice_spec_items"
  BY AddedParts
<1>3. \A o \in Quality \cup NewKinds : o[2] = "notice_exports"
  BY AddedParts
<1>4. CASE r[1] = "notice_spec_items"
  <2>1. Column("notice_spec_items", "source_text") \in CodeObjects
    BY DEF CodeObjects, NoticeTables, Columns
  <2>2. Column("notice_spec_items", "source_text")[1] = "column"
        /\ Column("notice_spec_items", "source_text")[2] = "notice_spec_items"
    BY DEF Column
  <2>3. n >= 7
    BY <1>4, <2>1, <2>2, ColumnsCome
  <2>4. Fits(r, Priority)
    BY <1>1, <2>3, DomainsCome
  <2>. QED BY <1>3, <1>4, <2>4 DEF Fits, Of
<1>5. CASE r[1] = "notice_exports"
  <2>1. Column("notice_exports", "version") \in CodeObjects
    BY DEF CodeObjects, NoticeTables, Columns
  <2>2. Column("notice_exports", "version")[1] = "column"
        /\ Column("notice_exports", "version")[2] = "notice_exports"
    BY DEF Column
  <2>3. n >= 8
    BY <1>5, <2>1, <2>2, ColumnsCome
  <2>4. Fits(r, Quality)
    BY <1>1, <2>3, DomainsCome
  <2>5. Fits(r, OldKinds) \/ Fits(r, NewKinds)
    BY <1>1, <2>3, DomainsCome
  <2>6. Fits(r, OldKinds) => Fits(r, NewKinds)
    BY KindFacts
  <2>. QED BY <1>2, <1>5, <2>4, <2>5, <2>6 DEF Fits, Of
<1>6. CASE r[1] \notin {"notice_spec_items", "notice_exports"}
  BY <1>2, <1>3, <1>6 DEF Fits, Of
<1>. QED BY <1>4, <1>5, <1>6

\* What does not fit the old kinds, but the new ones.
LEMMA NewKind ==
  ASSUME NEW r, Fits(r, NewKinds), ~ Fits(r, OldKinds)
  PROVE  r[1] = "notice_exports" /\ r[2] = "kind" /\ r[3] = "bid_form_hwp"
BY KindFacts

\* The rows fit the CHECKs that come with 0007, 0008 and 0010, stored as they
\* are by the code of the head revision; those of a migration are rows of the
\* database, but for the dates it has filled in.
Stocked ==
  /\ Fitted(db.rows)
  /\ \A r \in db.rows : r[1] # "bid_pipeline" => r \in Rows
  /\ tx # <<>> => \A r \in tx[1].rows : r[1] # "bid_pipeline" => r \in db.rows

\* A notice fits them all.
LEMMA NoticesFit ==
  \A r : r[1] = "bid_pipeline" => Fits(r, Priority \cup Quality \cup NewKinds)
BY AddedParts DEF Fits, Of

\* Every step keeps it so.
LEMMA NextStocked == IInv /\ Stocked /\ [Next]_vars => Stocked'
<1>. SUFFICES ASSUME IInv, Stocked, [Next]_vars PROVE Stocked'
  OBVIOUS
<1>1. ASSUME NEW target, NEW booting, Start(target, booting), UNCHANGED db PROVE Stocked'
  BY <1>1 DEF Stocked, Start
<1>2. CASE Boot
  BY <1>1, <1>2 DEF Boot
<1>3. ASSUME NEW target \in Targets, Downgrade(target) PROVE Stocked'
  BY <1>1, <1>3 DEF Downgrade
<1>4. CASE Revision
  <2>. DEFINE t == tx[1]
              run == Ran(Script(t), t.schema, t.rows)
              next == IF Upwards(t) THEN t.rev + 1 ELSE t.rev - 1
  <2>1. /\ IsTx(t) /\ t.target \in 0..HeadRev /\ t.rev \in 0..HeadRev /\ t.rev # t.target
        /\ \A r \in t.rows : r[1] # "bid_pipeline" => r \in db.rows
    BY <1>4 DEF IInv, Stocked, Revision, Running, Reached
  <2>2. Len(Script(t)) \in Nat
    <3>1. CASE Upwards(t)
      <4>1. t.rev + 1 \in 1..HeadRev
        BY <2>1, <3>1, Revisions DEF Upwards
      <4>2. Script(t) = Up[t.rev + 1]
        BY <3>1 DEF Script
      <4>. HIDE DEF t
      <4>. QED BY <4>1, <4>2, Lengths
    <3>2. CASE ~ Upwards(t)
      <4>1. t.rev \in 1..HeadRev
        BY <2>1, <3>2, Revisions DEF Upwards
      <4>2. Script(t) = Down[t.rev]
        BY <3>2 DEF Script
      <4>. HIDE DEF t
      <4>. QED BY <4>1, <4>2, Lengths
    <3>. QED BY <3>1, <3>2
  <2>3. \A r \in run.rows : r \in t.rows \/ r[1] = "bid_pipeline"
    <3>. HIDE DEF t
    <3>. QED BY <2>2, ScriptStoresNone
  <2>4. tx' = <<Moved(t, next, run.schema, run.rows)>> /\ db' = db
    BY <1>4 DEF Revision, Moved
  <2>. HIDE DEF t, run, next
  <2>5. tx' = <<Tx(next, run.schema, run.rows, t.target, t.booting)>>
    BY <2>1, <2>4, MovedFacts
  <2>. QED BY <2>1, <2>3, <2>4, <2>5 DEF Stocked, Tx
<1>5. CASE RevisionFails
  BY <1>5 DEF RevisionFails, RolledBack, Stocked
<1>6. CASE Commit
  <2>1. db'.rows = tx[1].rows /\ tx' = <<>> /\ tx # <<>>
    BY <1>6 DEF Commit
  <2>2. \A r \in tx[1].rows : r[1] = "bid_pipeline" \/ r \in db.rows
    BY <2>1 DEF Stocked
  <2>3. Fitted(tx[1].rows)
    BY <2>2, NoticesFit DEF Stocked, Fitted
  <2>. QED BY <2>1, <2>2, <2>3 DEF Stocked
<1>7. CASE Crash
  BY <1>7 DEF Crash, RolledBack, Stocked
<1>8. ASSUME NEW r \in Rows, Store(r) PROVE Stocked'
  <2>1. db'.rows = db.rows \cup {r} /\ tx' = tx /\ tx = <<>>
    BY <1>8 DEF Store, Serves, IInv
  <2>2. Fits(r, Priority \cup Quality \cup NewKinds)
    <3>1. db.rev \in 0..HeadRev /\ db.schema = SchemaAt[db.rev]
      BY DEF IInv, Reached
    <3>2. /\ {o \in CodeObjects : o[1] \in {"table", "column"} /\ o[2] = r[1]} \subseteq db.schema
          /\ Fits(r, db.schema)
      BY <1>8 DEF Store
    <3>. QED BY <3>1, <3>2, StoredFits
  <2>. QED BY <2>1, <2>2 DEF Stocked, Fitted
<1>9. CASE E2ECleanup
  <2>1. db'.rows \subseteq db.rows /\ tx' = tx /\ tx = <<>>
    BY <1>9 DEF E2ECleanup, Serves, IInv
  <2>. QED BY <2>1 DEF Stocked, Fitted
<1>10. CASE UNCHANGED vars
  BY <1>10 DEF vars, Stocked
<1>. QED
  BY <1>2, <1>3, <1>4, <1>5, <1>6, <1>7, <1>8, <1>9, <1>10 DEF Next, Migrate

\* Only the way back from 0010 can be refused, and by a row of the new kind.
LEMMA Refused ==
  ASSUME NEW t, Reached(t.rev, t.schema), t.target \in 0..HeadRev, t.rev # t.target,
         Guests(t.rows, t.schema), ~ Ran(Script(t), t.schema, t.rows).ok
  PROVE  /\ t.rev = 10 /\ t.target < 10
         /\ \E r \in t.rows : r[1] = "notice_exports" /\ r[2] = "kind" /\ r[3] = "bid_form_hwp"
<1>1. t.rev \in 0..HeadRev /\ t.schema = SchemaAt[t.rev] /\ HeadRev = 13
  BY Revisions DEF Reached
<1>2. CASE Upwards(t)
  <2>1. PICK k \in 1..13 : k = t.rev + 1
    BY <1>1, <1>2 DEF Upwards
  <2>2. k - 1 = t.rev /\ Script(t) = Up[k] /\ k \in 1..HeadRev
    BY <1>1, <1>2, <2>1 DEF Script
  <2>3. Done(k - 1) /\ Fine(SchemaAt[k - 1]) /\ Guests(t.rows, SchemaAt[k - 1])
        /\ ~ Ran(Up[k], SchemaAt[k - 1], t.rows).ok
    BY <1>1, <2>2, AllDone
  <2>4. CASE k = 10
    <3>1. 10 - 1 = 9 /\ Up[10] = Up0010
      BY UpNames
    <3>2. /\ Done(9) /\ Fine(SchemaAt[9]) /\ Guests(t.rows, SchemaAt[9])
          /\ ~ Ran(Up0010, SchemaAt[9], t.rows).ok
      BY <2>3, <2>4, <3>1
    <3>. QED BY <3>2, Follows0010
  <2>5. CASE k # 10
    BY <2>2, <2>3, <2>5, AllFollow DEF Follows, Passes
  <2>. QED BY <2>4, <2>5
<1>3. CASE ~ Upwards(t)
  <2>1. PICK k \in 1..13 : k = t.rev
    BY <1>1, <1>3 DEF Upwards
  <2>2. /\ Script(t) = Down[k] /\ k \in 1..HeadRev /\ k - 1 \in 0..HeadRev /\ t.target < k
    BY <1>1, <1>3, <2>1 DEF Script, Upwards
  <2>3. Done(k - 1) /\ Fine(SchemaAt[k - 1])
    BY <2>2, AllDone
  <2>4. SchemaAt[k] = Ran(Up[k], SchemaAt[k - 1], {}).schema
    BY <2>2, SchemaAtFacts
  <2>5. ~ Ran(Down[k], SchemaAt[k], t.rows).ok
    BY <1>1, <2>1, <2>2
  <2>6. k = 10
    <3>1. ASSUME k # 10 PROVE FALSE
      <4>1. Passes(Up[k], Down[k], SchemaAt[k - 1])
        BY <2>2, <2>3, <3>1, AllFollow DEF Follows
      <4>. QED BY <2>4, <2>5, <4>1 DEF Passes
    <3>. QED BY <3>1
  <2>7. PICK r \in t.rows : ~ Fits(r, OldKinds)
    <3>1. 10 - 1 = 9 /\ Up[10] = Up0010 /\ Down[10] = Down0010
      BY UpNames, DownNames
    <3>2. /\ Done(9) /\ Fine(SchemaAt[9]) /\ SchemaAt[10] = Ran(Up0010, SchemaAt[9], {}).schema
          /\ ~ Ran(Down0010, SchemaAt[10], t.rows).ok
      BY <2>3, <2>4, <2>5, <2>6, <3>1
    <3>. QED BY <3>2, Follows0010
  <2>8. Fits(r, NewKinds)
    BY <2>7, FitFacts
  <2>9. r[1] = "notice_exports" /\ r[2] = "kind" /\ r[3] = "bid_form_hwp"
    BY <2>7, <2>8, NewKind
  <2>. QED BY <2>1, <2>2, <2>6, <2>7, <2>9
<1>. QED BY <1>2, <1>3

\* Of all scripts only the downgrade of 0010 can be refused, and only while an
\* export of the new kind is stored, whatever rows the API stores, wherever
\* one downgrades to and whenever the container dies: every other statement
\* of the thirteen upgrades and downgrades is legal where it runs.
THEOREM OnlyTheNewKindBlocksThm == Spec => OnlyTheNewKindBlocks
<1>. DEFINE Inv == IInv /\ Rooms /\ Stocked
<1>1. Init => Inv
  <2>1. Init => Rooms /\ Stocked
    BY NoGuests DEF Init, Rooms, Housed, Stocked, Guests
  <2>. QED BY <2>1, InitIInv
<1>2. Inv /\ [Next]_vars => Inv'
  BY NextIInv, NextRooms, NextStocked
<1>3. Inv /\ [Next]_vars =>
        [RevisionFails => /\ tx[1].rev = 10 /\ tx[1].target < 10
                          /\ <<"notice_exports", "kind", "bid_form_hwp">> \in db.rows]_vars
  <2>. SUFFICES ASSUME IInv, Rooms, Stocked, RevisionFails
                PROVE  /\ tx[1].rev = 10 /\ tx[1].target < 10
                       /\ <<"notice_exports", "kind", "bid_form_hwp">> \in db.rows
    OBVIOUS
  <2>1. PICK t : t = tx[1]
    OBVIOUS
  <2>2. tx # <<>> /\ t.rev # t.target /\ ~ Ran(Script(t), t.schema, t.rows).ok
    BY <2>1 DEF RevisionFails, Running
  <2>3. Reached(t.rev, t.schema) /\ t.target \in 0..HeadRev
    BY <2>1, <2>2 DEF IInv
  <2>4. \A r \in t.rows : r[1] = "bid_pipeline" \/ r \in db.rows
    BY <2>1, <2>2 DEF Stocked
  <2>5. Guests(t.rows, t.schema)
    <3>1. Housed(t.rows, t.schema)
      BY <2>1, <2>2 DEF Rooms
    <3>2. Fitted(t.rows)
      BY <2>4, NoticesFit DEF Stocked, Fitted
    <3>. QED BY <3>1, <3>2 DEF Guests
  <2>6. /\ t.rev = 10 /\ t.target < 10
        /\ \E r \in t.rows : r[1] = "notice_exports" /\ r[2] = "kind" /\ r[3] = "bid_form_hwp"
    BY <2>2, <2>3, <2>5, Refused
  <2>7. PICK r \in t.rows : r[1] = "notice_exports" /\ r[2] = "kind" /\ r[3] = "bid_form_hwp"
    BY <2>6
  <2>8. r \in db.rows /\ r \in Rows
    BY <2>4, <2>7 DEF Stocked
  <2>9. r = <<"notice_exports", "kind", "bid_form_hwp">>
    BY <2>7, <2>8, MigrationsAssumption
  <2>. QED BY <2>1, <2>6, <2>8, <2>9
<1>. HIDE DEF Inv
<1>. QED BY <1>1, <1>2, <1>3, PTL DEF Spec, OnlyTheNewKindBlocks

=============================================================================
