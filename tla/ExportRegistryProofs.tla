------------------------ MODULE ExportRegistryProofs ------------------------
(***************************************************************************)
(* Proofs about ExportRegistry, for any number of request slots, any       *)
(* selection of handlers and any number of exports.  The invariant says of *)
(* each transaction what it has still to run (Plan), which rows it keeps   *)
(* locked or has inserted (Keeps) and in which order a handler other than  *)
(* hwp-compose takes its locks (Ordered); that two transactions never hold *)
(* the same row (Apart); and what one that runs alone may rely on (Alone). *)
(***************************************************************************)
EXTENDS ExportRegistry, FiniteSetTheorems, WellFoundedInduction, TLAPS

Row == [kind : Kinds, state : RowStates]

Transaction == [op : OpNames \cup {"idle"}, todo : Seq(Kinds \cup {WriteNotice}),
                retiring : BOOLEAN, targets : SUBSET Nat, locked : SUBSET Nat,
                inserted : SUBSET Nat, holds : BOOLEAN, mirror : [Kinds -> Nat]]

Types ==
  /\ exports \in Seq(Row) /\ mirror \in [Kinds -> Nat]
  /\ req \in [Requests -> Transaction] /\ overlapped \subseteq Requests
  /\ \A r \in Requests : req[r].op = "idle" => req[r] = Idle

\* No kind is recorded twice.
Plan(c, table) ==
  /\ c.retiring => c.todo # <<>> /\ c.todo[1] \in Kinds
  /\ \A i, h \in 1..Len(c.todo) : c.todo[i] \in Kinds /\ c.todo[i] = c.todo[h] => i = h
  /\ \A e \in c.inserted : \A i \in 1..Len(c.todo) : c.todo[i] # table[e].kind

\* The rows a transaction keeps are in the state it found or gave them, and
\* each row it deletes is replaced.
Keeps(c, table) ==
  /\ c.targets \cup c.locked \cup c.inserted \subseteq 1..Len(table)
  /\ c.targets # {} => c.retiring
  /\ \A e \in c.targets : table[e].kind = c.todo[1]
  /\ \A e \in c.inserted : table[e].state = "open"
  /\ \A e \in c.locked :
       /\ table[e].state = "active"
       /\ \/ c.retiring /\ table[e].kind = c.todo[1]
          \/ \E i \in c.inserted : table[i].kind = table[e].kind

\* All but hwp-compose record one export and then write the notice row; they
\* lock the export rows in the order of id.
Ordered(c) ==
  c.op # "compose" =>
    /\ \A i \in 2..Len(c.todo) : c.todo[i] = WriteNotice
    /\ c.todo # <<>> /\ c.todo[1] \in Kinds => ~ c.holds /\ (~ c.retiring => c.locked = {})
    /\ c.retiring => \A e \in c.locked, f \in c.targets : e < f

Sound(c, table) == Plan(c, table) /\ Keeps(c, table) /\ Ordered(c)

Disjoint(c, d) == /\ c.locked \cap d.locked = {}
                  /\ c.inserted \cap d.inserted = {}
                  /\ ~ (c.holds /\ d.holds)

Apart == \A r \in Requests : \A q \in Requests \ {r} : Disjoint(req[q], req[r])

ActiveIn(table, k) == {e \in 1..Len(table) : table[e] = [kind |-> k, state |-> "active"]}

\* It has locked every active row of the kinds it has recorded.
Covers(c, table) ==
  /\ c.retiring => ActiveIn(table, c.todo[1]) \subseteq c.targets \cup c.locked
  /\ \A e \in c.inserted :
       /\ c.mirror[table[e].kind] = e
       /\ ActiveIn(table, table[e].kind) \subseteq c.locked
       /\ \A f \in c.inserted : table[f].kind = table[e].kind => f = e

Alone == \A r \in Busy \ overlapped : Busy = {r} /\ Covers(req[r], exports)

IInv == Types /\ (\A r \in Requests : Sound(req[r], exports)) /\ Apart /\ Alone
-----------------------------------------------------------------------------
(* Transactions and tables. *)

\* The table has finitely many rows, numbered from one.
LEMMA IdsFacts ==
  ASSUME Types
  PROVE  /\ Len(exports) \in Nat /\ Ids = 1..Len(exports) /\ DOMAIN exports = Ids
         /\ \A e \in Ids : exports[e] \in Row
         /\ \A k : Active(k) = ActiveIn(exports, k)
BY DEF Types, Ids, Active, ActiveIn

\* The statements of a handler: no kind twice, and only hwp-compose has an
\* export after its first statement.
LEMMA StatementsFacts ==
  ASSUME NEW op \in OpNames
  PROVE  /\ Statements(op) \in Seq(Kinds \cup {WriteNotice})
         /\ \A i, h \in 1..Len(Statements(op)) :
              Statements(op)[i] \in Kinds /\ Statements(op)[i] = Statements(op)[h] => i = h
         /\ op # "compose" => \A i \in 2..Len(Statements(op)) : Statements(op)[i] = WriteNotice
<1>1. \A k \in Kinds \ {WriteNotice} : <<k, WriteNotice>> \in Seq(Kinds \cup {WriteNotice})
  OBVIOUS
<1>. DEFINE s == Statements(op)
<1>2. WriteNotice \notin Kinds
  BY DEF WriteNotice, Kinds
<1>3. CASE op \in {"excel", "hwp", "put_bid_form", "put_proposal"}
  <2>1. \E k \in Kinds : s = <<k, WriteNotice>>
    BY <1>3 DEF Statements, Kinds
  <2>. HIDE DEF s
  <2>2. s \in Seq(Kinds \cup {WriteNotice}) /\ Len(s) = 2 /\ s[1] \in Kinds /\ s[2] = WriteNotice
    BY <2>1
  <2>3. 1..2 = {1, 2} /\ 2..2 = {2}
    OBVIOUS
  <2>4. /\ \A i, h \in 1..Len(s) : s[i] \in Kinds /\ s[i] = s[h] => i = h
        /\ \A i \in 2..Len(s) : s[i] = WriteNotice
    BY <1>2, <2>2, <2>3
  <2>. QED BY <2>2, <2>4 DEF s
<1>4. CASE op = "proposal"
  <2>1. s = <<"proposal_hwp", WriteNotice, WriteNotice>> /\ "proposal_hwp" \in Kinds
    BY <1>4 DEF Statements, Kinds
  <2>. HIDE DEF s
  <2>2. /\ s \in Seq(Kinds \cup {WriteNotice}) /\ Len(s) = 3
        /\ s[2] = WriteNotice /\ s[3] = WriteNotice
    BY <2>1
  <2>3. 1..3 = {1, 2, 3} /\ 2..3 = {2, 3}
    OBVIOUS
  <2>4. /\ \A i, h \in 1..Len(s) : s[i] \in Kinds /\ s[i] = s[h] => i = h
        /\ \A i \in 2..Len(s) : s[i] = WriteNotice
    BY <1>2, <2>2, <2>3
  <2>. QED BY <2>2, <2>4 DEF s
<1>5. CASE op = "compose"
  <2>1. s = <<"bid_form_hwp", WriteNotice, "hwp", WriteNotice>>
        /\ "bid_form_hwp" \in Kinds /\ "hwp" \in Kinds /\ "bid_form_hwp" # "hwp"
    BY <1>5 DEF Statements, Kinds
  <2>. HIDE DEF s
  <2>2. /\ s \in Seq(Kinds \cup {WriteNotice}) /\ Len(s) = 4 /\ s[1] # s[3]
        /\ s[2] = WriteNotice /\ s[4] = WriteNotice
    BY <2>1
  <2>3. 1..4 = {1, 2, 3, 4}
    OBVIOUS
  <2>4. \A i, h \in 1..Len(s) : s[i] \in Kinds /\ s[i] = s[h] => i = h
    BY <1>2, <2>2, <2>3
  <2>. QED BY <1>5, <2>2, <2>4 DEF s
<1>6. CASE op = "edit"
  <2>1. s = <<WriteNotice>>
    BY <1>6 DEF Statements
  <2>. HIDE DEF s
  <2>2. s \in Seq(Kinds \cup {WriteNotice}) /\ Len(s) = 1
    BY <2>1
  <2>. QED BY <2>2 DEF s
<1>. QED BY <1>3, <1>4, <1>5, <1>6 DEF OpNames

\* An idle slot holds nothing.
LEMMA IdleSound ==
  ASSUME NEW table
  PROVE  /\ Idle \in Transaction /\ Sound(Idle, table)
         /\ \A c : Disjoint(c, Idle)
<1>1. <<>> \in Seq(Kinds \cup {WriteNotice}) /\ Len(<<>>) = 0 /\ {} \in SUBSET Nat
      /\ [k \in Kinds |-> 0] \in [Kinds -> Nat]
  OBVIOUS
<1>2. Idle \in Transaction
  BY <1>1 DEF Idle, Transaction
<1>3. Sound(Idle, table)
  BY <1>1 DEF Idle, Sound, Plan, Keeps, Ordered
<1>. QED BY <1>2, <1>3 DEF Idle, Disjoint

\* The statement that is next, and the ones left after it.
LEMMA NextStatement ==
  ASSUME NEW c \in Transaction, c.todo # <<>>
  PROVE  /\ Len(c.todo) \in Nat \ {0} /\ Head(c.todo) = c.todo[1]
         /\ c.todo[1] \in Kinds \cup {WriteNotice}
         /\ Tail(c.todo) \in Seq(Kinds \cup {WriteNotice})
         /\ Len(Tail(c.todo)) = Len(c.todo) - 1
         /\ \A i \in 1..Len(Tail(c.todo)) : i + 1 \in 2..Len(c.todo) /\ Tail(c.todo)[i] = c.todo[i + 1]
         /\ Tail(c.todo) # <<>> => 2 \in 2..Len(c.todo) /\ Tail(c.todo)[1] = c.todo[2]
<1>1. c.todo \in Seq(Kinds \cup {WriteNotice})
  BY DEF Transaction
<1>. QED BY <1>1

\* A transaction stays sound while rows are added and the rows it keeps stay
\* as they are.
LEMMA SoundStays ==
  ASSUME NEW table \in Seq(Row), NEW table2 \in Seq(Row), Len(table) <= Len(table2),
         \A e \in 1..Len(table) : table2[e].kind = table[e].kind,
         NEW c \in Transaction, Sound(c, table),
         \A e \in c.locked \cup c.inserted : table2[e].state = table[e].state
  PROVE  Sound(c, table2)
<1>1. c.targets \cup c.locked \cup c.inserted \subseteq 1..Len(table)
  BY DEF Sound, Keeps
<1>2. 1..Len(table) \subseteq 1..Len(table2)
  OBVIOUS
<1>3. Plan(c, table2)
  BY <1>1 DEF Sound, Plan
<1>4. Keeps(c, table2)
  BY <1>1, <1>2 DEF Sound, Keeps
<1>. QED BY <1>3, <1>4 DEF Sound

\* One busy slot changes and the table may: what is left to show.
LEMMA SlotKeepsIInv ==
  ASSUME IInv, NEW r \in Busy, NEW slot \in Transaction, slot.op = "idle" => slot = Idle,
         req' = [req EXCEPT ![r] = slot],
         exports' \in Seq(Row), mirror' \in [Kinds -> Nat], overlapped' = overlapped,
         Sound(slot, exports'), \A q \in Requests \ {r} : Disjoint(req[q], slot),
         \A q \in Requests \ {r} : Sound(req[q], exports'),
         slot # Idle /\ r \notin overlapped => Covers(slot, exports')
  PROVE  IInv'
<1>1. Types /\ Apart /\ Alone /\ r \in Requests
  BY DEF IInv, Busy
<1>2. req'[r] = slot /\ \A q \in Requests \ {r} : req'[q] = req[q]
  BY <1>1 DEF Types
<1>3. Types'
  BY <1>1, <1>2 DEF Types
<1>4. \A q \in Requests : Sound(req'[q], exports')
  BY <1>2
<1>5. Apart'
  BY <1>1, <1>2 DEF Apart, Disjoint
<1>6. Alone'
  <2>1. Busy' \subseteq Busy
    BY <1>2 DEF Busy
  <2>. SUFFICES ASSUME NEW q \in Busy', q \notin overlapped'
                PROVE  Busy' = {q} /\ Covers(req'[q], exports')
    BY DEF Alone
  <2>2. q \in Busy \ overlapped /\ Busy = {q} /\ q = r
    BY <1>1, <2>1 DEF Alone
  <2>3. slot # Idle
    BY <1>2, <2>2 DEF Busy, Idle
  <2>. QED BY <1>2, <2>1, <2>2, <2>3
<1>. QED BY <1>3, <1>4, <1>5, <1>6 DEF IInv
-----------------------------------------------------------------------------
(* The steps of one request. *)

\* What the invariant says of a busy request.
LEMMA BusyFacts ==
  ASSUME IInv, NEW r \in Requests, req[r].todo # <<>> \/ req[r].retiring \/ r \in Busy
  PROVE  /\ r \in Busy /\ req[r] \in Transaction /\ req[r].op # "idle"
         /\ Sound(req[r], exports)
         /\ \A q \in Requests \ {r} : Disjoint(req[q], req[r]) /\ Sound(req[q], exports)
         /\ r \notin overlapped => Covers(req[r], exports)
<1>1. req[r] \in Transaction /\ Sound(req[r], exports) /\ (req[r].op = "idle" => req[r] = Idle)
  BY DEF IInv, Types
<1>2. r \in Busy
  BY <1>1 DEF Idle, Busy
<1>3. \A q \in Requests \ {r} : Disjoint(req[q], req[r]) /\ Sound(req[q], exports)
  BY DEF IInv, Apart
<1>4. r \notin overlapped => Covers(req[r], exports)
  BY <1>2 DEF IInv, Alone
<1>. QED BY <1>1, <1>2, <1>3, <1>4 DEF Busy

\* A step that leaves the tables alone.
LEMMA QuietStepKeepsIInv ==
  ASSUME IInv, NEW r \in Busy, NEW slot \in Transaction, slot.op = req[r].op,
         req' = [req EXCEPT ![r] = slot], UNCHANGED <<exports, mirror, overlapped>>,
         Sound(slot, exports), \A q \in Requests \ {r} : Disjoint(req[q], slot),
         r \notin overlapped => Covers(slot, exports)
  PROVE  IInv'
<1>1. \A q \in Requests \ {r} : Sound(req[q], exports)
  BY DEF IInv
<1>2. slot.op # "idle"
  BY DEF Busy
<1>3. exports \in Seq(Row) /\ mirror \in [Kinds -> Nat]
  BY DEF IInv, Types
<1>. QED BY <1>1, <1>2, <1>3, SlotKeepsIInv

\* The UPDATE of _record_export finds the active rows of the kind.
LEMMA GenerateKeepsIInv ==
  ASSUME IInv, NEW r \in Requests, Generate(r)
  PROVE  IInv'
<1>. DEFINE c == req[r]
            slot == [c EXCEPT !.retiring = TRUE, !.targets = Active(Head(c.todo))]
<1>1. /\ r \in Busy /\ c \in Transaction /\ c.op # "idle" /\ Sound(c, exports)
      /\ \A q \in Requests \ {r} : Disjoint(req[q], c) /\ Sound(req[q], exports)
      /\ r \notin overlapped => Covers(c, exports)
  BY BusyFacts DEF Generate
<1>2. c.todo # <<>> /\ c.todo[1] \in Kinds /\ Head(c.todo) = c.todo[1] /\ c.retiring = FALSE
  BY <1>1, NextStatement DEF Generate, Transaction
<1>3. /\ Ids = 1..Len(exports) /\ Active(c.todo[1]) = ActiveIn(exports, c.todo[1])
      /\ Len(exports) \in Nat
  BY IdsFacts DEF IInv
<1>4. ActiveIn(exports, c.todo[1]) \in SUBSET (1..Len(exports))
      /\ \A e \in ActiveIn(exports, c.todo[1]) : exports[e].kind = c.todo[1]
  BY DEF ActiveIn
<1>5. /\ slot \in Transaction /\ slot.op = c.op /\ slot.todo = c.todo /\ slot.retiring = TRUE
      /\ slot.targets = ActiveIn(exports, c.todo[1]) /\ slot.locked = c.locked
      /\ slot.inserted = c.inserted /\ slot.holds = c.holds /\ slot.mirror = c.mirror
  <2>1. ActiveIn(exports, c.todo[1]) \in SUBSET Nat
    BY <1>3, <1>4
  <2>2. slot = [c EXCEPT !.retiring = TRUE, !.targets = ActiveIn(exports, c.todo[1])]
    BY <1>2, <1>3
  <2>. HIDE DEF slot
  <2>. QED BY <1>1, <2>1, <2>2 DEF Transaction
<1>6. req' = [req EXCEPT ![r] = slot] /\ UNCHANGED <<exports, mirror, overlapped>>
  BY <1>1 DEF Generate, IInv, Types
<1>. HIDE DEF slot, c
<1>7. Plan(slot, exports)
  BY <1>1, <1>2, <1>5 DEF Sound, Plan
<1>8. Keeps(slot, exports)
  BY <1>1, <1>2, <1>4, <1>5 DEF Sound, Keeps
<1>9. Ordered(slot)
  BY <1>1, <1>2, <1>5 DEF Sound, Ordered
<1>10. \A q \in Requests \ {r} : Disjoint(req[q], slot)
  BY <1>1, <1>5 DEF Disjoint
<1>11. r \notin overlapped => Covers(slot, exports)
  BY <1>1, <1>5 DEF Covers
<1>. QED BY <1>1, <1>5, <1>6, <1>7, <1>8, <1>9, <1>10, <1>11, QuietStepKeepsIInv DEF Sound, c

\* A statement is over, or an export is given up: the next one is up.
LEMMA AdvanceKeepsIInv ==
  ASSUME IInv, NEW r \in Requests, NEW c, c = req[r], c.todo # <<>>, ~ c.retiring,
         NEW slot \in {[c EXCEPT !.todo = Tail(@)], [c EXCEPT !.holds = TRUE, !.todo = Tail(@)]},
         slot.holds => c.holds \/ \A q \in Requests \ {r} : ~ req[q].holds,
         slot.holds => c.holds \/ c.todo[1] = WriteNotice,
         req' = [req EXCEPT ![r] = slot], UNCHANGED <<exports, mirror, overlapped>>
  PROVE  IInv'
<1>1. /\ r \in Busy /\ c \in Transaction /\ c.op # "idle" /\ Sound(c, exports)
      /\ \A q \in Requests \ {r} : Disjoint(req[q], c) /\ Sound(req[q], exports)
      /\ r \notin overlapped => Covers(c, exports)
  BY BusyFacts
<1>2. /\ Tail(c.todo) \in Seq(Kinds \cup {WriteNotice})
      /\ Len(Tail(c.todo)) = Len(c.todo) - 1 /\ Len(c.todo) \in Nat \ {0}
      /\ \A i \in 1..Len(Tail(c.todo)) :
           i + 1 \in 2..Len(c.todo) /\ Tail(c.todo)[i] = c.todo[i + 1]
      /\ Tail(c.todo) # <<>> => 2 \in 2..Len(c.todo) /\ Tail(c.todo)[1] = c.todo[2]
  BY <1>1, NextStatement
<1>3. /\ slot \in Transaction /\ slot.op = c.op /\ slot.todo = Tail(c.todo)
      /\ slot.retiring = FALSE /\ slot.targets = c.targets /\ slot.locked = c.locked
      /\ slot.inserted = c.inserted /\ slot.mirror = c.mirror
      /\ slot.holds \in {c.holds, TRUE}
  BY <1>1, <1>2 DEF Transaction
<1>4. Plan(slot, exports)
  <2>1. \A i \in 1..Len(slot.todo) :
          i + 1 \in 1..Len(c.todo) /\ slot.todo[i] = c.todo[i + 1] /\ i \in Nat
    BY <1>2, <1>3
  <2>2. \A i, h \in 1..Len(slot.todo) : slot.todo[i] \in Kinds /\ slot.todo[i] = slot.todo[h] => i = h
    <3>. SUFFICES ASSUME NEW i \in 1..Len(slot.todo), NEW h \in 1..Len(slot.todo),
                         slot.todo[i] \in Kinds, slot.todo[i] = slot.todo[h]
                  PROVE  i = h
      OBVIOUS
    <3>1. c.todo[i + 1] \in Kinds /\ c.todo[i + 1] = c.todo[h + 1]
      BY <2>1
    <3>2. i + 1 = h + 1
      BY <1>1, <2>1, <3>1 DEF Sound, Plan
    <3>. QED BY <2>1, <3>2
  <2>3. \A e \in c.inserted : \A i \in 1..Len(slot.todo) : slot.todo[i] # exports[e].kind
    BY <1>1, <2>1 DEF Sound, Plan
  <2>. QED BY <1>3, <2>2, <2>3 DEF Plan
<1>5. Keeps(slot, exports)
  BY <1>1, <1>3 DEF Sound, Keeps
<1>6. Ordered(slot)
  <2>. SUFFICES ASSUME c.op # "compose"
                PROVE  /\ \A i \in 2..Len(slot.todo) : slot.todo[i] = WriteNotice
                       /\ slot.todo # <<>> => slot.todo[1] \notin Kinds
    BY <1>3 DEF Ordered
  <2>1. \A i \in 2..Len(c.todo) : c.todo[i] = WriteNotice
    BY <1>1 DEF Sound, Ordered
  <2>2. WriteNotice \notin Kinds
    BY DEF WriteNotice, Kinds
  <2>3. 2..Len(slot.todo) \subseteq 1..Len(slot.todo)
    BY <1>2, <1>3
  <2>. QED BY <1>2, <1>3, <2>1, <2>2, <2>3
<1>7. \A q \in Requests \ {r} : Disjoint(req[q], slot)
  BY <1>1, <1>3 DEF Disjoint
<1>8. r \notin overlapped => Covers(slot, exports)
  BY <1>1, <1>3 DEF Covers
<1>. QED BY <1>1, <1>3, <1>4, <1>5, <1>6, <1>7, <1>8, QuietStepKeepsIInv DEF Sound

\* One row of the UPDATE is locked, or was deleted by somebody else.
LEMMA RetireKeepsIInv ==
  ASSUME IInv, NEW r \in Requests, Retire(r)
  PROVE  IInv'
<1>. DEFINE c == req[r]
<1>1. /\ r \in Busy /\ c \in Transaction /\ c.op # "idle" /\ Sound(c, exports)
      /\ \A q \in Requests \ {r} : Disjoint(req[q], c) /\ Sound(req[q], exports)
      /\ r \notin overlapped => Covers(c, exports)
  BY BusyFacts DEF Retire
<1>2. PICK e \in c.targets :
        /\ NextTarget(r, e)
        /\ \A q \in Requests \ {r} : e \notin req[q].locked
        /\ req' = [req EXCEPT ![r].targets = @ \ {e},
                              ![r].locked = IF exports[e].state = "active" THEN @ \cup {e} ELSE @]
  BY DEF Retire
<1>. DEFINE grown == IF exports[e].state = "active" THEN c.locked \cup {e} ELSE c.locked
            slot == [c EXCEPT !.targets = c.targets \ {e}, !.locked = grown]
<1>3. /\ c.retiring /\ c.targets \in SUBSET Nat /\ c.locked \in SUBSET Nat
      /\ UNCHANGED <<exports, mirror, overlapped>>
      /\ \A f \in c.targets : e <= f
  BY <1>1, <1>2 DEF Retire, Transaction, NextTarget
<1>4. req' = [req EXCEPT ![r] = slot]
  BY <1>1, <1>2 DEF IInv, Types
<1>5. grown \in SUBSET Nat /\ c.locked \subseteq grown /\ grown \subseteq c.locked \cup {e}
      /\ (e \in grown \/ exports[e].state # "active")
      /\ (e \in c.locked \/ e \notin grown \/ exports[e].state = "active")
  BY <1>2, <1>3
<1>. HIDE DEF grown
<1>6. /\ slot \in Transaction /\ slot.op = c.op /\ slot.todo = c.todo /\ slot.retiring = c.retiring
      /\ slot.targets = c.targets \ {e} /\ slot.locked = grown
      /\ slot.inserted = c.inserted /\ slot.holds = c.holds /\ slot.mirror = c.mirror
  BY <1>1, <1>3, <1>5 DEF Transaction
<1>. HIDE DEF slot, c
<1>7. Plan(slot, exports)
  BY <1>1, <1>6 DEF Sound, Plan
<1>8. Keeps(slot, exports)
  BY <1>1, <1>2, <1>3, <1>5, <1>6 DEF Sound, Keeps
<1>9. Ordered(slot)
  <2>1. \A f \in c.targets \ {e} : e < f
    BY <1>2, <1>3
  <2>. QED BY <1>1, <1>3, <1>5, <1>6, <2>1 DEF Sound, Ordered
<1>10. \A q \in Requests \ {r} : Disjoint(req[q], slot)
  BY <1>1, <1>2, <1>5, <1>6 DEF Disjoint
<1>11. r \notin overlapped => Covers(slot, exports)
  <2>. SUFFICES ASSUME Covers(c, exports) PROVE Covers(slot, exports)
    BY <1>1
  <2>1. ActiveIn(exports, c.todo[1]) \subseteq slot.targets \cup slot.locked
    BY <1>3, <1>5, <1>6 DEF Covers, ActiveIn
  <2>. QED BY <1>5, <1>6, <2>1 DEF Covers
<1>. QED BY <1>1, <1>3, <1>4, <1>6, <1>7, <1>8, <1>9, <1>10, <1>11, QuietStepKeepsIInv DEF Sound, c

\* The INSERT: a row that only its transaction sees.
LEMMA InsertKeepsIInv ==
  ASSUME IInv, NEW r \in Requests, Insert(r)
  PROVE  IInv'
<1>. DEFINE c == req[r]
            n == Len(exports) + 1
            k == c.todo[1]
            row == [kind |-> k, state |-> "open"]
            slot == [c EXCEPT !.retiring = FALSE, !.todo = Tail(c.todo),
                              !.inserted = c.inserted \cup {n}, !.mirror[k] = n]
<1>1. /\ r \in Busy /\ c \in Transaction /\ c.op # "idle" /\ Sound(c, exports)
      /\ \A q \in Requests \ {r} : Disjoint(req[q], c) /\ Sound(req[q], exports)
      /\ r \notin overlapped => Covers(c, exports)
  BY BusyFacts DEF Insert
<1>2. /\ c.retiring /\ c.targets = {} /\ c.todo # <<>> /\ k \in Kinds
  BY <1>1 DEF Insert, Sound, Plan
<1>3. /\ Head(c.todo) = k /\ Tail(c.todo) \in Seq(Kinds \cup {WriteNotice})
      /\ Len(Tail(c.todo)) = Len(c.todo) - 1 /\ Len(c.todo) \in Nat \ {0}
      /\ \A i \in 1..Len(Tail(c.todo)) :
           i + 1 \in 2..Len(c.todo) /\ Tail(c.todo)[i] = c.todo[i + 1]
      /\ Tail(c.todo) # <<>> => 2 \in 2..Len(c.todo) /\ Tail(c.todo)[1] = c.todo[2]
  BY <1>1, <1>2, NextStatement
<1>4. /\ exports' = Append(exports, row) /\ req' = [req EXCEPT ![r] = slot]
      /\ UNCHANGED <<mirror, overlapped>>
  <2>1. req \in [Requests -> Transaction]
    BY DEF IInv, Types
  <2>2. /\ exports' = Append(exports, [kind |-> Head(c.todo), state |-> "open"])
        /\ req' = [req EXCEPT ![r].retiring = FALSE, ![r].todo = Tail(@),
                              ![r].inserted = @ \cup {n}, ![r].mirror[Head(c.todo)] = n]
        /\ UNCHANGED <<mirror, overlapped>>
    BY DEF Insert
  <2>3. DOMAIN req = Requests /\ k = Head(c.todo)
    BY <1>3, <2>1
  <2>4. req' = [req EXCEPT ![r] = slot]
    BY <2>2, <2>3
  <2>. QED BY <2>2, <2>3, <2>4
<1>5. row \in Row /\ exports \in Seq(Row) /\ Len(exports) \in Nat /\ n \in Nat
  BY <1>2 DEF Row, RowStates, IInv, Types
<1>6. /\ exports' \in Seq(Row) /\ Len(exports') = n /\ exports'[n] = row
      /\ \A e \in 1..Len(exports) : exports'[e] = exports[e]
      /\ 1..n = (1..Len(exports)) \cup {n} /\ n \notin 1..Len(exports)
  BY <1>4, <1>5
<1>7. /\ slot \in Transaction /\ slot.op = c.op /\ slot.todo = Tail(c.todo)
      /\ slot.retiring = FALSE /\ slot.targets = {} /\ slot.locked = c.locked
      /\ slot.inserted = c.inserted \cup {n} /\ slot.holds = c.holds
      /\ slot.mirror[k] = n /\ \A h \in Kinds \ {k} : slot.mirror[h] = c.mirror[h]
  <2>1. [c.mirror EXCEPT ![k] = n] \in [Kinds -> Nat] /\ c.inserted \cup {n} \in SUBSET Nat
    BY <1>1, <1>5 DEF Transaction
  <2>2. slot = [c EXCEPT !.retiring = FALSE, !.todo = Tail(c.todo),
                         !.inserted = c.inserted \cup {n}, !.mirror = [c.mirror EXCEPT ![k] = n]]
    OBVIOUS
  <2>3. slot.mirror = [c.mirror EXCEPT ![k] = n]
    BY <1>1, <2>2 DEF Transaction
  <2>. QED BY <1>1, <1>2, <1>3, <2>1, <2>2, <2>3 DEF Transaction
<1>8. row.kind = k /\ row.state = "open"
  OBVIOUS
<1>. HIDE DEF slot, row, n
<1>9. c.targets \cup c.locked \cup c.inserted \subseteq 1..Len(exports)
  BY <1>1 DEF Sound, Keeps
<1>10. Plan(slot, exports')
  <2>1. \A i \in 1..Len(slot.todo) :
          /\ i + 1 \in 1..Len(c.todo) /\ slot.todo[i] = c.todo[i + 1] /\ i \in Nat
          /\ 1 \in 1..Len(c.todo) /\ i + 1 # 1
    BY <1>3, <1>7
  <2>2. \A i, h \in 1..Len(slot.todo) : slot.todo[i] \in Kinds /\ slot.todo[i] = slot.todo[h] => i = h
    <3>. SUFFICES ASSUME NEW i \in 1..Len(slot.todo), NEW h \in 1..Len(slot.todo),
                         slot.todo[i] \in Kinds, slot.todo[i] = slot.todo[h]
                  PROVE  i = h
      OBVIOUS
    <3>1. c.todo[i + 1] \in Kinds /\ c.todo[i + 1] = c.todo[h + 1]
      BY <2>1
    <3>2. i + 1 = h + 1
      BY <1>1, <2>1, <3>1 DEF Sound, Plan
    <3>. QED BY <2>1, <3>2
  <2>3. \A i \in 1..Len(slot.todo) : slot.todo[i] # k
    BY <1>1, <1>2, <2>1 DEF Sound, Plan
  <2>4. \A e \in c.inserted : \A i \in 1..Len(slot.todo) : slot.todo[i] # exports[e].kind
    BY <1>1, <2>1 DEF Sound, Plan
  <2>. HIDE DEF k
  <2>. QED BY <1>6, <1>7, <1>8, <1>9, <2>2, <2>3, <2>4 DEF Plan
<1>11. Keeps(slot, exports')
  <2>1. \A e \in c.locked :
          /\ exports[e].state = "active"
          /\ exports[e].kind = k \/ \E i \in c.inserted : exports[i].kind = exports[e].kind
    BY <1>1 DEF Sound, Keeps
  <2>2. \A e \in c.inserted : exports[e].state = "open"
    BY <1>1 DEF Sound, Keeps
  <2>. HIDE DEF k
  <2>. QED BY <1>6, <1>7, <1>8, <1>9, <2>1, <2>2 DEF Keeps
<1>12. Ordered(slot)
  <2>. SUFFICES ASSUME c.op # "compose"
                PROVE  /\ \A i \in 2..Len(slot.todo) : slot.todo[i] = WriteNotice
                       /\ slot.todo # <<>> => slot.todo[1] \notin Kinds
    BY <1>7 DEF Ordered
  <2>1. \A i \in 2..Len(c.todo) : c.todo[i] = WriteNotice
    BY <1>1 DEF Sound, Ordered
  <2>2. WriteNotice \notin Kinds
    BY DEF WriteNotice, Kinds
  <2>3. 2..Len(slot.todo) \subseteq 1..Len(slot.todo)
    BY <1>3, <1>7
  <2>. QED BY <1>3, <1>7, <2>1, <2>2, <2>3
<1>13. \A q \in Requests \ {r} :
         req[q].targets \cup req[q].locked \cup req[q].inserted \subseteq 1..Len(exports)
  BY <1>1 DEF Sound, Keeps
<1>14. \A q \in Requests \ {r} : Disjoint(req[q], slot)
  BY <1>1, <1>6, <1>7, <1>13 DEF Disjoint
<1>15. \A q \in Requests \ {r} : Sound(req[q], exports')
  <2>. SUFFICES ASSUME NEW q \in Requests \ {r} PROVE Sound(req[q], exports')
    OBVIOUS
  <2>1. req[q] \in Transaction /\ Len(exports) <= Len(exports')
    BY <1>5, <1>6 DEF IInv, Types, n
  <2>2. \A e \in 1..Len(exports) : exports'[e].kind = exports[e].kind
    BY <1>6
  <2>3. \A e \in req[q].locked \cup req[q].inserted : exports'[e].state = exports[e].state
    BY <1>6, <1>13
  <2>. QED BY <1>1, <1>5, <1>6, <2>1, <2>2, <2>3, SoundStays
<1>16. r \notin overlapped => Covers(slot, exports')
  <2>. SUFFICES ASSUME Covers(c, exports) PROVE Covers(slot, exports')
    BY <1>1
  <2>1. \A h : ActiveIn(exports', h) = ActiveIn(exports, h)
    BY <1>6, <1>8 DEF ActiveIn
  <2>2. ActiveIn(exports, k) \subseteq c.locked
    BY <1>2 DEF Covers
  <2>3. \A e \in c.inserted : exports[e].kind \in Kinds \ {k}
    <3>1. 1 \in 1..Len(c.todo)
      BY <1>3
    <3>2. \A e \in c.inserted : exports[e].kind # k
      BY <1>1, <3>1 DEF Sound, Plan
    <3>3. \A e \in 1..Len(exports) : exports[e] \in Row
      BY <1>5
    <3>4. \A e \in 1..Len(exports) : exports[e].kind \in Kinds
      BY <3>3 DEF Row
    <3>. QED BY <1>9, <3>2, <3>4
  <2>. HIDE DEF k
  <2>4. ASSUME NEW e \in slot.inserted
        PROVE  /\ slot.mirror[exports'[e].kind] = e
               /\ ActiveIn(exports', exports'[e].kind) \subseteq slot.locked
               /\ \A f \in slot.inserted : exports'[f].kind = exports'[e].kind => f = e
    <3>1. CASE e = n
      BY <1>6, <1>7, <1>8, <1>9, <2>1, <2>2, <2>3, <3>1
    <3>2. CASE e \in c.inserted
      <4>1. /\ c.mirror[exports[e].kind] = e /\ ActiveIn(exports, exports[e].kind) \subseteq c.locked
            /\ \A f \in c.inserted : exports[f].kind = exports[e].kind => f = e
        BY <3>2 DEF Covers
      <4>. QED BY <1>6, <1>7, <1>8, <1>9, <2>1, <2>3, <3>2, <4>1
    <3>. QED BY <1>7, <3>1, <3>2
  <2>. QED BY <1>7, <2>4 DEF Covers
<1>17. mirror' \in [Kinds -> Nat] /\ slot.op # "idle"
  BY <1>1, <1>4, <1>7 DEF IInv, Types
<1>. HIDE DEF c
<1>. QED BY <1>1, <1>4, <1>6, <1>7, <1>10, <1>11, <1>12, <1>14, <1>15, <1>16, <1>17, SlotKeepsIInv
     DEF Sound
\* What an abort leaves of the table: the rows it had inserted are gone.
LEMMA AbortEffect ==
  ASSUME IInv, NEW r \in Requests, Abort(r)
  PROVE  /\ exports' \in Seq(Row) /\ Len(exports') = Len(exports)
         /\ \A e \in Ids : /\ exports'[e].kind = exports[e].kind
                           /\ e \in req[r].inserted => exports'[e].state = "gone"
                           /\ e \notin req[r].inserted => exports'[e] = exports[e]
<1>1. /\ Len(exports) \in Nat /\ Ids = 1..Len(exports) /\ \A e \in Ids : exports[e] \in Row
  BY IdsFacts DEF IInv
<1>2. \A e \in Ids : /\ [exports[e] EXCEPT !.state = "gone"] \in Row
                     /\ [exports[e] EXCEPT !.state = "gone"].kind = exports[e].kind
                     /\ [exports[e] EXCEPT !.state = "gone"].state = "gone"
  BY <1>1 DEF Row, RowStates
<1>3. exports' = [e \in Ids |-> IF e \in req[r].inserted
                                  THEN [exports[e] EXCEPT !.state = "gone"] ELSE exports[e]]
  BY DEF Abort, RolledBack
<1>. QED BY <1>1, <1>2, <1>3

\* An abort leaves nothing of the transaction.
LEMMA AbortKeepsIInv ==
  ASSUME IInv, NEW r \in Busy, Abort(r)
  PROVE  IInv'
<1>1. r \in Requests /\ Sound(req[r], exports)
      /\ \A q \in Requests \ {r} : Disjoint(req[q], req[r]) /\ Sound(req[q], exports)
  BY BusyFacts DEF Busy
<1>2. /\ exports' \in Seq(Row) /\ Len(exports') = Len(exports)
      /\ \A e \in Ids : /\ exports'[e].kind = exports[e].kind
                        /\ e \notin req[r].inserted => exports'[e] = exports[e]
  BY <1>1, AbortEffect
<1>3. Ids = 1..Len(exports) /\ exports \in Seq(Row) /\ mirror \in [Kinds -> Nat]
      /\ Len(exports) \in Nat
  BY IdsFacts DEF IInv, Types
<1>4. ASSUME NEW q \in Requests \ {r} PROVE Sound(req[q], exports')
  <2>1. req[q] \in Transaction /\ Len(exports) <= Len(exports')
    BY <1>2, <1>3 DEF IInv, Types
  <2>2. \A e \in req[q].locked \cup req[q].inserted :
          e \in Ids /\ e \notin req[r].inserted
    <3>1. /\ \A e \in req[q].locked : e \in Ids /\ exports[e].state = "active"
          /\ \A e \in req[q].inserted : e \in Ids
          /\ \A e \in req[r].inserted : exports[e].state = "open"
      BY <1>1, <1>3 DEF Sound, Keeps
    <3>. QED BY <1>1, <3>1 DEF Disjoint
  <2>3. \A e \in req[q].locked \cup req[q].inserted : exports'[e].state = exports[e].state
    BY <1>2, <2>2
  <2>. QED BY <1>1, <1>2, <1>3, <2>1, <2>3, SoundStays
<1>5. req' = [req EXCEPT ![r] = Idle] /\ mirror' = mirror /\ overlapped' = overlapped
  BY DEF Abort
<1>. QED BY <1>2, <1>3, <1>4, <1>5, IdleSound, SlotKeepsIInv

\* What a commit makes of the table.
LEMMA CommitEffect ==
  ASSUME IInv, NEW r \in Requests, Commit(r)
  PROVE  /\ exports' \in Seq(Row) /\ Len(exports') = Len(exports)
         /\ \A e \in Ids :
              /\ exports'[e].kind = exports[e].kind
              /\ e \in req[r].inserted => exports'[e].state = "active"
              /\ e \in req[r].locked => exports'[e].state = "deleted"
              /\ e \notin req[r].inserted \cup req[r].locked => exports'[e] = exports[e]
<1>1. /\ Len(exports) \in Nat /\ Ids = 1..Len(exports) /\ \A e \in Ids : exports[e] \in Row
  BY IdsFacts DEF IInv
<1>2. ASSUME NEW e \in Ids, NEW s \in {"active", "deleted"}
      PROVE  /\ [exports[e] EXCEPT !.state = s] \in Row
             /\ [exports[e] EXCEPT !.state = s].kind = exports[e].kind
             /\ [exports[e] EXCEPT !.state = s].state = s
  BY <1>1 DEF Row, RowStates
<1>3. req[r].inserted \cap req[r].locked = {}
  BY DEF IInv, Sound, Keeps
<1>4. exports' = [e \in Ids |->
                   CASE e \in req[r].inserted -> [exports[e] EXCEPT !.state = "active"]
                     [] e \in req[r].locked   -> [exports[e] EXCEPT !.state = "deleted"]
                     [] OTHER                 -> exports[e]]
  BY DEF Commit
<1>. DEFINE new(e) == CASE e \in req[r].inserted -> [exports[e] EXCEPT !.state = "active"]
                        [] e \in req[r].locked   -> [exports[e] EXCEPT !.state = "deleted"]
                        [] OTHER                 -> exports[e]
<1>5. ASSUME NEW e \in Ids
      PROVE  /\ new(e) \in Row /\ new(e).kind = exports[e].kind
             /\ e \in req[r].inserted => new(e).state = "active"
             /\ e \in req[r].locked => new(e).state = "deleted"
             /\ e \notin req[r].inserted \cup req[r].locked => new(e) = exports[e]
  BY <1>1, <1>2, <1>3
<1>6. exports' = [e \in Ids |-> new(e)]
  BY <1>4
<1>. HIDE DEF new
<1>. QED BY <1>1, <1>5, <1>6

\* A commit closes its transaction.
LEMMA CommitKeepsIInv ==
  ASSUME IInv, NEW r \in Requests, Commit(r)
  PROVE  IInv'
<1>1. r \in Busy /\ Sound(req[r], exports) /\ req[r] \in Transaction
      /\ \A q \in Requests \ {r} : Disjoint(req[q], req[r]) /\ Sound(req[q], exports)
  BY BusyFacts DEF Commit
<1>2. /\ exports' \in Seq(Row) /\ Len(exports') = Len(exports)
      /\ \A e \in Ids :
           /\ exports'[e].kind = exports[e].kind
           /\ e \notin req[r].inserted \cup req[r].locked => exports'[e] = exports[e]
  BY CommitEffect
<1>3. Ids = 1..Len(exports) /\ exports \in Seq(Row) /\ Len(exports) \in Nat
  BY IdsFacts DEF IInv, Types
<1>4. ASSUME NEW q \in Requests \ {r} PROVE Sound(req[q], exports')
  <2>1. req[q] \in Transaction /\ Len(exports) <= Len(exports')
    BY <1>2, <1>3 DEF IInv, Types
  <2>2. \A e \in req[q].locked \cup req[q].inserted :
          e \in Ids /\ e \notin req[r].inserted \cup req[r].locked
    <3>1. ASSUME NEW p \in {q, r}
          PROVE  /\ \A e \in req[p].locked : e \in Ids /\ exports[e].state = "active"
                 /\ \A e \in req[p].inserted : e \in Ids /\ exports[e].state = "open"
      BY <1>1, <1>3 DEF Sound, Keeps
    <3>. QED BY <1>1, <3>1 DEF Disjoint
  <2>3. \A e \in req[q].locked \cup req[q].inserted : exports'[e].state = exports[e].state
    BY <1>2, <2>2
  <2>. QED BY <1>1, <1>2, <1>3, <2>1, <2>3, SoundStays
<1>5. /\ req' = [req EXCEPT ![r] = Idle] /\ mirror' \in [Kinds -> Nat] /\ overlapped' = overlapped
  BY <1>1 DEF Commit, Transaction
<1>. QED BY <1>1, <1>2, <1>4, <1>5, IdleSound, SlotKeepsIInv

\* A new request shares nothing; it is alone or makes everybody overlapped.
LEMMA BeginKeepsIInv ==
  ASSUME IInv, NEW r \in Requests, NEW op \in Ops, Begin(r, op)
  PROVE  IInv'
<1>. DEFINE slot == [Idle EXCEPT !.op = op, !.todo = Statements(op), !.mirror = mirror]
<1>1. /\ req[r] = Idle /\ req' = [req EXCEPT ![r] = slot] /\ UNCHANGED <<exports, mirror>>
      /\ overlapped' = (overlapped \ {r}) \cup (IF Busy = {} THEN {} ELSE Busy \cup {r})
      /\ Types /\ Apart /\ req \in [Requests -> Transaction]
  BY DEF Begin, IInv, Types
<1>2. op \in OpNames /\ op # "idle" /\ mirror \in [Kinds -> Nat]
  BY <1>1, ExportAssumption DEF OpNames, Types
<1>3. /\ Statements(op) \in Seq(Kinds \cup {WriteNotice})
      /\ \A i, h \in 1..Len(Statements(op)) :
           Statements(op)[i] \in Kinds /\ Statements(op)[i] = Statements(op)[h] => i = h
      /\ op # "compose" => \A i \in 2..Len(Statements(op)) : Statements(op)[i] = WriteNotice
  BY <1>2, StatementsFacts
<1>4. /\ slot \in Transaction /\ slot.op = op /\ slot.todo = Statements(op)
      /\ slot.retiring = FALSE /\ slot.holds = FALSE
      /\ slot.targets = {} /\ slot.locked = {} /\ slot.inserted = {}
  <2>1. Idle \in Transaction
    BY IdleSound
  <2>. QED BY <1>2, <1>3, <2>1 DEF Transaction, Idle
<1>. HIDE DEF slot
<1>5. req'[r] = slot /\ \A q \in Requests \ {r} : req'[q] = req[q]
  BY <1>1
<1>6. r \notin Busy /\ Busy' = Busy \cup {r}
  BY <1>1, <1>2, <1>4, <1>5 DEF Busy, Idle
<1>7. Types'
  <2>1. overlapped' \subseteq Requests
    BY <1>1 DEF Types, Busy
  <2>. QED BY <1>1, <1>2, <1>4, <1>5, <2>1 DEF Types
<1>8. \A q \in Requests : Sound(req'[q], exports')
  <2>1. Sound(slot, exports)
    BY <1>3, <1>4 DEF Sound, Plan, Keeps, Ordered
  <2>. QED BY <1>1, <1>5, <2>1 DEF IInv
<1>9. Apart'
  BY <1>1, <1>4, <1>5 DEF Apart, Disjoint
<1>10. Alone'
  <2>. SUFFICES ASSUME NEW q \in Busy', q \notin overlapped'
                PROVE  Busy' = {q} /\ Covers(req'[q], exports')
    BY DEF Alone
  <2>1. Busy = {}
    BY <1>1, <1>6
  <2>2. q = r /\ Busy' = {q}
    BY <1>6, <2>1
  <2>. QED BY <1>4, <1>5, <2>2 DEF Covers
<1>. QED BY <1>7, <1>8, <1>9, <1>10 DEF IInv

\* What a crash leaves of the table.
LEMMA CrashEffect ==
  ASSUME IInv, Crash
  PROVE  /\ exports' \in Seq(Row) /\ Len(exports') = Len(exports)
         /\ \A e \in Ids : /\ exports'[e].kind = exports[e].kind
                           /\ exports[e].state = "open" => exports'[e].state = "gone"
                           /\ exports[e].state # "open" => exports'[e] = exports[e]
<1>1. /\ Len(exports) \in Nat /\ Ids = 1..Len(exports) /\ \A e \in Ids : exports[e] \in Row
  BY IdsFacts DEF IInv
<1>2. \A e \in Ids : /\ [exports[e] EXCEPT !.state = "gone"] \in Row
                     /\ [exports[e] EXCEPT !.state = "gone"].kind = exports[e].kind
                     /\ [exports[e] EXCEPT !.state = "gone"].state = "gone"
  BY <1>1 DEF Row, RowStates
<1>3. exports' = [e \in Ids |-> IF exports[e].state = "open"
                                  THEN [exports[e] EXCEPT !.state = "gone"] ELSE exports[e]]
  BY DEF Crash
<1>. QED BY <1>1, <1>2, <1>3

\* After a crash nobody holds anything.
LEMMA CrashKeepsIInv ==
  ASSUME IInv, Crash
  PROVE  IInv'
<1>1. exports' \in Seq(Row) /\ mirror' = mirror /\ overlapped' = overlapped
      /\ req' = [r \in Requests |-> Idle]
  BY CrashEffect DEF Crash
<1>2. \A r \in Requests : req'[r] = Idle
  BY <1>1
<1>3. Types'
  BY <1>1, <1>2, IdleSound DEF IInv, Types
<1>4. \A r \in Requests : Sound(req'[r], exports')
  BY <1>2, IdleSound
<1>5. Apart'
  BY <1>2, IdleSound DEF Apart
<1>6. Alone'
  <2>1. Busy' = {}
    BY <1>2 DEF Busy, Idle
  <2>. QED BY <2>1 DEF Alone
<1>. QED BY <1>3, <1>4, <1>5, <1>6 DEF IInv

\* The statements move a transaction on.
LEMMA StatementKeepsIInv ==
  ASSUME IInv, NEW r \in Requests, GenerateFails(r) \/ Write(r)
  PROVE  IInv'
<1>. DEFINE c == req[r]
<1>1. /\ c \in Transaction /\ r \in Busy /\ c.todo # <<>> /\ Sound(c, exports)
      /\ Head(c.todo) = c.todo[1] /\ req \in [Requests -> Transaction]
  BY BusyFacts, NextStatement DEF GenerateFails, Write, AtWrite, IInv, Types
<1>2. WriteNotice \notin Kinds
  BY DEF WriteNotice, Kinds
<1>3. CASE GenerateFails(r) /\ Abort(r)
  BY <1>1, <1>3, AbortKeepsIInv
<1>4. CASE GenerateFails(r) /\ ~ Abort(r)
  <2>1. /\ ~ c.retiring /\ UNCHANGED <<exports, mirror, overlapped>>
        /\ req' = [req EXCEPT ![r] = [c EXCEPT !.todo = Tail(@)]]
    BY <1>1, <1>4 DEF GenerateFails
  <2>2. [c EXCEPT !.todo = Tail(@)].holds = c.holds
    BY <1>1 DEF Transaction
  <2>. QED BY <1>1, <2>1, <2>2, AdvanceKeepsIInv
<1>5. CASE Write(r)
  <2>1. c.todo[1] = WriteNotice
    BY <1>1, <1>5 DEF Write, AtWrite
  <2>2. ~ c.retiring
    BY <1>1, <1>2, <2>1 DEF Sound, Plan
  <2>3. /\ req' = [req EXCEPT ![r] = [c EXCEPT !.holds = TRUE, !.todo = Tail(@)]]
        /\ UNCHANGED <<exports, mirror, overlapped>> /\ \A q \in Requests \ {r} : ~ req[q].holds
    BY <1>1, <1>5 DEF Write
  <2>. QED BY <1>1, <2>1, <2>2, <2>3, AdvanceKeepsIInv
<1>. QED BY <1>3, <1>4, <1>5

\* An empty table satisfies the invariant.
LEMMA InitIInv == Init => IInv
<1>. SUFFICES ASSUME Init PROVE IInv
  OBVIOUS
<1>1. \A r \in Requests : req[r] = Idle
  BY DEF Init
<1>2. Types
  <2>1. exports \in Seq(Row) /\ mirror \in [Kinds -> Nat] /\ overlapped \subseteq Requests
    BY DEF Init
  <2>2. req \in [Requests -> Transaction]
    BY IdleSound DEF Init
  <2>. QED BY <1>1, <2>1, <2>2 DEF Types
<1>3. Alone
  BY <1>1 DEF Alone, Busy, Idle
<1>4. Apart /\ \A r \in Requests : Sound(req[r], exports)
  BY <1>1, IdleSound DEF Apart
<1>. QED BY <1>2, <1>3, <1>4 DEF IInv

\* Every step keeps the invariant.
LEMMA NextKeepsIInv == IInv /\ [Next]_vars => IInv'
<1>. SUFFICES ASSUME IInv, [Next]_vars PROVE IInv'
  OBVIOUS
<1>1. ASSUME NEW r \in Requests, NEW op \in Ops, Begin(r, op) PROVE IInv'
  BY <1>1, BeginKeepsIInv
<1>2. ASSUME NEW r \in Requests, Step(r) PROVE IInv'
  <2>1. CASE DeadlockDetected(r)
    <3>1. r \in Busy
      <4>1. WaitsFor(r, r) \/ \E q \in Requests : WaitsFor(r, q)
        BY <2>1 DEF DeadlockDetected, Cycle
      <4>2. req[r].retiring \/ req[r].todo # <<>>
        BY <4>1 DEF WaitsFor, AtWrite
      <4>. QED BY <4>2, BusyFacts
    <3>. QED BY <2>1, <3>1, AbortKeepsIInv DEF DeadlockDetected
  <2>. QED BY <1>2, <2>1, GenerateKeepsIInv, StatementKeepsIInv, RetireKeepsIInv, InsertKeepsIInv,
           CommitKeepsIInv DEF Step
<1>3. CASE Crash
  BY <1>3, CrashKeepsIInv
<1>4. CASE UNCHANGED vars
  <2>1. UNCHANGED <<exports, mirror, req, overlapped>>
    BY <1>4 DEF vars
  <2>2. Types' /\ Apart' /\ (\A r \in Requests : Sound(req'[r], exports'))
    BY <2>1 DEF IInv, Types, Apart
  <2>3. Alone'
    BY <2>1 DEF IInv, Alone, Busy
  <2>. QED BY <2>2, <2>3 DEF IInv
<1>. QED BY <1>1, <1>2, <1>3, <1>4 DEF Next

\* The invariant holds in every state of every behaviour.
THEOREM Invariance == Spec => []IInv
<1>1. Init => IInv
  BY InitIInv
<1>2. IInv /\ [Next]_vars => IInv'
  BY NextKeepsIInv
<1>. QED BY <1>1, <1>2, PTL DEF Spec
-----------------------------------------------------------------------------
(* The properties the runs check. *)

\* There is no circle among handlers that take the export rows in the order
\* of id and the notice row last: the ids they wait for would grow for ever.
LEMMA NoCycle ==
  ASSUME IInv, NEW S \in SUBSET Requests, Cycle(S), \A r \in S : req[r].op # "compose"
  PROVE  FALSE
<1>1. WriteNotice \notin Kinds
  BY DEF WriteNotice, Kinds
<1>2. ASSUME NEW r \in S
      PROVE  /\ req[r].op # "compose" /\ Sound(req[r], exports) /\ req[r] \in Transaction
             /\ AtWrite(r) => ~ req[r].retiring
             /\ req[r].retiring => ~ req[r].holds
             /\ \E q \in S : WaitsFor(r, q)
  <2>1. req[r].op # "compose" /\ Sound(req[r], exports) /\ req[r] \in Transaction
    BY DEF IInv, Types
  <2>2. AtWrite(r) => ~ req[r].retiring
    BY <1>1, <2>1, NextStatement DEF AtWrite, Sound, Plan
  <2>3. req[r].retiring => ~ req[r].holds
    BY <2>1 DEF Sound, Plan, Ordered
  <2>. QED BY <2>1, <2>2, <2>3 DEF Cycle
<1>3. ASSUME NEW r \in S, AtWrite(r) PROVE FALSE
  <2>1. PICK q \in S : q # r /\ req[q].holds
    BY <1>2, <1>3 DEF WaitsFor
  <2>2. PICK p \in S : WaitsFor(q, p)
    BY <1>2
  <2>3. p # q /\ req[p].holds
    BY <1>2, <2>1, <2>2 DEF WaitsFor
  <2>. QED BY <2>1, <2>3 DEF IInv, Apart, Disjoint
<1>4. ASSUME NEW r \in S
      PROVE  \E e \in Nat, q \in S : NextTarget(r, e) /\ e \in req[q].locked
  BY <1>2, <1>3 DEF WaitsFor, Transaction
<1>5. \A r \in S : req[r].retiring
  BY <1>2, <1>3 DEF WaitsFor
<1>. DEFINE waited == {e \in Nat : \E r \in S : NextTarget(r, e)}
            n == Len(exports)
            left == {n - e : e \in waited}
<1>6. \A e \in waited : \E f \in waited : e < f
  <2>. SUFFICES ASSUME NEW e \in Nat, NEW r \in S, NextTarget(r, e)
                PROVE  \E f \in waited : e < f
    OBVIOUS
  <2>1. PICK d \in Nat, q \in S : NextTarget(r, d) /\ d \in req[q].locked
    BY <1>4
  <2>2. d = e
    <3>1. e <= d /\ d <= e
      BY <2>1 DEF NextTarget
    <3>. QED BY <3>1
  <2>3. PICK f \in Nat : NextTarget(q, f)
    BY <1>4
  <2>4. e < f
    BY <1>2, <1>5, <2>1, <2>2, <2>3 DEF NextTarget, Sound, Ordered
  <2>. QED BY <2>3, <2>4
<1>7. waited \subseteq 1..n /\ waited # {} /\ n \in Nat
  <2>1. n \in Nat
    BY IdsFacts DEF IInv
  <2>2. \A r \in S : req[r].targets \subseteq 1..n
    BY <1>2 DEF Sound, Keeps
  <2>3. S # {}
    BY DEF Cycle
  <2>. QED BY <1>4, <2>1, <2>2, <2>3 DEF NextTarget
<1>. HIDE DEF waited, n
<1>8. left \subseteq Nat /\ left # {}
  BY <1>7
<1>9. PICK x \in left : \A y \in left : ~ (<<y, x>> \in OpToRel(<, Nat))
  <2>. HIDE DEF left
  <2>. QED BY <1>8, WFMin, NatLessThanWellFounded
<1>10. \A y \in left : ~ (y < x)
  <2>. SUFFICES ASSUME NEW y \in left, y < x PROVE FALSE
    OBVIOUS
  <2>1. x \in Nat /\ y \in Nat
    BY <1>8
  <2>2. <<y, x>> \in OpToRel(<, Nat)
    BY <2>1 DEF OpToRel
  <2>. QED BY <1>9, <2>2
<1>11. PICK e \in waited : x = n - e
  OBVIOUS
<1>12. PICK f \in waited : e < f
  BY <1>6
<1>13. n - f \in left /\ n - f < x
  BY <1>7, <1>11, <1>12
<1>. QED BY <1>10, <1>13

\* Every deadlock over the row locks of notice_exports and the notice row
\* needs an hwp-compose, which alone updates the notice row before it records
\* its second export.
THEOREM CyclesNeedComposeThm == Spec => []CyclesNeedCompose
<1>1. IInv => CyclesNeedCompose
  BY NoCycle DEF CyclesNeedCompose
<1>. QED BY <1>1, Invariance, PTL

\* What a commit soft-deletes it replaces.
LEMMA CommitReplaces ==
  ASSUME IInv, NEW r \in Requests, Commit(r), NEW k \in Kinds, Active(k) # {}
  PROVE  Active(k)' # {}
<1>1. /\ Len(exports) \in Nat /\ Ids = 1..Len(exports) /\ \A e \in Ids : exports[e] \in Row
      /\ Sound(req[r], exports)
  BY IdsFacts DEF IInv
<1>2. /\ exports' \in Seq(Row) /\ Len(exports') = Len(exports)
      /\ \A e \in Ids :
           /\ exports'[e].kind = exports[e].kind
           /\ e \in req[r].inserted => exports'[e].state = "active"
           /\ e \notin req[r].inserted \cup req[r].locked => exports'[e] = exports[e]
  BY CommitEffect
<1>3. ~ req[r].retiring
  BY <1>1 DEF Commit, Sound, Plan
<1>4. PICK e \in Ids : exports[e] = [kind |-> k, state |-> "active"]
  BY DEF Active
<1>5. \E i \in Ids : exports'[i].kind = k /\ exports'[i].state = "active"
  <2>1. CASE e \in req[r].locked
    <3>1. PICK i \in req[r].inserted : exports[i].kind = exports[e].kind
      BY <1>1, <1>3, <2>1 DEF Sound, Keeps
    <3>2. i \in Ids
      BY <1>1, <3>1 DEF Sound, Keeps
    <3>. QED BY <1>2, <1>4, <3>1, <3>2
  <2>2. CASE e \in req[r].inserted
    BY <1>2, <1>4, <2>2
  <2>3. CASE e \notin req[r].inserted \cup req[r].locked
    BY <1>2, <1>4, <2>3
  <2>. QED BY <2>1, <2>2, <2>3
<1>6. PICK i \in Ids : exports'[i].kind = k /\ exports'[i].state = "active"
  BY <1>5
<1>7. exports'[i] \in Row /\ Ids' = Ids
  BY <1>1, <1>2, <1>6 DEF Ids
<1>8. exports'[i] = [kind |-> k, state |-> "active"]
  BY <1>6, <1>7 DEF Row
<1>. QED BY <1>7, <1>8 DEF Active

\* Whatever else happens, an active row stays as it is.
LEMMA OthersKeepActive ==
  ASSUME IInv, [Next]_vars, ~ \E r \in Requests : Commit(r)
  PROVE  \A e \in Ids : e \in Ids' /\ (exports[e].state = "active" => exports'[e] = exports[e])
<1>1. Len(exports) \in Nat /\ Ids = 1..Len(exports) /\ exports \in Seq(Row)
  BY IdsFacts DEF IInv, Types
<1>2. ASSUME NEW r \in Requests, Abort(r)
      PROVE  \A e \in Ids : e \in Ids' /\ (exports[e].state = "active" => exports'[e] = exports[e])
  <2>1. /\ Len(exports') = Len(exports)
        /\ \A e \in Ids : e \notin req[r].inserted => exports'[e] = exports[e]
    BY <1>2, AbortEffect
  <2>2. \A e \in req[r].inserted : exports[e].state = "open"
    BY DEF IInv, Sound, Keeps
  <2>. QED BY <2>1, <2>2 DEF Ids
<1>3. CASE Crash
  BY <1>3, CrashEffect DEF Ids
<1>4. ASSUME NEW r \in Requests, Insert(r)
      PROVE  \A e \in Ids : e \in Ids' /\ (exports[e].state = "active" => exports'[e] = exports[e])
  <2>1. exports' = Append(exports, [kind |-> Head(req[r].todo), state |-> "open"])
    BY <1>4 DEF Insert
  <2>. QED BY <1>1, <2>1 DEF Ids
<1>5. CASE UNCHANGED exports
  BY <1>5 DEF Ids
<1>. QED BY <1>2, <1>3, <1>4, <1>5
     DEF Next, Step, Begin, Generate, GenerateFails, Retire, Write, DeadlockDetected, vars

\* A kind that can be downloaded always can, whatever overlaps, fails,
\* deadlocks or crashes (_record_export deletes and inserts in one
\* transaction).
THEOREM NeverLosesTheLastThm == Spec => NeverLosesTheLast
<1>1. IInv /\ [Next]_vars => \A k \in Kinds : Active(k) # {} => Active(k)' # {}
  <2>. SUFFICES ASSUME IInv, [Next]_vars, NEW k \in Kinds, Active(k) # {}
                PROVE  Active(k)' # {}
    OBVIOUS
  <2>1. CASE \E r \in Requests : Commit(r)
    BY <2>1, CommitReplaces
  <2>2. CASE ~ \E r \in Requests : Commit(r)
    BY <2>2, OthersKeepActive DEF Active
  <2>. QED BY <2>1, <2>2
<1>. QED BY <1>1, Invariance, PTL DEF Spec, NeverLosesTheLast

\* Only its commit makes a row of a transaction active.
LEMMA OnlyCommitActivates ==
  ASSUME IInv, [Next]_vars, NEW r \in Requests, Busy = {r},
         NEW e \in req[r].inserted, exports'[e].state = "active"
  PROVE  Commit(r)
<1>1. /\ Len(exports) \in Nat /\ Ids = 1..Len(exports) /\ exports \in Seq(Row)
      /\ e \in Ids /\ exports[e].state = "open"
  BY IdsFacts DEF IInv, Types, Sound, Keeps
<1>2. \A q \in Requests \ {r} : ~ Commit(q)
  BY DEF Commit
<1>3. ASSUME NEW q \in Requests, Abort(q) PROVE FALSE
  BY <1>1, <1>3, AbortEffect
<1>4. CASE Crash
  BY <1>1, <1>4, CrashEffect
<1>5. ASSUME NEW q \in Requests, Insert(q) PROVE FALSE
  <2>1. exports' = Append(exports, [kind |-> Head(req[q].todo), state |-> "open"])
    BY <1>5 DEF Insert
  <2>. QED BY <1>1, <2>1
<1>6. CASE UNCHANGED exports
  BY <1>1, <1>6
<1>. QED BY <1>2, <1>3, <1>4, <1>5, <1>6
     DEF Next, Step, Begin, Generate, GenerateFails, Retire, Write, DeadlockDetected, vars

\* One request that ran alone repairs what a race left behind: of each kind it
\* has recorded its own row is the only active one, and the mirror names it.
THEOREM AloneRestoresOneThm == Spec => AloneRestoresOne
<1>1. ASSUME IInv, [Next]_vars, NEW r \in Busy \ overlapped, mirror' = req[r].mirror,
             NEW e \in req[r].inserted, exports'[e].state = "active"
      PROVE  Active(exports[e].kind)' = {e} /\ mirror'[exports[e].kind] = e
  <2>1. Busy = {r} /\ r \in Requests /\ Covers(req[r], exports) /\ Sound(req[r], exports)
    BY <1>1 DEF IInv, Alone, Busy
  <2>2. Commit(r)
    BY <1>1, <2>1, OnlyCommitActivates
  <2>3. Ids = 1..Len(exports) /\ Len(exports) \in Nat /\ \A i \in Ids : exports[i] \in Row
    BY <1>1, IdsFacts DEF IInv
  <2>4. /\ exports' \in Seq(Row) /\ Len(exports') = Len(exports)
        /\ \A i \in Ids :
             /\ exports'[i].kind = exports[i].kind
             /\ i \in req[r].inserted => exports'[i].state = "active"
             /\ i \in req[r].locked => exports'[i].state = "deleted"
             /\ i \notin req[r].inserted \cup req[r].locked => exports'[i] = exports[i]
    BY <1>1, <2>1, <2>2, CommitEffect
  <2>. DEFINE k == exports[e].kind
  <2>5. /\ req[r].mirror[k] = e /\ ActiveIn(exports, k) \subseteq req[r].locked
        /\ \A f \in req[r].inserted : exports[f].kind = k => f = e
    BY <2>1 DEF Covers
  <2>6. e \in Ids /\ Ids' = Ids
    BY <2>1, <2>3, <2>4 DEF Sound, Keeps, Ids
  <2>. HIDE DEF k
  <2>7. \A i \in Ids : exports'[i] = [kind |-> k, state |-> "active"] => i = e
    <3>. SUFFICES ASSUME NEW i \in Ids, exports'[i] = [kind |-> k, state |-> "active"], i # e
                  PROVE  FALSE
      OBVIOUS
    <3>1. exports'[i].kind = k /\ exports'[i].state = "active"
      OBVIOUS
    <3>2. i \notin req[r].locked
      BY <2>4, <3>1
    <3>3. i \notin req[r].inserted
      BY <2>4, <2>5, <3>1
    <3>4. exports[i] = [kind |-> k, state |-> "active"]
      BY <2>4, <3>2, <3>3
    <3>. QED BY <2>3, <2>5, <3>2, <3>4 DEF ActiveIn
  <2>8. exports'[e] = [kind |-> k, state |-> "active"]
    <3>1. exports'[e] \in Row /\ exports'[e].kind = k /\ exports'[e].state = "active"
      BY <1>1, <2>3, <2>4, <2>6 DEF k
    <3>. QED BY <3>1 DEF Row
  <2>9. Active(k)' = {e}
    BY <2>6, <2>7, <2>8 DEF Active, k
  <2>. QED BY <1>1, <2>5, <2>9 DEF k
<1>2. IInv /\ [Next]_vars =>
        \A r \in Busy \ overlapped :
          req'[r] = Idle /\ mirror' = req[r].mirror =>
            \A e \in req[r].inserted :
              exports'[e].state = "active" =>
                /\ Active(exports[e].kind)' = {e}
                /\ mirror'[exports[e].kind] = e
  BY <1>1
<1>. QED BY <1>2, Invariance, PTL DEF Spec, AloneRestoresOne
=============================================================================
