-------------------------- MODULE CollectionProofs --------------------------
(***************************************************************************)
(* Proof that the answer of a search is exact (SearchIsExact), for any     *)
(* listing of G2B, any titles, keywords and ranges, any length of page,    *)
(* window and slice and any number of endpoints, while G2B publishes and   *)
(* withdraws.  The invariant SearchInv says that what the search has       *)
(* collected is in range, that as long as nothing disturbed it the pages   *)
(* fetched of an endpoint have every entry before them that was listed     *)
(* from the start (PagedTo), and that the rounds done have all they asked  *)
(* for.                                                                    *)
(*                                                                         *)
(* Only, Windows, FlattenSeq and Deduped go through a sequence entry by    *)
(* entry.  What they compute is proved by induction; a property is given   *)
(* to the lemma Induct as the set of the numbers that have it.             *)
(***************************************************************************)
EXTENDS Collection, FiniteSetTheorems, SequenceTheorems, TLAPS

-----------------------------------------------------------------------------
(* Induction and recursion. *)

\* A set of numbers has a least one.
LEMMA Least ==
  ASSUME NEW T \in SUBSET Nat, T # {}
  PROVE  \E n \in T : \A m \in T : n <= m
<1>1. \E n \in T : \A m \in T : ~ (m < n)
  <2>. DEFINE R == OpToRel(<, Nat)
  <2>1. IsWellFoundedOn(R, Nat)
    BY NatLessThanWellFounded
  <2>2. \E n \in T : \A m \in T : <<m, n>> \notin R
    <3>. HIDE DEF R
    <3>. QED BY <2>1, WFMin
  <2>3. PICK n \in T : \A m \in T : <<m, n>> \notin R
    BY <2>2
  <2>. QED BY <2>3, Zenon DEF OpToRel
<1>2. \A n, m \in Nat : ~ (m < n) => n <= m
  OBVIOUS
<1>. QED BY <1>1, <1>2

\* Induction up to n, for a property given as the set of what has it.
LEMMA Induct ==
  ASSUME NEW n \in Nat, NEW G, 0 \in G, \A i \in 0..n : i # n /\ i \in G => i + 1 \in G
  PROVE  \A i \in 0..n : i \in G
<1>. DEFINE T == {i \in 0..n : i \notin G}
<1>1. SUFFICES ASSUME T # {} PROVE FALSE
  OBVIOUS
<1>2. PICK k \in T : \A m \in T : k <= m
  <2>1. T \in SUBSET Nat
    OBVIOUS
  <2>. HIDE DEF T
  <2>. QED BY <1>1, <2>1, Least
<1>3. k \in 1..n /\ k - 1 \in 0..n /\ k - 1 # n /\ k - 1 \notin T
  BY <1>2
<1>4. (k - 1) + 1 \in G
  BY <1>3
<1>. QED BY <1>2, <1>3, <1>4

Steps(f, base, step, n) == f[0] = base /\ \A i \in 1..n : f[i] = step[<<i, f[i - 1]>>]

\* A function that calls itself one step back exists.
LEMMA StepsExist ==
  ASSUME NEW V, NEW base \in V, NEW n \in Nat, NEW step \in [(1..n) \X V -> V]
  PROVE  \E f \in [0..n -> V] : Steps(f, base, step, n)
<1>. DEFINE G == {k \in 0..n : \E f \in [0..k -> V] : Steps(f, base, step, k)}
<1>1. 0 \in G
  <2>. DEFINE f == [i \in 0..0 |-> base]
  <2>1. f \in [0..0 -> V] /\ Steps(f, base, step, 0)
    BY DEF Steps
  <2>. QED BY <2>1
<1>2. ASSUME NEW k \in 0..n, k # n, k \in G PROVE k + 1 \in G
  <2>1. PICK f \in [0..k -> V] : Steps(f, base, step, k)
    BY <1>2
  <2>. DEFINE new == step[<<k + 1, f[k]>>]
              g == [i \in 0..(k + 1) |-> IF i = k + 1 THEN new ELSE f[i]]
  <2>2. new \in V
    <3>1. <<k + 1, f[k]>> \in (1..n) \X V
      BY <1>2
    <3>. QED BY <3>1
  <2>3. g \in [0..(k + 1) -> V]
    <3>. HIDE DEF new
    <3>. QED BY <2>2
  <2>4. g[0] = base
    BY <2>1 DEF Steps
  <2>5. ASSUME NEW i \in 1..(k + 1) PROVE g[i] = step[<<i, g[i - 1]>>]
    <3>1. CASE i = k + 1
      <4>1. g[i] = new /\ i - 1 = k /\ k \in 0..(k + 1) /\ k # k + 1
        BY <3>1
      <4>. HIDE DEF new
      <4>2. g[i - 1] = f[k]
        BY <4>1
      <4>. QED BY <3>1, <4>1, <4>2 DEF new
    <3>2. CASE i # k + 1
      <4>1. i \in 1..k /\ i - 1 # k + 1 /\ i - 1 \in 0..(k + 1) /\ i \in 0..(k + 1)
        BY <3>2
      <4>. HIDE DEF new
      <4>2. g[i] = f[i] /\ g[i - 1] = f[i - 1]
        BY <3>2, <4>1
      <4>. QED BY <2>1, <4>1, <4>2 DEF Steps
    <3>. QED BY <3>1, <3>2
  <2>6. Steps(g, base, step, k + 1)
    BY <2>4, <2>5 DEF Steps
  <2>7. k + 1 \in 0..n
    BY <1>2
  <2>. QED BY <2>6, <2>7, <2>3
<1>. HIDE DEF G
<1>3. n \in G
  BY <1>1, <1>2, Induct
<1>. QED BY <1>3 DEF G

-----------------------------------------------------------------------------
(* Sequences. *)

Taking(f, s, kept) ==
  /\ f[0] = <<>>
  /\ \A i \in 1..Len(s) : f[i] = IF s[i] \in kept THEN Append(f[i - 1], s[i]) ELSE f[i - 1]

\* Only goes through the sequence entry by entry.
LEMMA OnlyIsTaking ==
  ASSUME NEW S, NEW s \in Seq(S), NEW kept
  PROVE  \E f \in [0..Len(s) -> Seq(S)] : Taking(f, s, kept) /\ Only(s, kept) = f[Len(s)]
<1>. DEFINE n == Len(s)
            next(i, x) == IF s[i] \in kept THEN Append(x, s[i]) ELSE x
            step == [at \in (1..n) \X Seq(S) |-> next(at[1], at[2])]
            body(f) == [i \in 0..n |-> IF i = 0 THEN <<>> ELSE next(i, f[i - 1])]
            run == CHOOSE f : f = body(f)
<1>1. n \in Nat /\ \A i \in 1..n : s[i] \in S
  OBVIOUS
<1>2. step \in [(1..n) \X Seq(S) -> Seq(S)]
  BY <1>1
<1>3. PICK f \in [0..n -> Seq(S)] : Steps(f, <<>>, step, n)
  <2>. HIDE DEF n, step
  <2>1. <<>> \in Seq(S)
    OBVIOUS
  <2>. QED BY <1>1, <1>2, <2>1, StepsExist
<1>4. ASSUME NEW i \in 1..n PROVE step[<<i, f[i - 1]>>] = next(i, f[i - 1])
  <2>1. f[i - 1] \in Seq(S)
    BY <1>1
  <2>. QED BY <2>1
<1>5. f = body(f)
  <2>1. \A i \in 0..n : f[i] = IF i = 0 THEN <<>> ELSE next(i, f[i - 1])
    <3>. HIDE DEF next, step, n
    <3>1. \A i \in 0..n : i # 0 => i \in 1..n
      BY <1>1
    <3>. QED BY <1>3, <1>4, <3>1 DEF Steps
  <2>. HIDE DEF next, step, n
  <2>. QED BY <2>1
<1>6. run = body(run)
  <2>. HIDE DEF body
  <2>. QED BY <1>5
<1>7. Only(s, kept) = run[n]
  <2>1. Only(s, kept) = Taken(s, kept)
    BY DEF Only
  <2>. QED BY <2>1 DEF Taken
<1>. HIDE DEF run
<1>. QED OBVIOUS

\* What is in a sequence.
LEMMA Entries ==
  ASSUME NEW S, NEW s \in Seq(S)
  PROVE  /\ Len(s) \in Nat
         /\ ToSet(s) \subseteq S
         /\ \A i \in 1..Len(s) : s[i] \in S /\ s[i] \in ToSet(s)
         /\ \A x \in ToSet(s) : \E i \in 1..Len(s) : s[i] = x
BY DEF ToSet

\* A sequence of one entry.
LEMMA Single ==
  ASSUME NEW S, NEW s \in Seq(S), Len(s) = 1
  PROVE  s = <<s[1]>>
<1>1. s \in [1..1 -> S]
  <2>1. s \in [1..Len(s) -> S]
    BY LenProperties
  <2>. QED BY <2>1
<1>2. DOMAIN <<s[1]>> = 1..1 /\ <<s[1]>> \in [1..1 -> S]
  BY <1>1
<1>3. \A i \in 1..1 : s[i] = <<s[1]>>[i]
  OBVIOUS
<1>. QED BY <1>1, <1>2, <1>3

\* What is in a sequence that has one more entry.
LEMMA OneMore ==
  ASSUME NEW S, NEW s \in Seq(S), NEW x \in S
  PROVE  /\ Append(s, x) \in Seq(S)
         /\ Len(Append(s, x)) = Len(s) + 1
         /\ \A i \in 1..Len(s) : Append(s, x)[i] = s[i]
         /\ Append(s, x)[Len(s) + 1] = x
         /\ ToSet(Append(s, x)) = ToSet(s) \cup {x}
<1>1. /\ Append(s, x) \in Seq(S)
      /\ Len(Append(s, x)) = Len(s) + 1
      /\ \A i \in 1..Len(s) : Append(s, x)[i] = s[i]
      /\ Append(s, x)[Len(s) + 1] = x
      /\ Len(s) \in Nat
  OBVIOUS
<1>. DEFINE t == Append(s, x)
<1>2. \A y \in ToSet(t) : y \in ToSet(s) \/ y = x
  <2>. SUFFICES ASSUME NEW y \in ToSet(t) PROVE y \in ToSet(s) \/ y = x
    OBVIOUS
  <2>. HIDE DEF t
  <2>1. PICK i \in 1..Len(t) : t[i] = y
    BY <1>1, Entries DEF t
  <2>2. i \in 1..Len(s) \/ i = Len(s) + 1
    BY <1>1 DEF t
  <2>. QED BY <1>1, <2>1, <2>2, Entries DEF t
<1>3. \A y \in ToSet(s) : y \in ToSet(t)
  <2>. SUFFICES ASSUME NEW y \in ToSet(s) PROVE y \in ToSet(t)
    OBVIOUS
  <2>. HIDE DEF t
  <2>1. PICK i \in 1..Len(s) : s[i] = y
    BY Entries
  <2>2. i \in 1..Len(t) /\ t[i] = y
    BY <1>1, <2>1 DEF t
  <2>. QED BY <1>1, <2>2, Entries DEF t
<1>4. x \in ToSet(t)
  <2>1. Len(t) \in 1..Len(t) /\ t[Len(t)] = x
    BY <1>1
  <2>2. t \in Seq(S)
    BY <1>1
  <2>. HIDE DEF t
  <2>. QED BY <2>1, <2>2, Entries
<1>. QED BY <1>1, <1>2, <1>3, <1>4

Distinct(s) == \A i, j \in 1..Len(s) : s[i] = s[j] => i = j

\* Only keeps the entries it is asked to keep, and what was distinct stays so.
LEMMA OnlyFacts ==
  ASSUME NEW S, NEW s \in Seq(S), NEW kept
  PROVE  /\ Only(s, kept) \in Seq(S)
         /\ ToSet(Only(s, kept)) = ToSet(s) \cap kept
         /\ Distinct(s) => Distinct(Only(s, kept))
<1>. DEFINE n == Len(s)
            head(i) == {s[j] : j \in 1..i}
<1>1. PICK f \in [0..n -> Seq(S)] : Taking(f, s, kept) /\ Only(s, kept) = f[n]
  BY OnlyIsTaking
<1>. DEFINE G == {i \in 0..n : /\ ToSet(f[i]) = head(i) \cap kept
                               /\ Distinct(s) => Distinct(f[i])}
<1>2. n \in Nat /\ \A i \in 1..n : s[i] \in S
  OBVIOUS
<1>3. 0 \in G
  <2>1. ToSet(<<>>) = {} /\ Distinct(<<>>) /\ head(0) = {}
    BY DEF ToSet, Distinct
  <2>2. f[0] = <<>> /\ 0 \in 0..n
    BY <1>1, <1>2 DEF Taking
  <2>. QED BY <2>1, <2>2
<1>4. ASSUME NEW k \in 0..n, k # n, k \in G PROVE k + 1 \in G
  <2>1. k + 1 \in 1..n /\ k \in 0..n /\ (k + 1) - 1 = k
    BY <1>2, <1>4
  <2>2. f[k + 1] = IF s[k + 1] \in kept THEN Append(f[k], s[k + 1]) ELSE f[k]
    BY <1>1, <2>1 DEF Taking
  <2>3. head(k + 1) = head(k) \cup {s[k + 1]}
    <3>1. \A j : j \in 1..(k + 1) <=> j \in 1..k \/ j = k + 1
      BY <2>1
    <3>. QED BY <3>1
  <2>4. f[k] \in Seq(S) /\ s[k + 1] \in S
    BY <1>2, <2>1
  <2>5. CASE s[k + 1] \in kept
    <3>1. ToSet(f[k + 1]) = ToSet(f[k]) \cup {s[k + 1]}
      BY <2>2, <2>4, <2>5, OneMore
    <3>2. ASSUME Distinct(s) PROVE Distinct(f[k + 1])
      <4>1. s[k + 1] \notin head(k)
        <5>1. \A j \in 1..k : j \in 1..n /\ j # k + 1
          BY <1>2, <2>1
        <5>. QED BY <2>1, <3>2, <5>1 DEF Distinct
      <4>2. s[k + 1] \notin ToSet(f[k]) /\ Distinct(f[k])
        BY <1>4, <3>2, <4>1
      <4>. DEFINE x == s[k + 1]
                  g == f[k]
      <4>3. Distinct(Append(g, x))
        <5>. HIDE DEF x, g
        <5>1. g \in Seq(S) /\ x \in S /\ x \notin ToSet(g) /\ Distinct(g)
          BY <2>4, <4>2 DEF x, g
        <5>2. \A i \in 1..Len(Append(g, x)) : i \in 1..Len(g) \/ i = Len(g) + 1
          BY <5>1, OneMore, Entries
        <5>3. \A i \in 1..Len(g) : g[i] # x
          BY <5>1, Entries
        <5>. QED BY <5>1, <5>2, <5>3, OneMore DEF Distinct
      <4>. QED BY <2>2, <2>5, <4>3
    <3>. QED BY <1>4, <2>1, <2>3, <2>5, <3>1, <3>2
  <2>6. CASE s[k + 1] \notin kept
    BY <1>4, <2>1, <2>2, <2>3, <2>6
  <2>. QED BY <2>5, <2>6
<1>5. n \in G /\ n \in 0..n
  <2>1. n \in Nat
    BY <1>2
  <2>. HIDE DEF G, n
  <2>2. \A i \in 0..n : i \in G
    BY <2>1, <1>3, <1>4, Induct
  <2>. QED BY <2>1, <2>2
<1>6. head(n) = ToSet(s)
  BY DEF ToSet
<1>. QED BY <1>1, <1>5, <1>6

\* What is kept in full is left as it is.
LEMMA OnlyAll ==
  ASSUME NEW S, NEW s \in Seq(S), NEW kept, ToSet(s) \subseteq kept
  PROVE  Only(s, kept) = s
<1>. DEFINE n == Len(s)
<1>1. PICK f \in [0..n -> Seq(S)] : Taking(f, s, kept) /\ Only(s, kept) = f[n]
  BY OnlyIsTaking
<1>. DEFINE G == {i \in 0..n : Len(f[i]) = i /\ \A j \in 1..i : f[i][j] = s[j]}
<1>2. n \in Nat /\ \A i \in 1..n : s[i] \in S /\ s[i] \in kept
  BY Entries
<1>3. 0 \in G
  BY <1>1, <1>2 DEF Taking
<1>4. ASSUME NEW k \in 0..n, k # n, k \in G PROVE k + 1 \in G
  <2>1. k + 1 \in 1..n /\ k \in 0..n /\ (k + 1) - 1 = k
    BY <1>2, <1>4
  <2>2. f[k + 1] = Append(f[k], s[k + 1]) /\ f[k] \in Seq(S) /\ s[k + 1] \in S
    BY <1>1, <1>2, <2>1 DEF Taking
  <2>3. \A j \in 1..(k + 1) : j \in 1..k \/ j = k + 1
    BY <2>1
  <2>4. Len(f[k]) = k /\ \A j \in 1..k : f[k][j] = s[j]
    BY <1>4
  <2>5. Len(f[k + 1]) = k + 1 /\ \A j \in 1..(k + 1) : f[k + 1][j] = s[j]
    <3>. DEFINE g == f[k]
                x == s[k + 1]
    <3>. HIDE DEF g, x
    <3>1. f[k + 1] = Append(g, x) /\ g \in Seq(S) /\ x \in S /\ Len(g) = k
      BY <2>2, <2>4 DEF g, x
    <3>2. \A j \in 1..k : g[j] = s[j]
      BY <2>4 DEF g
    <3>. QED BY <2>3, <3>1, <3>2, OneMore DEF x
  <2>. QED BY <2>1, <2>5
<1>5. n \in G /\ n \in 0..n
  <2>1. n \in Nat
    BY <1>2
  <2>. HIDE DEF G, n
  <2>2. \A i \in 0..n : i \in G
    BY <2>1, <1>3, <1>4, Induct
  <2>. QED BY <2>1, <2>2
<1>6. f[n] \in Seq(S) /\ Len(f[n]) = n /\ \A j \in 1..n : f[n][j] = s[j]
  BY <1>5
<1>. QED BY <1>1, <1>6

\* One more entry at the end.
LEMMA OnlyAppend ==
  ASSUME NEW S, NEW s \in Seq(S), NEW x \in S, NEW kept
  PROVE  Only(Append(s, x), kept) = IF x \in kept THEN Append(Only(s, kept), x) ELSE Only(s, kept)
<1>. DEFINE t == Append(s, x)
            n == Len(s)
<1>1. t \in Seq(S) /\ Len(t) = n + 1 /\ n \in Nat /\ t[n + 1] = x /\ \A i \in 1..n : t[i] = s[i]
  BY OneMore
<1>2. PICK f \in [0..n -> Seq(S)] : Taking(f, s, kept) /\ Only(s, kept) = f[n]
  BY OnlyIsTaking
<1>. HIDE DEF t, n
<1>3. PICK g \in [0..Len(t) -> Seq(S)] : Taking(g, t, kept) /\ Only(t, kept) = g[Len(t)]
  BY <1>1, OnlyIsTaking
<1>4. g \in [0..(n + 1) -> Seq(S)] /\ Taking(g, t, kept) /\ Only(t, kept) = g[n + 1]
  BY <1>1, <1>3
<1>. DEFINE G == {i \in 0..n : g[i] = f[i]}
<1>5. 0 \in G
  BY <1>1, <1>2, <1>4 DEF Taking
<1>6. ASSUME NEW k \in 0..n, k # n, k \in G PROVE k + 1 \in G
  <2>1. k + 1 \in 1..n /\ k + 1 \in 1..(n + 1) /\ k + 1 \in 0..n /\ (k + 1) - 1 = k
    BY <1>1, <1>6
  <2>2. g[k + 1] = IF t[k + 1] \in kept THEN Append(g[k], t[k + 1]) ELSE g[k]
    BY <1>1, <1>4, <2>1 DEF Taking
  <2>3. f[k + 1] = IF s[k + 1] \in kept THEN Append(f[k], s[k + 1]) ELSE f[k]
    BY <1>2, <2>1 DEF Taking, n
  <2>. QED BY <1>1, <1>6, <2>1, <2>2, <2>3
<1>7. g[n] = f[n]
  <2>. HIDE DEF G
  <2>1. \A i \in 0..n : i \in G
    BY <1>1, <1>5, <1>6, Induct
  <2>2. n \in G
    BY <1>1, <2>1
  <2>. QED BY <2>2 DEF G
<1>8. g[n + 1] = IF t[n + 1] \in kept THEN Append(g[n], t[n + 1]) ELSE g[n]
  <2>1. n + 1 \in 1..(n + 1) /\ (n + 1) - 1 = n
    BY <1>1
  <2>. QED BY <1>1, <1>4, <2>1 DEF Taking
<1>. QED BY <1>1, <1>2, <1>4, <1>7, <1>8 DEF t

\* What is in two sequences, one after the other.
LEMMA Joined ==
  ASSUME NEW S, NEW s \in Seq(S), NEW t \in Seq(S)
  PROVE  /\ s \o t \in Seq(S)
         /\ Len(s \o t) = Len(s) + Len(t)
         /\ \A i \in 1..Len(s) : (s \o t)[i] = s[i]
         /\ \A i \in 1..Len(t) : (s \o t)[Len(s) + i] = t[i]
         /\ ToSet(s \o t) = ToSet(s) \cup ToSet(t)
<1>1. /\ s \o t \in Seq(S)
      /\ Len(s \o t) = Len(s) + Len(t)
      /\ \A i \in 1..Len(s) : (s \o t)[i] = s[i]
      /\ Len(s) \in Nat /\ Len(t) \in Nat
  OBVIOUS
<1>2. \A i \in 1..Len(t) : (s \o t)[Len(s) + i] = t[i]
  OBVIOUS
<1>. DEFINE u == s \o t
<1>3. u \in Seq(S)
  BY <1>1
<1>4. \A y \in ToSet(u) : y \in ToSet(s) \/ y \in ToSet(t)
  <2>. SUFFICES ASSUME NEW y \in ToSet(u) PROVE y \in ToSet(s) \/ y \in ToSet(t)
    OBVIOUS
  <2>1. PICK i \in 1..Len(u) : u[i] = y
    <3>. HIDE DEF u
    <3>. QED BY <1>3, Entries
  <2>2. CASE i <= Len(s)
    <3>1. i \in 1..Len(s) /\ s[i] = y
      BY <1>1, <2>1, <2>2
    <3>. QED BY <3>1, Entries
  <2>3. CASE i > Len(s)
    <3>1. i - Len(s) \in 1..Len(t) /\ t[i - Len(s)] = y
      BY <1>1, <1>2, <2>1, <2>3
    <3>. QED BY <3>1, Entries
  <2>. QED BY <1>1, <2>2, <2>3
<1>5. \A y \in ToSet(s) : y \in ToSet(u)
  <2>. SUFFICES ASSUME NEW y \in ToSet(s) PROVE y \in ToSet(u)
    OBVIOUS
  <2>1. PICK i \in 1..Len(s) : s[i] = y
    BY Entries
  <2>2. i \in 1..Len(u) /\ u[i] = y
    BY <1>1, <2>1
  <2>. HIDE DEF u
  <2>. QED BY <1>3, <2>2, Entries
<1>6. \A y \in ToSet(t) : y \in ToSet(u)
  <2>. SUFFICES ASSUME NEW y \in ToSet(t) PROVE y \in ToSet(u)
    OBVIOUS
  <2>1. PICK i \in 1..Len(t) : t[i] = y
    BY Entries
  <2>2. Len(s) + i \in 1..Len(u) /\ u[Len(s) + i] = y
    BY <1>1, <1>2, <2>1
  <2>. HIDE DEF u
  <2>. QED BY <1>3, <2>2, Entries
<1>. QED BY <1>1, <1>2, <1>4, <1>5, <1>6

\* s \o t, as a name the provers do not look into.
Cat(s, t) == s \o t

\* To append to two sequences is to append to the second.
LEMMA CatThenAppend ==
  ASSUME NEW S, NEW s \in Seq(S), NEW t \in Seq(S), NEW y \in S
  PROVE  Append(Cat(s, t), y) = Cat(s, Append(t, y))
BY DEF Cat

\* One more entry at the front.
LEMMA OnlyPrepend ==
  ASSUME NEW S, NEW s \in Seq(S), NEW x \in S, NEW kept
  PROVE  Only(<<x>> \o s, kept) = IF x \in kept THEN <<x>> \o Only(s, kept) ELSE Only(s, kept)
<1>. DEFINE t == <<x>> \o s
            n == Len(s)
            new == IF x \in kept THEN <<x>> ELSE <<>>
<1>1. /\ t \in Seq(S) /\ Len(t) = n + 1 /\ n \in Nat /\ t[1] = x
      /\ \A i \in 1..n : t[i + 1] = s[i]
      /\ \A i \in 1..n : s[i] \in S
      /\ new \in Seq(S)
  OBVIOUS
<1>2. PICK f \in [0..n -> Seq(S)] : Taking(f, s, kept) /\ Only(s, kept) = f[n]
  BY OnlyIsTaking
<1>. HIDE DEF t, n
<1>3. PICK g \in [0..Len(t) -> Seq(S)] : Taking(g, t, kept) /\ Only(t, kept) = g[Len(t)]
  BY <1>1, OnlyIsTaking
<1>4. g \in [0..(n + 1) -> Seq(S)] /\ Taking(g, t, kept) /\ Only(t, kept) = g[n + 1]
  BY <1>1, <1>3
<1>. DEFINE G == {i \in 0..n : g[i + 1] = Cat(new, f[i])}
<1>5. 0 \in G
  <2>1. 1 \in 1..(n + 1) /\ 1 - 1 = 0 /\ 0 \in 0..n
    BY <1>1
  <2>2. g[1] = IF x \in kept THEN Append(<<>>, x) ELSE <<>>
    BY <1>1, <1>4, <2>1 DEF Taking
  <2>3. g[1] = new /\ f[0] = <<>>
    BY <1>2, <2>2 DEF Taking
  <2>. HIDE DEF new
  <2>4. new \o <<>> = new
    BY <1>1
  <2>5. g[0 + 1] = Cat(new, f[0])
    BY <2>3, <2>4 DEF Cat
  <2>. QED BY <2>1, <2>5
<1>6. ASSUME NEW k \in 0..n, k # n, k \in G PROVE k + 1 \in G
  <2>1. k + 1 \in 1..n /\ (k + 1) + 1 \in 1..(n + 1) /\ k + 1 \in 0..n /\ (k + 1) - 1 = k
        /\ ((k + 1) + 1) - 1 = k + 1
    BY <1>1, <1>6
  <2>. DEFINE y == s[k + 1]
              h == f[k]
  <2>2. g[(k + 1) + 1] = IF y \in kept THEN Append(g[k + 1], y) ELSE g[k + 1]
    <3>. DEFINE m == (k + 1) + 1
    <3>1. t[m] = y
      BY <1>1, <2>1
    <3>2. m \in 1..Len(t) /\ m - 1 = k + 1
      BY <1>1, <2>1
    <3>. HIDE DEF m, y
    <3>3. g[m] = IF t[m] \in kept THEN Append(g[m - 1], t[m]) ELSE g[m - 1]
      BY <1>4, <3>2 DEF Taking
    <3>. QED BY <3>1, <3>2, <3>3 DEF m
  <2>3. f[k + 1] = IF y \in kept THEN Append(h, y) ELSE h
    BY <1>2, <2>1 DEF Taking, n
  <2>4. g[k + 1] = Cat(new, h) /\ h \in Seq(S) /\ y \in S
    BY <1>1, <1>6, <2>1
  <2>. HIDE DEF y, h, new
  <2>5. Append(Cat(new, h), y) = Cat(new, Append(h, y))
    <3>1. new \in Seq(S) /\ h \in Seq(S) /\ y \in S
      BY <1>1, <2>4
    <3>. HIDE DEF G
    <3>. QED BY <3>1, CatThenAppend
  <2>. QED BY <2>1, <2>2, <2>3, <2>4, <2>5
<1>7. g[n + 1] = Cat(new, f[n])
  <2>. HIDE DEF G
  <2>1. \A i \in 0..n : i \in G
    BY <1>1, <1>5, <1>6, Induct
  <2>2. n \in G
    BY <1>1, <2>1
  <2>. QED BY <2>2 DEF G
<1>8. f[n] \in Seq(S)
  BY <1>1
<1>9. Only(t, kept) = new \o Only(s, kept) /\ <<>> \o f[n] = f[n]
  BY <1>2, <1>4, <1>7, <1>8 DEF Cat
<1>. QED BY <1>2, <1>9 DEF t

\* A sequence of sequences, one after the other.
LEMMA FlattenFacts ==
  ASSUME NEW S, NEW ss \in Seq(Seq(S))
  PROVE  /\ FlattenSeq(ss) \in Seq(S)
         /\ ToSet(FlattenSeq(ss)) = {x \in S : \E i \in 1..Len(ss) : x \in ToSet(ss[i])}
<1>. DEFINE n == Len(ss)
            step == [at \in (1..n) \X Seq(S) |-> Cat(at[2], ss[at[1]])]
            body(f) == [i \in 1..n |-> IF i = 1 THEN ss[i] ELSE f[i - 1] \o ss[i]]
            run == CHOOSE f : f = body(f)
            upTo(i) == {x \in S : \E j \in 1..i : x \in ToSet(ss[j])}
<1>1. n \in Nat /\ \A i \in 1..n : ss[i] \in Seq(S)
  OBVIOUS
<1>2. CASE n = 0
  <2>1. ss = <<>> /\ FlattenSeq(ss) = <<>> /\ ToSet(<<>>) = {}
    BY <1>2 DEF FlattenSeq, ToSet
  <2>2. {x \in S : \E i \in 1..Len(ss) : x \in ToSet(ss[i])} = {}
    BY <1>2
  <2>3. <<>> \in Seq(S)
    OBVIOUS
  <2>. QED BY <2>1, <2>2, <2>3
<1>3. CASE n # 0
  <2>1. step \in [(1..n) \X Seq(S) -> Seq(S)]
    <3>. HIDE DEF n
    <3>1. \A s \in Seq(S), t \in Seq(S) : Cat(s, t) \in Seq(S)
      BY DEF Cat
    <3>. QED BY <1>1, <3>1
  <2>2. PICK f \in [0..n -> Seq(S)] : Steps(f, <<>>, step, n)
    <3>. HIDE DEF n, step
    <3>1. <<>> \in Seq(S)
      OBVIOUS
    <3>. QED BY <1>1, <2>1, <3>1, StepsExist
  <2>3. ASSUME NEW i \in 1..n PROVE f[i] = Cat(f[i - 1], ss[i])
    <3>1. f[i - 1] \in Seq(S)
      <4>1. i - 1 \in 0..n
        BY <1>1
      <4>. HIDE DEF n, step
      <4>. QED BY <4>1
    <3>2. f[i] = step[<<i, f[i - 1]>>]
      BY <2>2 DEF Steps
    <3>. HIDE DEF n
    <3>. QED BY <3>1, <3>2
  <2>4. f[1] = ss[1]
    <3>1. f[0] = <<>> /\ 1 \in 1..n /\ 1 - 1 = 0
      BY <1>1, <1>3, <2>2 DEF Steps
    <3>2. Cat(<<>>, ss[1]) = ss[1]
      BY <1>1, <3>1 DEF Cat
    <3>. QED BY <2>3, <3>1, <3>2
  <2>. DEFINE g == [i \in 1..n |-> f[i]]
  <2>5. g = body(g)
    <3>1. ASSUME NEW i \in 1..n PROVE g[i] = IF i = 1 THEN ss[i] ELSE g[i - 1] \o ss[i]
      <4>1. CASE i = 1
        BY <2>4, <4>1
      <4>2. CASE i # 1
        <5>1. i - 1 \in 1..n
          BY <1>1, <4>2
        <5>2. g[i] = f[i] /\ g[i - 1] = f[i - 1]
          BY <5>1
        <5>. HIDE DEF g
        <5>. QED BY <2>3, <4>2, <5>2 DEF Cat
      <4>. QED BY <4>1, <4>2
    <3>. QED BY <3>1
  <2>6. run = body(run)
    <3>. HIDE DEF body, g
    <3>. QED BY <2>5
  <2>7. FlattenSeq(ss) = run[n]
    BY <1>3 DEF FlattenSeq
  <2>. HIDE DEF run
  <2>8. /\ run[1] = ss[1]
        /\ \A i \in 1..n : i # 1 => run[i] = run[i - 1] \o ss[i]
    <3>1. \A i \in 1..n : run[i] = IF i = 1 THEN ss[i] ELSE run[i - 1] \o ss[i]
      <4>. SUFFICES ASSUME NEW i \in 1..n
                    PROVE  run[i] = IF i = 1 THEN ss[i] ELSE run[i - 1] \o ss[i]
        OBVIOUS
      <4>1. run[i] = body(run)[i]
        BY <2>6
      <4>. HIDE DEF n
      <4>. QED BY <4>1
    <3>2. 1 \in 1..n
      BY <1>1, <1>3
    <3>. HIDE DEF n
    <3>. QED BY <3>1, <3>2
  <2>. DEFINE G == {i \in 0..n : i # 0 => run[i] \in Seq(S) /\ ToSet(run[i]) = upTo(i)}
  <2>9. 0 \in G
    BY <1>1
  <2>10. ASSUME NEW k \in 0..n, k # n, k \in G PROVE k + 1 \in G
    <3>1. k + 1 \in 1..n /\ k + 1 \in 0..n /\ (k + 1) - 1 = k /\ k \in Nat /\ ss[k + 1] \in Seq(S)
      BY <1>1, <2>10
    <3>2. CASE k = 0
      <4>1. ToSet(ss[1]) = upTo(1)
        <5>1. ss[1] \in Seq(S)
          BY <3>1, <3>2
        <5>2. ToSet(ss[1]) \subseteq S
          BY <5>1, Entries
        <5>3. \A j : j \in 1..1 <=> j = 1
          OBVIOUS
        <5>. QED BY <5>2, <5>3
      <4>2. run[1] = ss[1] /\ k + 1 = 1
        BY <2>8, <3>2
      <4>. HIDE DEF upTo
      <4>. QED BY <3>1, <3>2, <4>1, <4>2
    <3>3. CASE k # 0
      <4>1. run[k + 1] = run[k] \o ss[k + 1]
        <5>1. k + 1 # 1
          BY <3>1, <3>3
        <5>. DEFINE m == k + 1
        <5>2. m \in 1..n /\ m # 1 /\ m - 1 = k
          BY <3>1, <5>1
        <5>. HIDE DEF m, n
        <5>3. run[m] = run[m - 1] \o ss[m]
          BY <2>8, <5>2
        <5>. QED BY <5>2, <5>3 DEF m
      <4>2. run[k] \in Seq(S) /\ ToSet(run[k]) = upTo(k)
        BY <2>10, <3>3
      <4>3. run[k + 1] \in Seq(S) /\ ToSet(run[k + 1]) = upTo(k) \cup ToSet(ss[k + 1])
        BY <3>1, <4>1, <4>2, Joined
      <4>4. upTo(k + 1) = upTo(k) \cup ToSet(ss[k + 1])
        <5>1. ToSet(ss[k + 1]) \subseteq S
          BY <3>1, Entries
        <5>2. \A j : j \in 1..(k + 1) <=> j \in 1..k \/ j = k + 1
          BY <3>1
        <5>. QED BY <5>1, <5>2
      <4>5. run[k + 1] \in Seq(S) /\ ToSet(run[k + 1]) = upTo(k + 1)
        <5>. HIDE DEF upTo
        <5>. QED BY <4>3, <4>4
      <4>. HIDE DEF upTo
      <4>. QED BY <3>1, <4>5
    <3>. QED BY <3>2, <3>3
  <2>11. n \in G
    <3>1. n \in Nat
      BY <1>1
    <3>. HIDE DEF G, n
    <3>2. \A i \in 0..n : i \in G
      BY <2>9, <2>10, <3>1, Induct
    <3>. QED BY <3>1, <3>2
  <2>. HIDE DEF upTo, n
  <2>12. run[n] \in Seq(S) /\ ToSet(run[n]) = upTo(n)
    BY <1>3, <2>11
  <2>. QED BY <2>7, <2>12 DEF upTo, n
<1>. QED BY <1>2, <1>3

-----------------------------------------------------------------------------
(* The invariant. *)

SearchType == [round : Nat \ {0}, keyword : Keywords, range : Ranges,
               page : [1..Endpoints -> Nat], got : [1..Endpoints -> Seq(Bids)],
               items : Seq(Bids), always : SUBSET Bids, calm : BOOLEAN]

AnswerType == [keyword : Keywords, range : Ranges, found : Seq(Bids),
               always : SUBSET Bids, calm : BOOLEAN]

Typed == /\ listed \in [1..Endpoints -> Seq(Bids)]
         /\ search = NoSearch \/ search \in SearchType
         /\ shown = NoAnswer \/ shown \in AnswerType

InRange(range) == {b \in Bids : Day[b] \in range[1]..range[2]}

\* All that a search has collected is in its range.
Inside(s) == /\ ToSet(s.items) \subseteq InRange(s.range)
             /\ \A e \in 1..Endpoints : ToSet(s.got[e]) \subseteq InRange(s.range)

\* What an endpoint lists for the round of search s.
Matching(s, e) == Only(listed[e], Asked(Rounds(s.keyword, s.range)[s.round]))

\* Of the sequence matching, the pages before this one (all of them, if it is
\* 0) had every entry that was there from the start: an entry published in
\* front of them only moves the others to later pages.
PagedTo(matching, page, always, got) ==
  \A i \in 1..Len(matching) :
    matching[i] \in always /\ (page = 0 \/ i <= (page - 1) * PageSize) => matching[i] \in got

Paged(s, e) == PagedTo(Matching(s, e), s.page[e], s.always, ToSet(s.got[e]))

\* A calm search has everything that the rounds before this one asked for and
\* that was listed all the time.
Covered(s) ==
  s.calm =>
    /\ s.always \subseteq AllListed /\ AllListed \cap Nameless = {}
    /\ \A k \in 1..(s.round - 1) :
         s.always \cap Asked(Rounds(s.keyword, s.range)[k]) \subseteq ToSet(s.items)
    /\ \A e \in 1..Endpoints : Paged(s, e)

Searching(s) == s.round <= Len(Rounds(s.keyword, s.range)) /\ Inside(s) /\ Covered(s)

Exact(a) ==
  /\ Distinct(a.found)
  /\ ToSet(a.found) \subseteq {b \in InRange(a.range) : HasWords(b, a.keyword)}
  /\ a.calm => a.always \cap Findable(a.keyword, a.range) \subseteq ToSet(a.found)

SearchInv == /\ Typed
             /\ search # NoSearch => Searching(search)
             /\ shown # NoAnswer => Exact(shown)

-----------------------------------------------------------------------------
(* Pages. *)

\* A longer factor, a longer product.
LEMMA Products ==
  ASSUME NEW n \in Nat, NEW p \in Nat, NEW q \in Nat, p <= q
  PROVE  p * n \in Nat /\ q * n \in Nat /\ p * n <= q * n
<1>1. q - p \in Nat
  OBVIOUS
<1>2. (q - p) * n \in Nat
  BY <1>1
<1>3. q * n = p * n + (q - p) * n
  OBVIOUS
<1>. QED BY <1>2, <1>3

\* A page holds the entries of the sequence at its place, and a short one is
\* the last.
LEMMA PageFacts ==
  ASSUME NEW S, NEW s \in Seq(S), NEW size \in Nat \ {0}, NEW page \in Nat \ {0}
  PROVE  LET cut == PageOf(s, size, page)
             before == (page - 1) * size
         IN  /\ before \in Nat /\ page * size = before + size
             /\ cut \in Seq(S) /\ Len(cut) <= size
             /\ \A i \in 1..Len(cut) : before + i \in 1..Len(s) /\ cut[i] = s[before + i]
             /\ \A i \in 1..size : before + i <= Len(s) => i \in 1..Len(cut)
             /\ Len(cut) < size => Len(s) < before + size
<1>. DEFINE before == (page - 1) * size
            last == IF page * size < Len(s) THEN page * size ELSE Len(s)
            cut == SubSeq(s, before + 1, last)
<1>1. before \in Nat /\ page * size = before + size
  <2>1. page - 1 \in Nat
    OBVIOUS
  <2>. QED BY <2>1, Products
<1>2. last = IF before + size < Len(s) THEN before + size ELSE Len(s)
  BY <1>1
<1>3. PageOf(s, size, page) = cut
  BY DEF PageOf
<1>. HIDE DEF before
<1>4. Len(s) \in Nat /\ last \in Nat /\ last <= Len(s) /\ last <= before + size
  BY <1>1, <1>2
<1>5. /\ cut \in Seq(S)
      /\ Len(cut) = IF before + 1 <= last THEN last - before ELSE 0
      /\ \A i \in 1..Len(cut) : cut[i] = s[before + i]
  <2>. HIDE DEF last
  <2>1. CASE before + 1 <= last
    <3>1. \A i \in (before + 1)..last : i \in 1..Len(s) /\ s[i] \in S
      BY <1>1, <1>4, Entries
    <3>2. cut \in Seq(S) /\ Len(cut) = last - before
      BY <1>1, <1>4, <2>1, <3>1
    <3>3. \A i \in 1..(last - before) : cut[i] = s[before + i]
      BY <1>1, <1>4, <2>1
    <3>. QED BY <2>1, <3>2, <3>3
  <2>2. CASE ~ (before + 1 <= last)
    BY <1>1, <1>4, <2>2
  <2>. QED BY <2>1, <2>2
<1>. HIDE DEF cut
<1>6. /\ Len(cut) <= size
      /\ \A i \in 1..Len(cut) : before + i \in 1..Len(s) /\ cut[i] = s[before + i]
      /\ \A i \in 1..size : before + i <= Len(s) => i \in 1..Len(cut)
      /\ Len(cut) < size => Len(s) < before + size
  <2>. DEFINE n == Len(s)
              len == Len(cut)
  <2>. HIDE DEF last, n, len
  <2>1. /\ before \in Nat /\ size \in Nat \ {0} /\ n \in Nat /\ last \in Nat
        /\ last = IF before + size < n THEN before + size ELSE n
        /\ len = IF before + 1 <= last THEN last - before ELSE 0
    BY <1>1, <1>2, <1>4, <1>5 DEF n, len
  <2>2. len \in Nat /\ len <= size /\ (len < size => n < before + size)
    BY <2>1
  <2>3. \A i \in 1..len : before + i \in 1..n
    BY <2>1
  <2>4. \A i \in 1..size : before + i <= n => i \in 1..len
    BY <2>1
  <2>. QED BY <1>5, <2>2, <2>3, <2>4 DEF n, len
<1>. QED BY <1>1, <1>3, <1>5, <1>6 DEF before

\* What a page holds and what it covers.
LEMMA PageCovers ==
  ASSUME NEW S, NEW s \in Seq(S), NEW size \in Nat \ {0}, NEW page \in Nat \ {0}
  PROVE  LET cut == PageOf(s, size, page)
         IN  /\ cut \in Seq(S)
             /\ ToSet(cut) \subseteq ToSet(s)
             /\ \A i \in 1..Len(s) : /\ i > (page - 1) * size
                                     /\ i <= page * size \/ Len(cut) < size
                                     => s[i] \in ToSet(cut)
<1>. DEFINE cut == PageOf(s, size, page)
            before == (page - 1) * size
<1>1. /\ before \in Nat /\ page * size = before + size
      /\ cut \in Seq(S) /\ Len(cut) <= size
      /\ \A i \in 1..Len(cut) : before + i \in 1..Len(s) /\ cut[i] = s[before + i]
      /\ \A i \in 1..size : before + i <= Len(s) => i \in 1..Len(cut)
      /\ Len(cut) < size => Len(s) < before + size
  BY PageFacts
<1>2. Len(s) \in Nat
  OBVIOUS
<1>. HIDE DEF cut, before
<1>3. ToSet(cut) \subseteq ToSet(s)
  <2>. SUFFICES ASSUME NEW x \in ToSet(cut) PROVE x \in ToSet(s)
    OBVIOUS
  <2>1. PICK i \in 1..Len(cut) : cut[i] = x
    BY <1>1, Entries
  <2>. QED BY <1>1, <2>1, Entries
<1>4. ASSUME NEW i \in 1..Len(s), i > before, i <= before + size \/ Len(cut) < size
      PROVE  s[i] \in ToSet(cut)
  <2>1. i - before \in 1..size /\ before + (i - before) = i
    BY <1>1, <1>2, <1>4
  <2>2. i - before \in 1..Len(cut)
    BY <1>1, <2>1
  <2>3. cut[i - before] = s[i]
    BY <1>1, <2>1, <2>2
  <2>. QED BY <1>1, <2>2, <2>3, Entries
<1>. QED BY <1>1, <1>3, <1>4 DEF cut, before

\* Division with its remainder.
LEMMA Division ==
  ASSUME NEW a \in Nat, NEW n \in Nat \ {0}
  PROVE  /\ a \div n \in Nat
         /\ (a \div n) * n \in Nat
         /\ a - (a \div n) * n \in 0..(n - 1)
<1>1. a \div n \in Nat
  OBVIOUS
<1>2. a = n * (a \div n) + (a % n) /\ a % n \in 0..(n - 1)
  OBVIOUS
<1>3. n * (a \div n) = (a \div n) * n
  BY <1>1
<1>. QED BY <1>1, <1>2, <1>3, Products

\* A number of pages before and a place on the page, in only one way.
LEMMA PlaceIsUnique ==
  ASSUME NEW n \in Nat \ {0}, NEW p \in Nat, NEW q \in Nat, NEW i \in 1..n, NEW j \in 1..n,
         p * n + i = q * n + j
  PROVE  p = q /\ i = j
<1>1. ASSUME NEW x \in Nat, NEW y \in Nat, NEW k \in 1..n, NEW l \in 1..n, x < y
      PROVE  x * n + k # y * n + l
  <2>1. (x + 1) * n = x * n + n /\ x * n \in Nat /\ y * n \in Nat
    BY Products
  <2>2. (x + 1) * n <= y * n
    BY <1>1, Products
  <2>. QED BY <2>1, <2>2
<1>2. ~ p < q /\ ~ q < p
  BY <1>1
<1>3. p = q
  BY <1>2
<1>4. p * n \in Nat
  BY Products
<1>. QED BY <1>3, <1>4

\* Each entry is on exactly one slice of an answer without duplicates, once.
LEMMA SlicesShowOnce ==
  ASSUME NEW S, NEW found \in Seq(S), Distinct(found), NEW b \in ToSet(found)
  PROVE  Cardinality({at \in (1..TotalPages(found)) \X (1..ShownSize) :
                        /\ at[2] \in DOMAIN Slice(found, at[1])
                        /\ Slice(found, at[1])[at[2]] = b}) = 1
<1>. DEFINE size == ShownSize
            shows(p, i) == i \in DOMAIN Slice(found, p) /\ Slice(found, p)[i] = b
            places == {at \in (1..TotalPages(found)) \X (1..size) : shows(at[1], at[2])}
<1>1. size \in Nat \ {0} /\ Len(found) \in Nat
  BY SearchAssumption
<1>2. PICK j \in 1..Len(found) : found[j] = b
  BY Entries
<1>. DEFINE q == (j - 1) \div size
            r == (j - 1) - q * size + 1
<1>3. q \in Nat /\ q * size \in Nat /\ r \in 1..size /\ q * size + r = j
  <2>1. j - 1 \in Nat
    OBVIOUS
  <2>2. q \in Nat /\ q * size \in Nat /\ (j - 1) - q * size \in 0..(size - 1)
    BY <1>1, <2>1, Division
  <2>. HIDE DEF q
  <2>. QED BY <1>1, <2>1, <2>2
<1>4. q + 1 \in 1..TotalPages(found)
  <2>. DEFINE pages == TotalPages(found)
              full == Len(found) + size - 1
  <2>1. full \in Nat /\ pages = full \div size
    BY <1>1 DEF TotalPages
  <2>. HIDE DEF full, pages
  <2>2. pages \in Nat /\ pages * size \in Nat /\ full - pages * size \in 0..(size - 1)
    BY <1>1, <2>1, Division
  <2>3. pages * size >= Len(found)
    BY <1>1, <2>1, <2>2 DEF full
  <2>. HIDE DEF q, r
  <2>4. pages * size > q * size
    BY <1>1, <1>3, <2>2, <2>3
  <2>5. ~ pages <= q
    BY <1>1, <1>3, <2>2, <2>4, Products
  <2>. QED BY <1>3, <2>2, <2>5 DEF pages
<1>. HIDE DEF q, r
<1>5. ASSUME NEW p \in 1..TotalPages(found), NEW i \in 1..size
      PROVE  shows(p, i) <=> p = q + 1 /\ i = r
  <2>. DEFINE cut == PageOf(found, size, p)
              before == (p - 1) * size
  <2>1. p \in Nat \ {0} /\ p - 1 \in Nat
    OBVIOUS
  <2>2. /\ before \in Nat
        /\ cut \in Seq(S)
        /\ \A k \in 1..Len(cut) : before + k \in 1..Len(found) /\ cut[k] = found[before + k]
        /\ \A k \in 1..size : before + k <= Len(found) => k \in 1..Len(cut)
    BY <1>1, <2>1, PageFacts
  <2>. HIDE DEF cut
  <2>3. shows(p, i) <=> i \in 1..Len(cut) /\ cut[i] = b
    BY <2>2 DEF Slice, cut
  <2>4. ASSUME i \in 1..Len(cut), cut[i] = b PROVE p = q + 1 /\ i = r
    <3>1. found[before + i] = b /\ before + i \in 1..Len(found)
      BY <2>2, <2>4
    <3>2. before + i = j
      BY <1>2, <3>1 DEF Distinct
    <3>3. p - 1 = q /\ i = r
      BY <1>1, <1>3, <2>1, <3>2, PlaceIsUnique
    <3>. QED BY <1>3, <3>3
  <2>5. ASSUME p = q + 1, i = r PROVE i \in 1..Len(cut) /\ cut[i] = b
    <3>1. p - 1 = q
      BY <1>3, <2>5
    <3>2. before + i = j
      BY <1>3, <2>5, <3>1
    <3>. HIDE DEF before
    <3>. QED BY <1>1, <1>2, <2>2, <3>2
  <2>. QED BY <2>3, <2>4, <2>5
<1>6. places = {<<q + 1, r>>}
  <2>. HIDE DEF shows
  <2>. QED BY <1>3, <1>4, <1>5
<1>. HIDE DEF places
<1>7. Cardinality(places) = 1
  BY <1>6, FS_Singleton
<1>. QED BY <1>7 DEF places

-----------------------------------------------------------------------------
(* Windows, queries and rounds. *)

\* The windows lie in the range and leave no day of it out.
LEMMA WindowFacts ==
  ASSUME NEW range \in Ranges
  PROVE  \E n \in Nat :
           /\ DOMAIN Windows(range) = 1..n
           /\ \A k \in 1..n : /\ range[1] <= Windows(range)[k][1]
                              /\ Windows(range)[k][1] \in Nat
                              /\ Windows(range)[k][2] \in Int
                              /\ Windows(range)[k][2] <= range[2]
           /\ \A d \in range[1]..range[2] :
                \E k \in 1..n : d \in Windows(range)[k][1]..Windows(range)[k][2]
<1>. DEFINE a == range[1]
            z == range[2]
            m == MaxDays
            n == (z - a) \div m + 1
            start(k) == a + (k - 1) * m
            end(k) == IF start(k) + m - 1 < z THEN start(k) + m - 1 ELSE z
<1>1. a \in Nat /\ z \in Nat /\ a <= z /\ m \in Nat \ {0} /\ z - a \in Nat
  BY SearchAssumption
<1>2. /\ DOMAIN Windows(range) = 1..n
      /\ \A k \in 1..n : Windows(range)[k] = <<start(k), end(k)>>
  BY DEF Windows
<1>. HIDE DEF a, z, m
<1>3. n \in Nat
  BY <1>1, Division
<1>. HIDE DEF n
<1>4. \A k \in 1..n : (k - 1) * m \in Nat
  <2>1. \A k \in 1..n : k - 1 \in Nat
    OBVIOUS
  <2>. QED BY <1>1, <2>1, Products
<1>5. ASSUME NEW k \in 1..n
      PROVE  /\ a <= Windows(range)[k][1] /\ Windows(range)[k][1] \in Nat
             /\ Windows(range)[k][2] \in Int /\ Windows(range)[k][2] <= z
  <2>. DEFINE before == (k - 1) * m
  <2>1. before \in Nat
    BY <1>4
  <2>. HIDE DEF before
  <2>2. start(k) = a + before
    BY DEF before
  <2>3. start(k) \in Nat /\ a <= start(k) /\ end(k) \in Int /\ end(k) <= z
    <3>. HIDE DEF start
    <3>. QED BY <1>1, <2>1, <2>2
  <2>. HIDE DEF start, end
  <2>. QED BY <1>2, <2>3
<1>6. ASSUME NEW d \in a..z PROVE \E k \in 1..n : d \in Windows(range)[k][1]..Windows(range)[k][2]
  <2>. DEFINE q == (d - a) \div m
              k == q + 1
  <2>1. d - a \in Nat /\ d \in Nat /\ a <= d /\ d <= z
    BY <1>1
  <2>2. q \in Nat /\ q * m \in Nat /\ (d - a) - q * m \in 0..(m - 1)
    BY <1>1, <2>1, Division
  <2>. HIDE DEF q
  <2>3. start(k) = a + q * m
    BY <2>2
  <2>4. k \in 1..n
    <3>. DEFINE last == (z - a) \div m
    <3>1. last \in Nat /\ last * m \in Nat /\ (z - a) - last * m \in 0..(m - 1)
      BY <1>1, Division
    <3>2. n = last + 1
      BY DEF n
    <3>. HIDE DEF last
    <3>3. (last + 1) * m = last * m + m
      BY <1>1, <3>1
    <3>4. q * m < (last + 1) * m
      BY <1>1, <2>1, <2>2, <3>1, <3>3
    <3>5. ~ last + 1 <= q
      <4>1. last + 1 \in Nat /\ m \in Nat
        BY <1>1, <3>1
      <4>2. ASSUME last + 1 <= q PROVE (last + 1) * m <= q * m
        BY <2>2, <4>1, <4>2, Products
      <4>. DEFINE x == (last + 1) * m
                  y == q * m
      <4>3. x \in Nat /\ y \in Nat /\ y < x /\ (last + 1 <= q => x <= y)
        BY <2>2, <3>4, <4>1, <4>2, Products
      <4>. HIDE DEF x, y
      <4>. QED BY <4>3
    <3>. QED BY <2>2, <3>1, <3>2, <3>5
  <2>5. d \in start(k)..end(k)
    <3>. DEFINE before == q * m
    <3>1. before \in Nat /\ (d - a) - before \in 0..(m - 1) /\ start(k) = a + before
      BY <2>2, <2>3
    <3>. HIDE DEF before, start, k
    <3>. QED BY <1>1, <2>1, <3>1
  <2>. HIDE DEF start, end, k
  <2>. QED BY <1>2, <2>4, <2>5
<1>. QED BY <1>2, <1>3, <1>5, <1>6 DEF a, z

\* A finite sequence of numbers has a largest one of those above a bound.
LEMMA Largest ==
  ASSUME NEW s \in Seq(Nat), NEW words, words = {w \in ToSet(s) : w >= 2}, words # {}
  PROVE  \E w \in words : \A v \in words : v <= w
<1>. DEFINE n == Len(s)
            G == {i \in 0..n : \E m \in Nat : \A j \in 1..i : s[j] <= m}
<1>1. n \in Nat /\ \A i \in 1..n : s[i] \in Nat
  BY Entries
<1>2. 0 \in G
  BY <1>1
<1>3. ASSUME NEW k \in 0..n, k # n, k \in G PROVE k + 1 \in G
  <2>1. PICK m \in Nat : \A j \in 1..k : s[j] <= m
    BY <1>3
  <2>2. k + 1 \in 1..n /\ k + 1 \in 0..n
    BY <1>1, <1>3
  <2>3. s[k + 1] \in Nat
    BY <1>1, <2>2
  <2>. DEFINE top == IF s[k + 1] <= m THEN m ELSE s[k + 1]
  <2>4. top \in Nat /\ m <= top /\ s[k + 1] <= top
    BY <2>3
  <2>. HIDE DEF top
  <2>5. \A j \in 1..(k + 1) : s[j] <= top
    <3>. SUFFICES ASSUME NEW j \in 1..(k + 1) PROVE s[j] <= top
      OBVIOUS
    <3>1. CASE j = k + 1
      BY <2>4, <3>1
    <3>2. CASE j # k + 1
      <4>1. j \in 1..k /\ j \in 1..n
        BY <2>2, <3>2
      <4>2. s[j] <= m /\ s[j] \in Nat
        BY <1>1, <2>1, <4>1
      <4>. QED BY <2>4, <4>2
    <3>. QED BY <3>1, <3>2
  <2>. QED BY <2>2, <2>4, <2>5
<1>4. \E m \in Nat : \A j \in 1..n : s[j] <= m
  <2>1. n \in Nat
    BY <1>1
  <2>2. n \in G
    <3>. HIDE DEF G, n
    <3>1. \A i \in 0..n : i \in G
      BY <1>2, <1>3, <2>1, Induct
    <3>. QED BY <2>1, <3>1
  <2>. QED BY <2>2
<1>. DEFINE T == {m \in Nat : \A v \in words : v <= m}
<1>5. words \subseteq Nat /\ \A w \in words : \E i \in 1..n : s[i] = w
  BY Entries
<1>6. T # {}
  <2>1. PICK m \in Nat : \A j \in 1..n : s[j] <= m
    BY <1>4
  <2>2. \A v \in words : v <= m
    BY <1>5, <2>1
  <2>3. m \in T
    BY <2>2
  <2>. QED BY <2>3
<1>7. PICK m \in T : \A other \in T : m <= other
  <2>1. T \in SUBSET Nat
    OBVIOUS
  <2>. HIDE DEF T
  <2>. QED BY <1>6, <2>1, Least
<1>8. m \in words
  <2>. SUFFICES ASSUME m \notin words PROVE FALSE
    OBVIOUS
  <2>1. PICK w \in words : TRUE
    OBVIOUS
  <2>2. m \in Nat /\ \A v \in words : v <= m /\ v # m /\ v \in Nat
    BY <1>5, <1>7
  <2>3. m # 0 /\ m - 1 \in Nat
    BY <2>1, <2>2
  <2>4. \A v \in words : v <= m - 1
    BY <2>2, <2>3
  <2>5. m - 1 \in T
    BY <2>3, <2>4
  <2>. HIDE DEF T
  <2>6. m <= m - 1
    BY <1>7, <2>5
  <2>. QED BY <2>2, <2>3, <2>6
<1>. QED BY <1>7, <1>8

\* The first query is the keyword; the other, if there is one, is a word of it.
LEMMA QueryFacts ==
  ASSUME NEW keyword \in Keywords
  PROVE  /\ Queries(keyword) \in Seq(Seq(Nat))
         /\ Len(Queries(keyword)) \in {1, 2}
         /\ Queries(keyword)[1] = keyword
         /\ Len(Queries(keyword)) = 2 => \E w \in ToSet(keyword) : Queries(keyword)[2] = <<w>>
<1>. DEFINE words == {w \in ToSet(keyword) : w >= 2}
            w == CHOOSE x \in words : \A v \in words : v <= x
<1>1. keyword \in Seq(Nat)
  BY SearchAssumption
<1>2. CASE Cardinality(words) < 2
  <2>1. Queries(keyword) = <<keyword>> \o <<>>
    BY <1>2 DEF Queries
  <2>2. <<keyword>> \o <<>> = <<keyword>>
    OBVIOUS
  <2>. QED BY <1>1, <2>1, <2>2
<1>3. CASE ~ Cardinality(words) < 2
  <2>1. words # {}
    BY <1>3, FS_EmptySet
  <2>2. w \in words
    <3>. HIDE DEF words
    <3>1. \E x \in words : \A v \in words : v <= x
      BY <1>1, <2>1, Largest DEF words
    <3>. QED BY <3>1
  <2>3. Queries(keyword) = <<keyword>> \o << <<w>> >>
    BY <1>3 DEF Queries
  <2>. HIDE DEF w
  <2>4. w \in ToSet(keyword) /\ w \in Nat
    BY <1>1, <2>2, Entries
  <2>5. <<w>> \in Seq(Nat)
    BY <2>4
  <2>. DEFINE word == <<w>>
              queries == <<keyword>> \o <<word>>
  <2>. HIDE DEF word
  <2>6. queries \in Seq(Seq(Nat)) /\ Len(queries) = 2 /\ queries[1] = keyword /\ queries[2] = word
    BY <1>1, <2>5 DEF word
  <2>7. Queries(keyword) = queries
    BY <2>3 DEF word
  <2>. QED BY <2>4, <2>6, <2>7 DEF word
<1>. QED BY <1>2, <1>3

\* Every window is asked every query, and nothing else is.
LEMMA RoundFacts ==
  ASSUME NEW keyword \in Keywords, NEW range \in Ranges
  PROVE  LET rounds == Rounds(keyword, range)
         IN  /\ Len(rounds) \in Nat
             /\ \A r \in 1..Len(rounds) :
                  \E w \in DOMAIN Windows(range), q \in 1..Len(Queries(keyword)) :
                    rounds[r] = <<Windows(range)[w], Queries(keyword)[q]>>
             /\ \A w \in DOMAIN Windows(range), q \in 1..Len(Queries(keyword)) :
                  \E r \in 1..Len(rounds) :
                    rounds[r] = <<Windows(range)[w], Queries(keyword)[q]>>
<1>. DEFINE W == Windows(range)
            Q == Queries(keyword)
            P == {<<W[w], Q[q]>> : w \in DOMAIN W, q \in 1..Len(Q)}
            ss == [w \in DOMAIN W |-> [q \in DOMAIN Q |-> <<W[w], Q[q]>>]]
            rounds == Rounds(keyword, range)
<1>1. PICK n \in Nat : DOMAIN W = 1..n
  BY WindowFacts
<1>2. Len(Q) \in Nat /\ DOMAIN Q = 1..Len(Q)
  BY QueryFacts
<1>3. rounds = FlattenSeq(ss)
  BY DEF Rounds
<1>. HIDE DEF W, Q
<1>4. \A w \in 1..n : /\ ss[w] = [q \in 1..Len(Q) |-> <<W[w], Q[q]>>]
                      /\ ss[w] \in Seq(P) /\ Len(ss[w]) = Len(Q)
                      /\ \A q \in 1..Len(Q) : ss[w][q] = <<W[w], Q[q]>>
  BY <1>1, <1>2
<1>5. ss \in Seq(Seq(P)) /\ Len(ss) = n
  <2>. HIDE DEF P
  <2>1. ss = [w \in 1..n |-> ss[w]]
    BY <1>1
  <2>. HIDE DEF ss
  <2>. QED BY <1>4, <2>1
<1>. HIDE DEF ss
<1>6. rounds \in Seq(P) /\ ToSet(rounds) = {x \in P : \E w \in 1..n : x \in ToSet(ss[w])}
  <2>. HIDE DEF P
  <2>. QED BY <1>3, <1>5, FlattenFacts
<1>. HIDE DEF rounds
<1>7. Len(rounds) \in Nat
  BY <1>6
<1>8. ASSUME NEW r \in 1..Len(rounds)
      PROVE  \E w \in DOMAIN W, q \in 1..Len(Q) : rounds[r] = <<W[w], Q[q]>>
  <2>1. rounds[r] \in P
    BY <1>6
  <2>. QED BY <2>1
<1>9. ASSUME NEW w \in DOMAIN W, NEW q \in 1..Len(Q)
      PROVE  \E r \in 1..Len(rounds) : rounds[r] = <<W[w], Q[q]>>
  <2>. DEFINE x == <<W[w], Q[q]>>
  <2>1. x \in P
    OBVIOUS
  <2>2. x \in ToSet(ss[w])
    <3>. HIDE DEF P
    <3>1. ss[w] \in Seq(P) /\ Len(ss[w]) = Len(Q)
      BY <1>1, <1>4
    <3>2. ss[w][q] = x
      BY <1>1, <1>4, Zenon
    <3>. HIDE DEF x
    <3>3. \A i \in 1..Len(ss[w]) : ss[w][i] \in ToSet(ss[w])
      BY <3>1, Entries
    <3>. QED BY <3>1, <3>3, <3>2
  <2>. HIDE DEF x, P
  <2>3. x \in ToSet(rounds)
    BY <1>1, <1>6, <2>1, <2>2
  <2>4. \E r \in 1..Len(rounds) : rounds[r] = x
    BY <1>6, <2>3, Entries
  <2>. QED BY <2>4 DEF x
<1>. QED BY <1>7, <1>8, <1>9 DEF W, Q, rounds

\* What a round asks for is in range.
LEMMA AskedInRange ==
  ASSUME NEW keyword \in Keywords, NEW range \in Ranges,
         NEW r \in 1..Len(Rounds(keyword, range))
  PROVE  Asked(Rounds(keyword, range)[r]) \subseteq InRange(range)
<1>. DEFINE round == Rounds(keyword, range)[r]
<1>1. PICK w \in DOMAIN Windows(range) : round[1] = Windows(range)[w]
  <2>1. PICK w \in DOMAIN Windows(range), q \in 1..Len(Queries(keyword)) :
          round = <<Windows(range)[w], Queries(keyword)[q]>>
    BY RoundFacts
  <2>2. round[1] = Windows(range)[w]
    BY <2>1
  <2>. QED BY <2>2
<1>. HIDE DEF round
<1>2. /\ range[1] <= round[1][1] /\ round[1][1] \in Nat
      /\ round[1][2] \in Int /\ round[1][2] <= range[2]
  BY <1>1, WindowFacts
<1>3. range[1] \in Nat /\ range[2] \in Nat /\ Day \in [Bids -> Nat]
  BY SearchAssumption
<1>4. \A b \in Asked(round) : b \in Bids /\ Day[b] \in round[1][1]..round[1][2]
  BY DEF Asked
<1>5. \A d \in round[1][1]..round[1][2] : d \in range[1]..range[2]
  BY <1>2, <1>3
<1>. QED BY <1>4, <1>5 DEF InRange, round

\* What can be found is asked for in some round, and has the words.
LEMMA FindableIsAsked ==
  ASSUME NEW keyword \in Keywords, NEW range \in Ranges, NEW b \in Findable(keyword, range)
  PROVE  /\ HasWords(b, keyword)
         /\ \E r \in 1..Len(Rounds(keyword, range)) : b \in Asked(Rounds(keyword, range)[r])
<1>1. b \in Bids /\ Title[b] \in Seq(Nat) /\ keyword \in Seq(Nat) /\ Day[b] \in range[1]..range[2]
  BY SearchAssumption DEF Findable
<1>2. \/ HasPhrase(b, keyword)
      \/ Len(Queries(keyword)) = 2 /\ ToSet(keyword) \subseteq ToSet(Title[b])
  BY DEF Findable
<1>3. HasPhrase(b, keyword) => ToSet(keyword) \subseteq ToSet(Title[b])
  <2>. SUFFICES ASSUME NEW i \in DOMAIN Title[b], NEW j \in DOMAIN Title[b],
                       SubSeq(Title[b], i, j) = keyword, NEW x \in ToSet(keyword)
                PROVE  x \in ToSet(Title[b])
    BY DEF HasPhrase
  <2>. DEFINE t == Title[b]
  <2>1. i \in 1..Len(t) /\ j \in 1..Len(t) /\ Len(t) \in Nat /\ t \in Seq(Nat)
    <3>1. \A s \in Seq(Nat) : Len(s) \in Nat /\ DOMAIN s = 1..Len(s)
      OBVIOUS
    <3>2. t \in Seq(Nat) /\ i \in DOMAIN t /\ j \in DOMAIN t
      BY <1>1
    <3>. HIDE DEF t
    <3>. QED BY <3>1, <3>2
  <2>2. PICK k \in 1..Len(keyword) : keyword[k] = x
    BY <1>1, Entries
  <2>. HIDE DEF t
  <2>3. SubSeq(t, i, j) = keyword
    BY DEF t
  <2>4. Len(keyword) = IF i <= j THEN j - i + 1 ELSE 0
    BY <2>1, <2>3
  <2>5. i + k - 1 \in 1..Len(t) /\ keyword[k] = t[i + k - 1]
    <3>1. i <= j /\ k \in 1..(j - i + 1)
      BY <2>1, <2>2, <2>4
    <3>2. \A h \in 1..(j - i + 1) : SubSeq(t, i, j)[h] = t[i + h - 1]
      BY <2>1, <3>1
    <3>3. i + k - 1 \in 1..Len(t)
      <4>1. PICK n \in Nat : n = Len(t)
        BY <2>1
      <4>2. i \in 1..n /\ j \in 1..n
        BY <2>1, <4>1
      <4>3. i + k - 1 \in 1..n
        BY <3>1, <4>2
      <4>. QED BY <4>1, <4>3
    <3>4. SubSeq(t, i, j)[k] = t[i + k - 1]
      BY <3>1, <3>2
    <3>. QED BY <2>3, <3>3, <3>4
  <2>6. t[i + k - 1] \in ToSet(t)
    BY <2>1, <2>5, Entries
  <2>. QED BY <2>2, <2>5, <2>6 DEF t
<1>4. HasWords(b, keyword)
  BY <1>2, <1>3 DEF HasWords
<1>5. \E q \in 1..Len(Queries(keyword)) : HasPhrase(b, Queries(keyword)[q])
  <2>1. CASE HasPhrase(b, keyword)
    <3>1. 1 \in 1..Len(Queries(keyword)) /\ Queries(keyword)[1] = keyword
      BY QueryFacts
    <3>. QED BY <2>1, <3>1
  <2>2. CASE Len(Queries(keyword)) = 2 /\ ToSet(keyword) \subseteq ToSet(Title[b])
    <3>1. PICK w \in ToSet(keyword) : Queries(keyword)[2] = <<w>>
      BY <2>2, QueryFacts
    <3>. DEFINE t == Title[b]
    <3>2. PICK i \in 1..Len(t) : t[i] = w
      BY <1>1, <2>2, Entries
    <3>3. SubSeq(t, i, i) = <<w>> /\ i \in DOMAIN t
      <4>1. t \in Seq(Nat) /\ Len(t) \in Nat /\ DOMAIN t = 1..Len(t)
        BY <1>1
      <4>. HIDE DEF t
      <4>2. SubSeq(t, i, i) \in Seq(Nat) /\ Len(SubSeq(t, i, i)) = 1 /\ SubSeq(t, i, i)[1] = w
        BY <3>2, <4>1
      <4>. DEFINE cut == SubSeq(t, i, i)
      <4>. HIDE DEF cut
      <4>3. cut = <<w>>
        BY <4>2, Single DEF cut
      <4>. QED BY <3>2, <4>1, <4>3 DEF cut
    <3>4. HasPhrase(b, <<w>>)
      BY <3>3 DEF HasPhrase
    <3>5. 2 \in 1..Len(Queries(keyword))
      BY <2>2
    <3>. QED BY <3>1, <3>4, <3>5
  <2>. QED BY <1>2, <2>1, <2>2
<1>6. PICK q \in 1..Len(Queries(keyword)) : HasPhrase(b, Queries(keyword)[q])
  BY <1>5
<1>7. PICK w \in DOMAIN Windows(range) : Day[b] \in Windows(range)[w][1]..Windows(range)[w][2]
  BY <1>1, WindowFacts
<1>8. PICK r \in 1..Len(Rounds(keyword, range)) :
        Rounds(keyword, range)[r] = <<Windows(range)[w], Queries(keyword)[q]>>
  BY RoundFacts
<1>. DEFINE round == <<Windows(range)[w], Queries(keyword)[q]>>
<1>9. round[1] = Windows(range)[w] /\ round[2] = Queries(keyword)[q]
  OBVIOUS
<1>. HIDE DEF round
<1>10. b \in Asked(round)
  BY <1>1, <1>6, <1>7, <1>9 DEF Asked
<1>. QED BY <1>4, <1>8, <1>10 DEF round

\* Deduped keeps one of each.
LEMMA DedupedFacts ==
  ASSUME NEW S, NEW s \in Seq(S)
  PROVE  /\ Deduped(s) \in Seq(S)
         /\ Distinct(Deduped(s))
         /\ ToSet(Deduped(s)) = ToSet(s)
<1>. DEFINE n == Len(s)
            places == [i \in DOMAIN s |-> i]
            new == {i \in DOMAIN s : \A j \in 1..(i - 1) : s[j] # s[i]}
            kept == Only(places, new)
            once == [k \in DOMAIN kept |-> s[kept[k]]]
<1>1. n \in Nat /\ DOMAIN s = 1..n /\ \A i \in 1..n : s[i] \in S
  OBVIOUS
<1>2. Deduped(s) = once
  BY DEF Deduped
<1>3. /\ places \in Seq(1..n) /\ Len(places) = n /\ \A i \in 1..n : places[i] = i
  BY <1>1
<1>4. Distinct(places) /\ ToSet(places) = 1..n
  <2>1. Distinct(places)
    BY <1>3 DEF Distinct
  <2>. HIDE DEF places, n
  <2>2. /\ ToSet(places) \subseteq 1..n
        /\ \A i \in 1..n : places[i] \in ToSet(places)
    BY <1>3, Entries
  <2>3. \A i \in 1..n : i \in ToSet(places)
    BY <1>3, <2>2
  <2>. QED BY <2>1, <2>2, <2>3
<1>5. new \subseteq 1..n /\ \A i \in new : \A j \in 1..(i - 1) : s[j] # s[i]
  BY <1>1
<1>6. \A i \in 1..n : \E h \in new : s[h] = s[i]
  <2>. SUFFICES ASSUME NEW i \in 1..n PROVE \E h \in new : s[h] = s[i]
    OBVIOUS
  <2>. DEFINE T == {h \in 1..n : s[h] = s[i]}
  <2>1. T \in SUBSET Nat /\ T # {}
    OBVIOUS
  <2>2. PICK h \in T : \A m \in T : h <= m
    <3>. HIDE DEF T
    <3>. QED BY <2>1, Least
  <2>3. h \in 1..n /\ s[h] = s[i] /\ \A m \in 1..n : s[m] = s[i] => h <= m
    BY <2>2
  <2>4. \A j \in 1..(h - 1) : s[j] # s[h]
    BY <1>1, <2>3
  <2>5. h \in new
    BY <1>1, <2>3, <2>4
  <2>. QED BY <2>3, <2>5
<1>. HIDE DEF new, places
<1>7. kept \in Seq(1..n) /\ ToSet(kept) = new /\ Distinct(kept)
  <2>. HIDE DEF n
  <2>1. /\ kept \in Seq(1..n) /\ ToSet(kept) = ToSet(places) \cap new
        /\ Distinct(places) => Distinct(kept)
    BY <1>3, OnlyFacts
  <2>. QED BY <1>4, <1>5, <2>1
<1>. HIDE DEF kept
<1>. DEFINE m == Len(kept)
<1>8. m \in Nat /\ DOMAIN kept = 1..m /\ \A k \in 1..m : kept[k] \in new /\ kept[k] \in 1..n
  <2>1. m \in Nat /\ DOMAIN kept = 1..m /\ \A k \in 1..m : kept[k] \in 1..n
    BY <1>7
  <2>2. \A k \in 1..m : kept[k] \in new
    BY <1>7, Entries
  <2>. QED BY <2>1, <2>2
<1>9. once \in Seq(S) /\ Len(once) = m /\ \A k \in 1..m : once[k] = s[kept[k]]
  BY <1>1, <1>8
<1>. HIDE DEF once, m
<1>10. Distinct(once)
  <2>. SUFFICES ASSUME NEW i \in 1..m, NEW j \in 1..m, s[kept[i]] = s[kept[j]]
                PROVE  i = j
    BY <1>9 DEF Distinct
  <2>. DEFINE g == kept[i]
              h == kept[j]
  <2>1. g \in new /\ h \in new /\ g \in 1..n /\ h \in 1..n
    BY <1>8
  <2>2. s[g] = s[h]
    OBVIOUS
  <2>. HIDE DEF g, h
  <2>3. ~ (g < h)
    BY <1>1, <1>5, <2>1, <2>2
  <2>4. ~ (h < g)
    BY <1>1, <1>5, <2>1, <2>2
  <2>5. g = h
    BY <1>1, <2>1, <2>3, <2>4
  <2>. QED BY <1>7, <2>5 DEF Distinct, g, h, m
<1>11. ToSet(once) = ToSet(s)
  <2>1. ASSUME NEW x \in ToSet(once) PROVE x \in ToSet(s)
    <3>1. PICK k \in 1..m : once[k] = x
      BY <1>9, Entries
    <3>2. kept[k] \in 1..Len(s) /\ s[kept[k]] = x
      BY <1>8, <1>9, <3>1 DEF n
    <3>. QED BY <3>2, Entries
  <2>2. ASSUME NEW x \in ToSet(s) PROVE x \in ToSet(once)
    <3>1. PICK i \in 1..n : s[i] = x
      BY Entries
    <3>2. PICK h \in new : s[h] = x
      BY <1>6, <3>1
    <3>3. PICK k \in 1..m : kept[k] = h
      BY <1>7, <3>2, Entries DEF m
    <3>4. once[k] = x
      BY <1>9, <3>2, <3>3
    <3>. QED BY <1>9, <3>4, Entries
  <2>. QED BY <2>1, <2>2
<1>. QED BY <1>2, <1>9, <1>10, <1>11

-----------------------------------------------------------------------------
(* Listings and pages while G2B publishes. *)

\* The next page.
LEMMA PagedOn ==
  ASSUME NEW m \in Seq(Bids), NEW page \in Nat \ {0}, NEW always, NEW got,
         PagedTo(m, page, always, got)
  PROVE  LET cut == PageOf(m, PageSize, page)
         IN  PagedTo(m, IF Len(cut) < PageSize THEN 0 ELSE page + 1, always, got \cup ToSet(cut))
<1>. DEFINE cut == PageOf(m, PageSize, page)
            next == IF Len(cut) < PageSize THEN 0 ELSE page + 1
            before == (page - 1) * PageSize
            after == page * PageSize
<1>1. PageSize \in Nat \ {0}
  BY SearchAssumption
<1>2. /\ before \in Nat /\ after = before + PageSize
      /\ \A i \in 1..Len(m) : i > before /\ (i <= after \/ Len(cut) < PageSize)
                              => m[i] \in ToSet(cut)
  BY <1>1, PageCovers, PageFacts
<1>3. (page + 1) - 1 = page
  OBVIOUS
<1>4. \A i \in 1..Len(m) : m[i] \in always /\ i <= before => m[i] \in got
  BY DEF PagedTo
<1>5. next = 0 => Len(cut) < PageSize
  OBVIOUS
<1>6. next # 0 => (next - 1) * PageSize = after
  BY <1>3
<1>. HIDE DEF cut, before, after, next
<1>7. ASSUME NEW i \in 1..Len(m), m[i] \in always, next = 0 \/ i <= (next - 1) * PageSize
      PROVE  m[i] \in got \cup ToSet(cut)
  <2>1. i <= before \/ i > before
    BY <1>2
  <2>. QED BY <1>2, <1>4, <1>5, <1>6, <1>7, <2>1
<1>8. PagedTo(m, next, always, got \cup ToSet(cut))
  BY <1>7 DEF PagedTo
<1>. QED BY <1>8 DEF next, cut

\* An entry published at the front.
LEMMA PagedPrepend ==
  ASSUME NEW m \in Seq(Bids), NEW page \in Nat, NEW always, NEW got, NEW b \in Bids,
         b \notin always, PagedTo(m, page, always, got)
  PROVE  PagedTo(<<b>> \o m, page, always, got)
<1>. DEFINE t == <<b>> \o m
            n == Len(m)
            bound == (page - 1) * PageSize
<1>1. n \in Nat /\ Len(t) = n + 1 /\ t[1] = b /\ \A i \in 1..n : t[i + 1] = m[i]
  OBVIOUS
<1>2. page # 0 => bound \in Nat
  BY SearchAssumption, Products
<1>3. \A i \in 1..n : m[i] \in always /\ (page = 0 \/ i <= bound) => m[i] \in got
  BY DEF PagedTo
<1>. HIDE DEF t, n, bound
<1>4. ASSUME NEW i \in 1..Len(t), t[i] \in always, page = 0 \/ i <= bound
      PROVE  t[i] \in got
  <2>1. i # 1
    BY <1>1, <1>4
  <2>2. i - 1 \in 1..n /\ (i - 1) + 1 = i
    BY <1>1, <2>1
  <2>3. t[i] = m[i - 1]
    BY <1>1, <2>2
  <2>4. page = 0 \/ i - 1 <= bound
    BY <1>2, <1>4
  <2>. QED BY <1>3, <1>4, <2>2, <2>3, <2>4
<1>. QED BY <1>4 DEF PagedTo, t, bound

\* An entry published at the end.
LEMMA PagedAppend ==
  ASSUME NEW m \in Seq(Bids), NEW page \in Nat, NEW always, NEW got, NEW b \in Bids,
         b \notin always, PagedTo(m, page, always, got)
  PROVE  PagedTo(Append(m, b), page, always, got)
<1>. DEFINE t == Append(m, b)
            n == Len(m)
            bound == (page - 1) * PageSize
<1>1. n \in Nat /\ Len(t) = n + 1 /\ t[n + 1] = b /\ \A i \in 1..n : t[i] = m[i]
  OBVIOUS
<1>2. \A i \in 1..n : m[i] \in always /\ (page = 0 \/ i <= bound) => m[i] \in got
  BY DEF PagedTo
<1>. HIDE DEF t, n, bound
<1>3. ASSUME NEW i \in 1..Len(t), t[i] \in always, page = 0 \/ i <= bound
      PROVE  t[i] \in got
  <2>1. i \in 1..n
    BY <1>1, <1>3
  <2>. QED BY <1>1, <1>2, <1>3, <2>1
<1>. QED BY <1>3 DEF PagedTo, t, bound

\* The first page.
LEMMA PagedAtOne ==
  ASSUME NEW m \in Seq(Bids), NEW always, NEW got
  PROVE  PagedTo(m, 1, always, got)
<1>1. (1 - 1) * PageSize = 0
  BY SearchAssumption
<1>2. \A i \in 1..Len(m) : ~ (i <= 0)
  OBVIOUS
<1>. QED BY <1>1, <1>2 DEF PagedTo

\* What an endpoint lists for a round is listed and asked for.
LEMMA MatchingFacts ==
  ASSUME Typed, NEW s, NEW e \in 1..Endpoints
  PROVE  /\ Matching(s, e) \in Seq(Bids)
         /\ ToSet(Matching(s, e)) =
              ToSet(listed[e]) \cap Asked(Rounds(s.keyword, s.range)[s.round])
         /\ ToSet(listed[e]) \subseteq AllListed
<1>1. listed[e] \in Seq(Bids)
  BY DEF Typed
<1>2. /\ Matching(s, e) \in Seq(Bids)
      /\ ToSet(Matching(s, e)) =
           ToSet(listed[e]) \cap Asked(Rounds(s.keyword, s.range)[s.round])
  BY <1>1, OnlyFacts DEF Matching
<1>. QED BY <1>2 DEF AllListed

\* Every bid that is listed is on the list of some endpoint.
LEMMA AllListedFacts ==
  ASSUME Typed
  PROVE  /\ AllListed \subseteq Bids
         /\ \A b \in AllListed : \E e \in 1..Endpoints : b \in ToSet(listed[e])
<1>1. \A e \in 1..Endpoints : listed[e] \in Seq(Bids)
  BY DEF Typed
<1>2. \A e \in 1..Endpoints : ToSet(listed[e]) \subseteq Bids
  BY <1>1, Entries
<1>. QED BY <1>2 DEF AllListed

-----------------------------------------------------------------------------
(* The invariant holds at first and after every step. *)

\* The records have different fields.
LEMMA NothingThere ==
  /\ \A s \in SearchType : s # NoSearch
  /\ \A a \in AnswerType : a # NoAnswer
<1>1. ASSUME NEW s \in SearchType PROVE s # NoSearch
  <2>1. s.round \in Nat \ {0}
    BY DEF SearchType
  <2>. QED BY <2>1 DEF NoSearch
<1>2. ASSUME NEW a \in AnswerType PROVE a # NoAnswer
  <2>1. "found" \in DOMAIN a
    BY DEF AnswerType
  <2>2. "found" \notin DOMAIN NoAnswer
    BY DEF NoAnswer
  <2>. QED BY <2>1, <2>2
<1>. QED BY <1>1, <1>2

\* A search that runs has this type, and an answer this one.
LEMMA Shapes ==
  ASSUME Typed
  PROVE  /\ search # NoSearch <=> search \in SearchType
         /\ shown # NoAnswer <=> shown \in AnswerType
BY NothingThere DEF Typed

\* Nothing is searched at first.
LEMMA SearchStarts == SearchInit => SearchInv
<1>. SUFFICES ASSUME SearchInit PROVE SearchInv
  OBVIOUS
<1>1. Typed
  BY SearchAssumption DEF SearchInit, Typed
<1>. QED BY <1>1 DEF SearchInit, SearchInv

\* A search that starts is in its first round and has asked for no page.
LEMMA StartSearchStep ==
  ASSUME SearchInv, NEW keyword \in Keywords, NEW range \in Ranges, StartSearch(keyword, range)
  PROVE  SearchInv'
<1>1. /\ search' = [round |-> 1, keyword |-> keyword, range |-> range, page |-> AtPageOne,
                    got |-> NoBids, items |-> <<>>, always |-> AllListed,
                    calm |-> AllListed \cap Nameless = {}]
      /\ shown' = NoAnswer /\ listed' = listed
  BY DEF StartSearch
<1>2. Typed /\ AllListed \subseteq Bids
  BY AllListedFacts DEF SearchInv
<1>3. AtPageOne \in [1..Endpoints -> Nat] /\ \A e \in 1..Endpoints : AtPageOne[e] = 1
  BY DEF AtPageOne
<1>4. NoBids \in [1..Endpoints -> Seq(Bids)] /\ \A e \in 1..Endpoints : NoBids[e] = <<>>
  BY DEF NoBids
<1>5. search' \in SearchType
  <2>1. <<>> \in Seq(Bids) /\ (AllListed \cap Nameless = {}) \in BOOLEAN
    OBVIOUS
  <2>. QED BY <1>1, <1>2, <1>3, <1>4, <2>1 DEF SearchType
<1>6. Typed'
  BY <1>1, <1>2, <1>5 DEF Typed
<1>7. /\ search'.round = 1 /\ search'.keyword = keyword /\ search'.range = range
      /\ search'.page = AtPageOne /\ search'.got = NoBids /\ search'.items = <<>>
      /\ search'.always = AllListed /\ search'.calm = (AllListed \cap Nameless = {})
  BY <1>1
<1>8. AllListed' = AllListed
  BY <1>1 DEF AllListed
<1>9. 1 <= Len(Rounds(keyword, range))
  <2>1. range[1] \in range[1]..range[2]
    BY SearchAssumption
  <2>2. PICK w \in DOMAIN Windows(range) : range[1] \in Windows(range)[w][1]..Windows(range)[w][2]
    BY <2>1, WindowFacts
  <2>3. 1 \in 1..Len(Queries(keyword))
    BY QueryFacts
  <2>4. Len(Rounds(keyword, range)) \in Nat /\ \E r \in 1..Len(Rounds(keyword, range)) : TRUE
    BY <2>3, RoundFacts
  <2>. QED BY <2>4
<1>10. Inside(search')
  <2>1. ToSet(<<>>) = {}
    BY DEF ToSet
  <2>. QED BY <1>4, <1>7, <2>1 DEF Inside
<1>11. Covered(search)'
  <2>1. ASSUME NEW e \in 1..Endpoints PROVE Paged(search, e)'
    <3>1. Matching(search, e)' \in Seq(Bids)
      <4>1. listed'[e] \in Seq(Bids)
        BY <1>6 DEF Typed
      <4>. QED BY <4>1, OnlyFacts DEF Matching
    <3>2. search'.page[e] = 1
      BY <1>3, <1>7
    <3>. QED BY <3>1, <3>2, PagedAtOne DEF Paged
  <2>2. \A k \in 1..(search'.round - 1) : FALSE
    BY <1>7
  <2>. QED BY <1>7, <1>8, <2>1, <2>2 DEF Covered
<1>12. Searching(search)'
  BY <1>7, <1>9, <1>10, <1>11 DEF Searching
<1>. QED BY <1>1, <1>6, <1>12 DEF SearchInv

\* A search with the pages of one endpoint changed.
With(s, e, got, page) == [s EXCEPT !.got[e] = got, !.page[e] = page]

\* Nothing else of it changes.
LEMMA Updated ==
  ASSUME NEW s \in SearchType, NEW e \in 1..Endpoints, NEW got \in Seq(Bids), NEW page \in Nat
  PROVE  LET t == With(s, e, got, page)
         IN  /\ t \in SearchType
             /\ t.round = s.round /\ t.keyword = s.keyword /\ t.range = s.range
             /\ t.items = s.items /\ t.always = s.always /\ t.calm = s.calm
             /\ t.got = [s.got EXCEPT ![e] = got] /\ t.page = [s.page EXCEPT ![e] = page]
<1>. DEFINE gots == [s.got EXCEPT ![e] = got]
            pages == [s.page EXCEPT ![e] = page]
            t == With(s, e, got, page)
<1>1. t = [s EXCEPT !.got = gots, !.page = pages]
  BY DEF SearchType, With
<1>2. gots \in [1..Endpoints -> Seq(Bids)] /\ pages \in [1..Endpoints -> Nat]
  BY DEF SearchType
<1>. HIDE DEF gots, pages, t
<1>3. t \in SearchType
  BY <1>1, <1>2 DEF SearchType
<1>4. /\ t.round = s.round /\ t.keyword = s.keyword /\ t.range = s.range
      /\ t.items = s.items /\ t.always = s.always /\ t.calm = s.calm
      /\ t.got = gots /\ t.page = pages
  BY <1>1 DEF SearchType
<1>. QED BY <1>3, <1>4 DEF t, gots, pages

\* A page holds only what was asked for; in a calm search it has all that the
\* endpoint lists at its place, and is short only if it is the last.
LEMMA FetchPageStep ==
  ASSUME SearchInv, NEW e \in 1..Endpoints, FetchPage(e)
  PROVE  SearchInv'
<1>. DEFINE m == Matching(search, e)
            page == search.page[e]
            cut == PageOf(m, PageSize, page)
            batch == Parsed(cut)
            got == search.got[e] \o batch
            next == IF Len(batch) < PageSize THEN 0 ELSE page + 1
            asked == Asked(ThisRound)
<1>1. Typed /\ Searching(search) /\ search \in SearchType /\ page # 0
  BY Shapes DEF SearchInv, FetchPage
<1>2. /\ m \in Seq(Bids) /\ ToSet(m) = ToSet(listed[e]) \cap asked
      /\ ToSet(listed[e]) \subseteq AllListed
  BY <1>1, MatchingFacts DEF ThisRound
<1>3. /\ page \in Nat \ {0} /\ search.got[e] \in Seq(Bids) /\ search.round \in Nat \ {0}
      /\ search.keyword \in Keywords /\ search.range \in Ranges
  BY <1>1 DEF SearchType
<1>4. cut \in Seq(Bids) /\ ToSet(cut) \subseteq ToSet(m)
  <2>. HIDE DEF m, page
  <2>. QED BY <1>2, <1>3, SearchAssumption, PageCovers
<1>5. batch \in Seq(Bids) /\ ToSet(batch) \subseteq ToSet(cut)
  <2>. HIDE DEF cut
  <2>. QED BY <1>4, OnlyFacts DEF Parsed
<1>6. search.calm => batch = cut
  <2>1. search.calm => ToSet(cut) \subseteq Bids \ Nameless
    <3>. HIDE DEF cut, m
    <3>1. search.calm => AllListed \cap Nameless = {}
      BY <1>1 DEF Searching, Covered
    <3>2. ToSet(cut) \subseteq Bids
      BY <1>4, Entries
    <3>. QED BY <1>2, <1>4, <3>1, <3>2
  <2>. HIDE DEF cut
  <2>. QED BY <1>4, <2>1, OnlyAll DEF Parsed
<1>7. search' = With(search, e, got, next)
  BY DEF FetchPage, Page, Matching, ThisRound, With
<1>8. listed' = listed /\ shown' = shown
  BY DEF FetchPage
<1>. HIDE DEF m, page, cut, batch
<1>9. got \in Seq(Bids) /\ ToSet(got) = ToSet(search.got[e]) \cup ToSet(batch) /\ next \in Nat
  BY <1>3, <1>5, Joined
<1>. HIDE DEF got, next
<1>10. /\ search' \in SearchType
       /\ search'.round = search.round /\ search'.keyword = search.keyword
       /\ search'.range = search.range /\ search'.items = search.items
       /\ search'.always = search.always /\ search'.calm = search.calm
       /\ search'.got = [search.got EXCEPT ![e] = got]
       /\ search'.page = [search.page EXCEPT ![e] = next]
  BY <1>1, <1>7, <1>9, Updated
<1>11. \A h \in 1..Endpoints : /\ search'.got[h] = IF h = e THEN got ELSE search.got[h]
                               /\ search'.page[h] = IF h = e THEN next ELSE search.page[h]
  BY <1>1, <1>10 DEF SearchType
<1>12. Typed' /\ AllListed' = AllListed
  BY <1>1, <1>8, <1>10 DEF Typed, AllListed
<1>13. asked \subseteq InRange(search.range)
  <2>1. search.round \in 1..Len(Rounds(search.keyword, search.range))
    <3>1. Len(Rounds(search.keyword, search.range)) \in Nat
      BY <1>3, RoundFacts
    <3>. QED BY <1>1, <1>3, <3>1 DEF Searching
  <2>. QED BY <1>3, <2>1, AskedInRange DEF ThisRound
<1>. HIDE DEF asked
<1>14. Inside(search)'
  <2>1. ToSet(got) \subseteq InRange(search.range)
    <3>1. ToSet(search.got[e]) \subseteq InRange(search.range)
      BY <1>1 DEF Searching, Inside
    <3>. QED BY <1>2, <1>4, <1>5, <1>9, <1>13, <3>1
  <2>. QED BY <1>1, <1>10, <1>11, <2>1 DEF Searching, Inside
<1>15. Covered(search)'
  <2>. SUFFICES ASSUME search.calm PROVE Covered(search)'
    BY <1>10 DEF Covered
  <2>1. ASSUME NEW h \in 1..Endpoints PROVE Paged(search, h)'
    <3>1. Paged(search, h)
      BY <1>1 DEF Searching, Covered
    <3>2. Matching(search, h)' = Matching(search, h)
      BY <1>8, <1>10 DEF Matching
    <3>3. CASE h = e
      <4>1. PagedTo(m, page, search.always, ToSet(search.got[e]))
        BY <3>1, <3>3 DEF Paged, m, page
      <4>2. PagedTo(m, IF Len(cut) < PageSize THEN 0 ELSE page + 1, search.always,
                    ToSet(search.got[e]) \cup ToSet(cut))
        BY <1>2, <1>3, <4>1, PagedOn DEF cut
      <4>3. PagedTo(m, next, search.always, ToSet(got))
        BY <1>6, <1>9, <4>2 DEF next
      <4>. QED BY <1>10, <1>11, <3>2, <3>3, <4>3 DEF Paged, m
    <3>4. CASE h # e
      BY <1>10, <1>11, <3>1, <3>2, <3>4 DEF Paged
    <3>. QED BY <3>3, <3>4
  <2>. QED BY <1>1, <1>10, <1>12, <2>1 DEF Searching, Covered
<1>16. Searching(search)'
  BY <1>1, <1>10, <1>14, <1>15 DEF Searching
<1>. QED BY <1>8, <1>12, <1>16 DEF SearchInv, Exact

\* A search that is no longer calm promises only what it has collected.
LEMMA NotCalm ==
  ASSUME SearchInv, search # NoSearch,
         NEW pages \in [1..Endpoints -> Nat], listed' \in [1..Endpoints -> Seq(Bids)],
         search' = [search EXCEPT !.page = pages, !.calm = FALSE], shown' = shown
  PROVE  SearchInv'
<1>1. Typed /\ search \in SearchType /\ Searching(search)
  BY Shapes DEF SearchInv
<1>2. search' \in SearchType
  BY <1>1 DEF SearchType
<1>3. /\ search'.round = search.round /\ search'.keyword = search.keyword
      /\ search'.range = search.range /\ search'.items = search.items
      /\ search'.got = search.got /\ search'.calm = FALSE
  BY <1>1 DEF SearchType
<1>4. Typed'
  BY <1>1, <1>2 DEF Typed
<1>5. Searching(search)'
  BY <1>1, <1>3 DEF Searching, Inside, Covered
<1>. QED BY <1>4, <1>5 DEF SearchInv, Exact

\* A body without items ends the pages, and the search is not calm.
LEMMA ErrorBodyStep ==
  ASSUME SearchInv, NEW e \in 1..Endpoints, ErrorBody(e)
  PROVE  SearchInv'
<1>. DEFINE pages == [search.page EXCEPT ![e] = 0]
<1>1. search # NoSearch /\ search \in SearchType /\ Typed
  BY Shapes DEF SearchInv, ErrorBody
<1>2. pages \in [1..Endpoints -> Nat]
  BY <1>1 DEF SearchType
<1>3. /\ search' = [search EXCEPT !.page = pages, !.calm = FALSE]
      /\ shown' = shown /\ listed' \in [1..Endpoints -> Seq(Bids)]
  BY <1>1 DEF ErrorBody, Typed, SearchType
<1>. HIDE DEF pages
<1>. QED BY <1>1, <1>2, <1>3, NotCalm

\* The search is given up.
LEMMA FetchFailsStep == ASSUME SearchInv, FetchFails PROVE SearchInv'
BY DEF SearchInv, FetchFails, Typed, Exact

\* Nobody looks at the answer any more.
LEMMA DismissStep == ASSUME SearchInv, Dismiss PROVE SearchInv'
<1>1. search' = search /\ listed' = listed /\ shown' = NoAnswer
  BY DEF Dismiss
<1>2. Typed'
  BY <1>1 DEF SearchInv, Typed
<1>3. search # NoSearch => Searching(search)'
  BY <1>1 DEF SearchInv, Searching, Inside, Covered, Paged, Matching, AllListed
<1>. QED BY <1>1, <1>2, <1>3 DEF SearchInv

\* When a round is over, its items are there too.
LEMMA RoundCollected ==
  ASSUME SearchInv, RoundDone
  PROVE  /\ Items \in Seq(Bids)
         /\ ToSet(Items) \subseteq InRange(search.range)
         /\ search.calm => \A k \in 1..search.round :
              search.always \cap Asked(Rounds(search.keyword, search.range)[k])
                \subseteq ToSet(Items)
<1>. DEFINE got == search.got
            all == FlattenSeq(got)
            asked(k) == Asked(Rounds(search.keyword, search.range)[k])
<1>1. Typed /\ search \in SearchType /\ Searching(search)
  BY Shapes DEF SearchInv, RoundDone
<1>2. \A e \in 1..Endpoints : search.page[e] = 0
  BY DEF RoundDone
<1>3. /\ got \in [1..Endpoints -> Seq(Bids)] /\ search.items \in Seq(Bids)
      /\ search.round \in Nat \ {0}
  BY <1>1 DEF SearchType
<1>. HIDE DEF got
<1>4. got \in Seq(Seq(Bids)) /\ Len(got) = Endpoints
  BY <1>3, SearchAssumption
<1>5. /\ all \in Seq(Bids)
      /\ ToSet(all) = {b \in Bids : \E e \in 1..Endpoints : b \in ToSet(got[e])}
  BY <1>4, FlattenFacts
<1>. HIDE DEF all
<1>6. Items \in Seq(Bids) /\ ToSet(Items) = ToSet(search.items) \cup ToSet(all)
  BY <1>3, <1>5, Joined DEF Items, all, got
<1>7. ToSet(Items) \subseteq InRange(search.range)
  <2>1. /\ ToSet(search.items) \subseteq InRange(search.range)
        /\ \A e \in 1..Endpoints : ToSet(got[e]) \subseteq InRange(search.range)
    BY <1>1 DEF Searching, Inside, got
  <2>. QED BY <1>5, <1>6, <2>1
<1>8. ASSUME search.calm, NEW k \in 1..search.round, NEW b \in search.always \cap asked(k)
      PROVE  b \in ToSet(Items)
  <2>1. CASE k # search.round
    <3>1. k \in 1..(search.round - 1)
      BY <1>3, <2>1
    <3>2. search.always \cap asked(k) \subseteq ToSet(search.items)
      BY <1>1, <1>8, <3>1 DEF Searching, Covered
    <3>. QED BY <1>6, <1>8, <3>2
  <2>2. CASE k = search.round
    <3>1. b \in AllListed /\ b \in search.always /\ \A e \in 1..Endpoints : Paged(search, e)
      BY <1>1, <1>8 DEF Searching, Covered
    <3>2. PICK e \in 1..Endpoints : b \in ToSet(listed[e])
      BY <1>1, <3>1, AllListedFacts
    <3>. DEFINE m == Matching(search, e)
    <3>3. m \in Seq(Bids) /\ ToSet(m) = ToSet(listed[e]) \cap asked(k)
      BY <1>1, <2>2, MatchingFacts
    <3>4. PagedTo(m, 0, search.always, ToSet(got[e]))
      BY <1>2, <3>1 DEF Paged, got
    <3>. HIDE DEF m
    <3>5. b \in ToSet(m)
      BY <1>8, <3>2, <3>3
    <3>6. PICK i \in 1..Len(m) : m[i] = b
      BY <3>3, <3>5, Entries
    <3>7. b \in ToSet(got[e])
      BY <3>1, <3>4, <3>6 DEF PagedTo
    <3>8. b \in Bids
      BY <3>3, <3>6
    <3>. QED BY <1>5, <1>6, <3>7, <3>8
  <2>. QED BY <2>1, <2>2
<1>. QED BY <1>6, <1>7, <1>8

\* The next round starts at its first page.
LEMMA NextRoundStep == ASSUME SearchInv, NextRound PROVE SearchInv'
<1>1. Typed /\ search \in SearchType /\ Searching(search)
  BY Shapes DEF SearchInv, NextRound, RoundDone
<1>2. /\ Items \in Seq(Bids)
      /\ ToSet(Items) \subseteq InRange(search.range)
      /\ search.calm => \A k \in 1..search.round :
           search.always \cap Asked(Rounds(search.keyword, search.range)[k]) \subseteq ToSet(Items)
  BY RoundCollected DEF NextRound
<1>3. /\ search' = [search EXCEPT !.round = @ + 1, !.page = AtPageOne, !.got = NoBids,
                                  !.items = Items]
      /\ listed' = listed /\ shown' = shown
  BY DEF NextRound
<1>4. AtPageOne \in [1..Endpoints -> Nat] /\ \A e \in 1..Endpoints : AtPageOne[e] = 1
  BY DEF AtPageOne
<1>5. NoBids \in [1..Endpoints -> Seq(Bids)] /\ \A e \in 1..Endpoints : NoBids[e] = <<>>
  BY DEF NoBids
<1>6. search.round \in Nat /\ Len(Rounds(search.keyword, search.range)) \in Nat
  BY <1>1, RoundFacts DEF SearchType
<1>7. search.round + 1 <= Len(Rounds(search.keyword, search.range))
  BY <1>6 DEF NextRound
<1>8. /\ search' \in SearchType
      /\ search'.round = search.round + 1 /\ search'.keyword = search.keyword
      /\ search'.range = search.range /\ search'.items = Items
      /\ search'.always = search.always /\ search'.calm = search.calm
      /\ search'.got = NoBids /\ search'.page = AtPageOne
  <2>1. search.round + 1 \in Nat \ {0}
    BY <1>6
  <2>. DEFINE next == search.round + 1
  <2>2. search' = [search EXCEPT !.round = next, !.page = AtPageOne, !.got = NoBids,
                                 !.items = Items]
    BY <1>3
  <2>. HIDE DEF next
  <2>3. search' \in SearchType
    BY <1>1, <1>2, <1>4, <1>5, <2>1, <2>2 DEF SearchType, next
  <2>4. /\ search'.round = next /\ search'.keyword = search.keyword
        /\ search'.range = search.range /\ search'.items = Items
        /\ search'.always = search.always /\ search'.calm = search.calm
        /\ search'.got = NoBids /\ search'.page = AtPageOne
    BY <1>1, <2>2 DEF SearchType
  <2>. QED BY <2>3, <2>4 DEF next
<1>9. Typed' /\ AllListed' = AllListed
  BY <1>1, <1>3, <1>8 DEF Typed, AllListed
<1>10. Inside(search)'
  <2>1. ToSet(<<>>) = {}
    BY DEF ToSet
  <2>. QED BY <1>2, <1>5, <1>8, <2>1 DEF Inside
<1>11. Covered(search)'
  <2>. SUFFICES ASSUME search.calm PROVE Covered(search)'
    BY <1>8 DEF Covered
  <2>1. ASSUME NEW e \in 1..Endpoints PROVE Paged(search, e)'
    <3>1. Matching(search, e)' \in Seq(Bids)
      <4>1. listed'[e] \in Seq(Bids)
        BY <1>9 DEF Typed
      <4>. QED BY <4>1, OnlyFacts DEF Matching
    <3>2. search'.page[e] = 1
      BY <1>4, <1>8
    <3>. QED BY <3>1, <3>2, PagedAtOne DEF Paged
  <2>2. search.always \subseteq AllListed /\ AllListed \cap Nameless = {}
    BY <1>1 DEF Searching, Covered
  <2>3. \A k \in 1..(search'.round - 1) : k \in 1..search.round
    BY <1>6, <1>8
  <2>4. \A k \in 1..(search'.round - 1) :
          search.always \cap Asked(Rounds(search.keyword, search.range)[k]) \subseteq ToSet(Items)
    BY <1>2, <2>3
  <2>. QED BY <1>8, <1>9, <2>1, <2>2, <2>4 DEF Covered
<1>12. Searching(search)'
  BY <1>7, <1>8, <1>10, <1>11 DEF Searching
<1>. QED BY <1>3, <1>9, <1>12 DEF SearchInv, Exact

\* In the last round every query has been asked in every window, so what could
\* be found has been; the words are checked and doubles dropped.
LEMMA AnswerStep == ASSUME SearchInv, Answer PROVE SearchInv'
<1>. DEFINE keyword == search.keyword
            range == search.range
            fits == {b \in Bids : HasWords(b, keyword)}
            found == Only(Deduped(Items), fits)
<1>1. Typed /\ search \in SearchType /\ Searching(search)
  BY Shapes DEF SearchInv, Answer, RoundDone
<1>2. /\ Items \in Seq(Bids)
      /\ ToSet(Items) \subseteq InRange(range)
      /\ search.calm => \A k \in 1..search.round :
           search.always \cap Asked(Rounds(keyword, range)[k]) \subseteq ToSet(Items)
  BY RoundCollected DEF Answer
<1>3. /\ keyword \in Keywords /\ range \in Ranges /\ search.always \subseteq Bids
      /\ search.calm \in BOOLEAN
  BY <1>1 DEF SearchType
<1>4. /\ shown' = [keyword |-> keyword, range |-> range, found |-> found,
                   always |-> search.always, calm |-> search.calm]
      /\ search' = NoSearch /\ listed' = listed /\ search.round = Len(Rounds(keyword, range))
  BY DEF Answer
<1>. HIDE DEF keyword, range
<1>5. found \in Seq(Bids) /\ Distinct(found) /\ ToSet(found) = ToSet(Items) \cap fits
  <2>1. /\ Deduped(Items) \in Seq(Bids) /\ Distinct(Deduped(Items))
        /\ ToSet(Deduped(Items)) = ToSet(Items)
    BY <1>2, DedupedFacts
  <2>. HIDE DEF fits
  <2>. QED BY <2>1, OnlyFacts
<1>. HIDE DEF found
<1>6. shown' \in AnswerType
  BY <1>3, <1>4, <1>5 DEF AnswerType
<1>7. Typed'
  BY <1>1, <1>4, <1>6 DEF Typed
<1>8. /\ shown'.keyword = keyword /\ shown'.range = range /\ shown'.found = found
      /\ shown'.always = search.always /\ shown'.calm = search.calm
  BY <1>4
<1>9. ASSUME search.calm, NEW b \in search.always \cap Findable(keyword, range)
      PROVE  b \in ToSet(found)
  <2>1. b \in Bids
    BY <1>3, <1>9
  <2>2. PICK r \in 1..Len(Rounds(keyword, range)) : b \in Asked(Rounds(keyword, range)[r])
    BY <1>3, <1>9, FindableIsAsked
  <2>3. b \in ToSet(Items)
    BY <1>2, <1>4, <1>9, <2>2
  <2>4. HasWords(b, keyword)
    BY <1>3, <1>9, FindableIsAsked
  <2>. QED BY <1>5, <2>1, <2>3, <2>4
<1>10. ToSet(found) \subseteq {b \in InRange(range) : HasWords(b, keyword)}
  BY <1>2, <1>5
<1>11. Exact(shown)'
  BY <1>5, <1>8, <1>9, <1>10 DEF Exact
<1>. QED BY <1>4, <1>7, <1>11 DEF SearchInv

\* What is published at either end of a list was not there from the start, and
\* takes none of the others from the pages still to be fetched.
LEMMA PublishStep ==
  ASSUME SearchInv, NEW b \in Bids, Publish(b)
  PROVE  SearchInv'
<1>. DEFINE h == Endpoint[b]
<1>1. Typed /\ h \in 1..Endpoints /\ b \notin AllListed /\ shown' = shown
  BY SearchAssumption DEF SearchInv, Publish
<1>2. listed[h] \in Seq(Bids)
  BY <1>1 DEF Typed
<1>3. PICK new \in {<<b>> \o listed[h], Append(listed[h], b)} : listed' = [listed EXCEPT ![h] = new]
  BY DEF Publish
<1>4. search' = IF search # NoSearch /\ b \in Nameless THEN [search EXCEPT !.calm = FALSE]
                ELSE search
  BY DEF Publish
<1>. HIDE DEF h
<1>5. new \in Seq(Bids) /\ ToSet(new) = ToSet(listed[h]) \cup {b}
  <2>1. CASE new = <<b>> \o listed[h]
    <3>. DEFINE front == <<b>>
    <3>1. front \in Seq(Bids) /\ ToSet(front) = {b}
      BY DEF ToSet
    <3>2. new = front \o listed[h]
      BY <2>1
    <3>. HIDE DEF front
    <3>3. ToSet(front \o listed[h]) = ToSet(front) \cup ToSet(listed[h])
      BY <1>2, <3>1, Joined
    <3>4. front \o listed[h] \in Seq(Bids)
      BY <1>2, <3>1, Joined
    <3>. QED BY <3>1, <3>2, <3>3, <3>4
  <2>2. CASE new = Append(listed[h], b)
    BY <1>2, <2>2, OneMore
  <2>. QED BY <1>3, <2>1, <2>2
<1>6. /\ listed' \in [1..Endpoints -> Seq(Bids)]
      /\ \A e \in 1..Endpoints : listed'[e] = IF e = h THEN new ELSE listed[e]
  BY <1>1, <1>3, <1>5 DEF Typed
<1>7. CASE search # NoSearch /\ b \in Nameless
  <2>1. search \in SearchType
    BY <1>1, <1>7, Shapes
  <2>2. search.page \in [1..Endpoints -> Nat]
    BY <2>1 DEF SearchType
  <2>3. search' = [search EXCEPT !.page = search.page, !.calm = FALSE]
    BY <1>4, <1>7, <2>1 DEF SearchType
  <2>. QED BY <1>1, <1>6, <1>7, <2>2, <2>3, NotCalm
<1>8. CASE ~ (search # NoSearch /\ b \in Nameless)
  <2>1. search' = search /\ Typed'
    BY <1>1, <1>4, <1>6, <1>8 DEF Typed
  <2>2. AllListed' = AllListed \cup {b}
    <3>1. \A e \in 1..Endpoints : ToSet(listed'[e]) = IF e = h THEN ToSet(listed[e]) \cup {b}
                                                      ELSE ToSet(listed[e])
      BY <1>5, <1>6
    <3>. QED BY <1>1, <3>1 DEF AllListed
  <2>3. ASSUME search # NoSearch, search.calm PROVE Covered(search)'
    <3>1. search \in SearchType /\ b \notin Nameless
      BY <1>1, <1>8, <2>3, Shapes
    <3>2. /\ search.always \subseteq AllListed /\ AllListed \cap Nameless = {}
          /\ \A k \in 1..(search.round - 1) :
               search.always \cap Asked(Rounds(search.keyword, search.range)[k])
                 \subseteq ToSet(search.items)
          /\ \A e \in 1..Endpoints : Paged(search, e)
      BY <2>3 DEF SearchInv, Searching, Covered
    <3>3. ASSUME NEW e \in 1..Endpoints PROVE Paged(search, e)'
      <4>. DEFINE m == Matching(search, e)
                  asked == Asked(Rounds(search.keyword, search.range)[search.round])
                  page == search.page[e]
                  got == ToSet(search.got[e])
      <4>1. PagedTo(m, page, search.always, got)
        BY <3>2 DEF Paged
      <4>2. Matching(search, e)' = Only(listed'[e], asked)
        BY <2>1 DEF Matching
      <4>3. m = Only(listed[e], asked) /\ m \in Seq(Bids) /\ page \in Nat
        BY <1>1, <3>1, MatchingFacts DEF Matching, SearchType
      <4>. HIDE DEF m, asked, page, got
      <4>4. PagedTo(Only(listed'[e], asked), page, search.always, got)
        <5>1. CASE e # h
          BY <1>6, <4>1, <4>3, <5>1
        <5>2. CASE e = h /\ new = <<b>> \o listed[h]
          <6>1. Only(new, asked) = IF b \in asked THEN <<b>> \o m ELSE m
            <7>1. Only(<<b>> \o listed[h], asked) =
                    IF b \in asked THEN <<b>> \o Only(listed[h], asked) ELSE Only(listed[h], asked)
              BY <1>2, OnlyPrepend
            <7>2. Only(listed[h], asked) = m
              BY <4>3, <5>2
            <7>3. Only(new, asked) = Only(<<b>> \o listed[h], asked)
              BY <5>2
            <7>. QED BY <7>1, <7>2, <7>3, Zenon
          <6>2. PagedTo(<<b>> \o m, page, search.always, got)
            BY <1>1, <3>2, <4>1, <4>3, PagedPrepend
          <6>. QED BY <1>6, <4>1, <5>2, <6>1, <6>2
        <5>3. CASE e = h /\ new = Append(listed[h], b)
          <6>1. Only(new, asked) = IF b \in asked THEN Append(m, b) ELSE m
            <7>1. Only(Append(listed[h], b), asked) =
                    IF b \in asked THEN Append(Only(listed[h], asked), b)
                    ELSE Only(listed[h], asked)
              BY <1>2, OnlyAppend
            <7>2. Only(listed[h], asked) = m
              BY <4>3, <5>3
            <7>3. Only(new, asked) = Only(Append(listed[h], b), asked)
              BY <5>3
            <7>. QED BY <7>1, <7>2, <7>3, Zenon
          <6>2. PagedTo(Append(m, b), page, search.always, got)
            BY <1>1, <3>2, <4>1, <4>3, PagedAppend
          <6>. QED BY <1>6, <4>1, <5>3, <6>1, <6>2
        <5>. QED BY <1>3, <5>1, <5>2, <5>3
      <4>. QED BY <2>1, <4>2, <4>4 DEF Paged, page, got
    <3>. QED BY <2>1, <2>2, <3>1, <3>2, <3>3 DEF Covered
  <2>4. search # NoSearch => Searching(search)'
    <3>1. search # NoSearch => Covered(search)'
      BY <2>1, <2>3 DEF Covered
    <3>. QED BY <2>1, <3>1 DEF SearchInv, Searching, Inside
  <2>. QED BY <1>1, <2>1, <2>4 DEF SearchInv, Exact
<1>. QED BY <1>7, <1>8

\* A withdrawal moves entries to pages fetched already: the search is not calm.
LEMMA WithdrawStep ==
  ASSUME SearchInv, NEW b \in Bids, Withdraw(b)
  PROVE  SearchInv'
<1>. DEFINE h == Endpoint[b]
<1>1. Typed /\ h \in 1..Endpoints /\ shown' = shown
  BY SearchAssumption DEF SearchInv, Withdraw
<1>2. listed' = [listed EXCEPT ![h] = Only(listed[h], Bids \ {b})]
  BY DEF Withdraw
<1>3. search' = IF search = NoSearch THEN search ELSE [search EXCEPT !.calm = FALSE]
  BY DEF Withdraw
<1>. HIDE DEF h
<1>4. listed' \in [1..Endpoints -> Seq(Bids)]
  <2>1. listed[h] \in Seq(Bids)
    BY <1>1 DEF Typed
  <2>2. Only(listed[h], Bids \ {b}) \in Seq(Bids)
    BY <2>1, OnlyFacts
  <2>. QED BY <1>1, <1>2, <2>2 DEF Typed
<1>5. CASE search # NoSearch
  <2>1. search \in SearchType
    BY <1>1, <1>5, Shapes
  <2>2. search.page \in [1..Endpoints -> Nat]
    BY <2>1 DEF SearchType
  <2>3. search' = [search EXCEPT !.page = search.page, !.calm = FALSE]
    BY <1>3, <1>5, <2>1 DEF SearchType
  <2>. QED BY <1>1, <1>4, <1>5, <2>2, <2>3, NotCalm
<1>6. CASE search = NoSearch
  BY <1>1, <1>3, <1>4, <1>6 DEF SearchInv, Typed, Exact
<1>. QED BY <1>5, <1>6

\* No step of a search breaks the invariant.
LEMMA SearchSteps ==
  ASSUME SearchInv, SearchNext
  PROVE  SearchInv'
<1>1. ASSUME NEW keyword \in Keywords, NEW range \in Ranges, StartSearch(keyword, range)
      PROVE  SearchInv'
  BY <1>1, StartSearchStep
<1>2. ASSUME NEW e \in 1..Endpoints, FetchPage(e) PROVE SearchInv'
  BY <1>2, FetchPageStep
<1>3. ASSUME NextRound PROVE SearchInv'
  BY <1>3, NextRoundStep
<1>4. ASSUME Answer PROVE SearchInv'
  BY <1>4, AnswerStep
<1>5. ASSUME FetchFails PROVE SearchInv'
  BY <1>5, FetchFailsStep
<1>6. ASSUME Dismiss PROVE SearchInv'
  BY <1>6, DismissStep
<1>7. ASSUME NEW e \in 1..Endpoints, ErrorBody(e) PROVE SearchInv'
  BY <1>7, ErrorBodyStep
<1>8. ASSUME NEW b \in Bids, Publish(b) PROVE SearchInv'
  BY <1>8, PublishStep
<1>9. ASSUME NEW b \in Bids, Withdraw(b) PROVE SearchInv'
  BY <1>9, WithdrawStep
<1>. QED BY <1>1, <1>2, <1>3, <1>4, <1>5, <1>6, <1>7, <1>8, <1>9 DEF SearchNext, SearchStep

\* What does not touch the search keeps the invariant.
LEMMA SearchStutters ==
  ASSUME SearchInv, UNCHANGED searchVars
  PROVE  SearchInv'
BY DEF SearchInv, searchVars, Typed, Searching, Inside, Covered, Paged, Matching, AllListed, Exact

\* The invariant makes an answer exact.
LEMMA ExactIsExact == SearchInv => SearchIsExact
<1>. SUFFICES ASSUME SearchInv, shown # NoAnswer PROVE SearchIsExact
  BY DEF SearchIsExact
<1>. DEFINE found == shown.found
<1>1. shown \in AnswerType /\ Exact(shown)
  BY Shapes DEF SearchInv
<1>2. found \in Seq(Bids) /\ Distinct(found)
  BY <1>1 DEF AnswerType, Exact
<1>3. \A b \in ToSet(found) : /\ Day[b] \in shown.range[1]..shown.range[2]
                              /\ HasWords(b, shown.keyword)
  BY <1>1 DEF Exact, InRange
<1>4. shown.calm => shown.always \cap Findable(shown.keyword, shown.range) \subseteq ToSet(found)
  BY <1>1 DEF Exact
<1>. HIDE DEF found
<1>5. ASSUME NEW b \in ToSet(found)
      PROVE  Cardinality({at \in (1..TotalPages(found)) \X (1..ShownSize) :
                            /\ at[2] \in DOMAIN Slice(found, at[1])
                            /\ Slice(found, at[1])[at[2]] = b}) = 1
  BY <1>2, SlicesShowOnce
<1>. QED BY <1>3, <1>4, <1>5 DEF SearchIsExact, found

-----------------------------------------------------------------------------
(* Theorems *)

\* For any listing, titles, keywords, ranges, page size, window length and
\* number of endpoints: an answer of POST /notices/search holds only notices
\* in range that have all the words, each on exactly one slice, once, and,
\* unless the search was disturbed, every notice that could be found.
THEOREM SearchIsExactThm == CollectionSpec => []SearchIsExact
<1>1. CollectionInit => SearchInv
  BY SearchStarts DEF CollectionInit
<1>2. SearchInv /\ [CollectionNext]_collectionVars => SearchInv'
  <2>. SUFFICES ASSUME SearchInv, [CollectionNext]_collectionVars PROVE SearchInv'
    OBVIOUS
  <2>1. SearchNext \/ UNCHANGED searchVars
    BY DEF CollectionNext, Save, collectionVars
  <2>. QED BY <2>1, SearchSteps, SearchStutters
<1>3. SearchInv => SearchIsExact
  BY ExactIsExact
<1>. QED BY <1>1, <1>2, <1>3, PTL DEF CollectionSpec
=============================================================================
