----------------------------- MODULE MergeProofs ------------------------------
(***************************************************************************)
(* What merging with the configuration of a shared gateway, and pruning    *)
(* what is prohibited, give for any configuration: facts about the         *)
(* operators of Brownfield, and those about sequences that they rest on.   *)
(* A loop of the code is a recursive function; a fact about one is proved  *)
(* by induction on the number of rounds, with sets of numbers in the place *)
(* of predicates (NatInd).                                                 *)
(***************************************************************************)
EXTENDS Brownfield, FiniteSetTheorems, TLAPS

-----------------------------------------------------------------------------
(* Numbers and sequences *)

\* Induction: a set of numbers that has 0 and with a number the next one has
\* all of them.
LEMMA NatInd ==
    ASSUME NEW T, 0 \in T, \A n \in Nat : n \in T => n + 1 \in T
    PROVE  Nat \subseteq T
<1> DEFINE less == OpToRel(<, Nat)
           missing == Nat \ T
<1> SUFFICES ASSUME missing # {} PROVE FALSE
  BY Zenon
<1>1. PICK x \in missing : \A y \in missing : <<y, x>> \notin less
  BY WFMin, NatLessThanWellFounded, Zenon
<1>2. x # 0 /\ x \in Nat /\ x - 1 \in Nat /\ x - 1 < x
  OBVIOUS
<1>3. less = {ss \in Nat \X Nat : ss[1] < ss[2]}
  BY Zenon DEF OpToRel
<1> HIDE DEF less
<1>4. <<x - 1, x>> \in less
  BY <1>2, <1>3, Zenon
<1>5. x - 1 \in T
  BY <1>1, <1>2, <1>4, Zenon
<1> QED BY <1>2, <1>5

\* The greatest of some positions in a sequence is one of them.
LEMMA MaxIs ==
    ASSUME NEW n \in Nat, NEW S \in SUBSET (1..n), S # {}
    PROVE  Max(S) \in S /\ \A x \in S : x <= Max(S)
<1> DEFINE Top(T) == \E x \in T : \A y \in T : x >= y
           ok == {m \in Nat : \A T \in SUBSET (1..m) : T # {} => Top(T)}
<1>1. 0 \in ok
  <2>1. 1..0 = {}
    OBVIOUS
  <2> QED BY <2>1, Zenon
<1>2. ASSUME NEW m \in Nat, m \in ok PROVE m + 1 \in ok
  <2> SUFFICES ASSUME NEW T \in SUBSET (1..(m + 1)), T # {} PROVE Top(T)
    OBVIOUS
  <2>1. CASE m + 1 \in T
    BY <2>1
  <2>2. CASE m + 1 \notin T
    <3>1. T \in SUBSET (1..m)
      BY <2>2
    <3> QED BY <1>2, <3>1, Zenon
  <2> QED BY <2>1, <2>2, Zenon
<1> HIDE DEF ok
<1>3. n \in ok
  BY <1>1, <1>2, NatInd, Zenon
<1>4. Top(S)
  BY <1>3, Zenon DEF ok
<1>5. S \subseteq Nat
  OBVIOUS
<1> QED BY <1>4, <1>5, Zenon DEF Max

\* A sequence is one of its own elements.
LEMMA SeqIs ==
    ASSUME NEW S, NEW s \in Seq(S)
    PROVE  IsSeq(s) /\ Range(s) \subseteq S /\ DOMAIN s = 1..Len(s) /\ Len(s) \in Nat
  BY DEF IsSeq, Range

\* The first elements of a sequence.
LEMMA FirstElementsAre ==
    ASSUME NEW S, NEW s \in Seq(S), NEW n \in Nat, n <= Len(s)
    PROVE  SubSeq(s, 1, n) \in Seq(S) /\ Len(SubSeq(s, 1, n)) = n
<1>1. DOMAIN s = 1..Len(s) /\ Len(s) \in Nat /\ \A k \in 1..Len(s) : s[k] \in S
  OBVIOUS
<1>2. SubSeq(s, 1, n) = [k \in 1..n |-> s[k]]
  BY <1>1
<1>3. [k \in 1..n |-> s[k]] \in Seq(S) /\ Len([k \in 1..n |-> s[k]]) = n
  BY <1>1
<1> QED BY <1>2, <1>3, Zenon

\* All elements of a sequence.
LEMMA AllElementsAre == ASSUME NEW S, NEW s \in Seq(S) PROVE SubSeq(s, 1, Len(s)) = s
<1>1. DOMAIN s = 1..Len(s) /\ Len(s) \in Nat
  OBVIOUS
<1>2. SubSeq(s, 1, Len(s)) = [k \in 1..Len(s) |-> s[k]]
  BY <1>1
<1>3. [k \in 1..Len(s) |-> s[k]] = s
  BY <1>1
<1> QED BY <1>2, <1>3, Zenon

\* A sequence that is not empty has a first element.
LEMMA FirstOfSome == ASSUME NEW s, IsSeq(s), s # << >> PROVE 1 \in DOMAIN s
  BY DEF IsSeq

\* Appending an element.
LEMMA AppendIs ==
    ASSUME NEW S, NEW q \in Seq(S), NEW e \in S
    PROVE  Append(q, e) \in Seq(S) /\ Range(Append(q, e)) = Range(q) \cup {e}
<1>1. /\ DOMAIN Append(q, e) = 1..(Len(q) + 1) /\ DOMAIN q = 1..Len(q)
      /\ \A k \in 1..Len(q) : Append(q, e)[k] = q[k]
      /\ Append(q, e)[Len(q) + 1] = e /\ Len(q) \in Nat
  OBVIOUS
<1>2. 1..(Len(q) + 1) = (1..Len(q)) \cup {Len(q) + 1}
  BY <1>1
<1> QED BY <1>1, <1>2 DEF Range

\* Putting two sequences together.
LEMMA ConcatIs ==
    ASSUME NEW p, NEW q, IsSeq(p), IsSeq(q)
    PROVE  IsSeq(p \o q) /\ Range(p \o q) = Range(p) \cup Range(q)
<1> DEFINE S == Range(p) \cup Range(q)
<1>1. p \in Seq(S) /\ q \in Seq(S)
  BY DEF IsSeq, Range
<1> HIDE DEF S
<1>2. /\ DOMAIN (p \o q) = 1..(Len(p) + Len(q)) /\ DOMAIN p = 1..Len(p) /\ DOMAIN q = 1..Len(q)
      /\ \A k \in 1..Len(p) : (p \o q)[k] = p[k]
      /\ \A k \in 1..Len(q) : (p \o q)[Len(p) + k] = q[k]
      /\ Len(p) \in Nat /\ Len(q) \in Nat /\ p \o q \in Seq(S)
  BY <1>1
<1>4. Range(p \o q) \subseteq Range(p) \cup Range(q)
  <2> SUFFICES ASSUME NEW k \in 1..(Len(p) + Len(q)) PROVE (p \o q)[k] \in Range(p) \cup Range(q)
    BY <1>2, Zenon DEF Range
  <2>1. CASE k \in 1..Len(p)
    BY <1>2, <2>1, Zenon DEF Range
  <2>2. CASE k \notin 1..Len(p)
    <3>1. k - Len(p) \in 1..Len(q) /\ k = Len(p) + (k - Len(p))
      BY <1>2, <2>2
    <3>2. (p \o q)[k] = q[k - Len(p)]
      BY <1>2, <3>1, Zenon
    <3> QED BY <1>2, <3>1, <3>2, Zenon DEF Range
  <2> QED BY <2>1, <2>2, Zenon
<1>5. Range(p) \subseteq Range(p \o q)
  BY <1>2 DEF Range
<1>6. Range(q) \subseteq Range(p \o q)
  <2> SUFFICES ASSUME NEW k \in 1..Len(q) PROVE q[k] \in Range(p \o q)
    BY <1>2, Zenon DEF Range
  <2>1. Len(p) + k \in DOMAIN (p \o q) /\ (p \o q)[Len(p) + k] = q[k]
    BY <1>2
  <2> QED BY <2>1, Zenon DEF Range
<1> QED BY <1>2, <1>4, <1>5, <1>6, SeqIs, Zenon

\* Listed keeps exactly the elements of the sequence that are in the set.
LEMMA ListedIs ==
    ASSUME NEW s, IsSeq(s), NEW T
    PROVE  /\ IsSeq(Listed(s, T))
           /\ Range(Listed(s, T)) = Range(s) \cap T
<1> DEFINE S == Range(s)
           body(g, n) == IF n = 0 THEN << >>
                         ELSE IF s[n] \in T THEN Append(g[n - 1], s[n]) ELSE g[n - 1]
           Is(g, m) == g = [n \in 0..m |-> body(g, n)]
           upTo == CHOOSE g : Is(g, Len(s))
<1>1. Len(s) \in Nat /\ DOMAIN s = 1..Len(s)
  BY SeqIs, Zenon DEF IsSeq
<1>2. \A m \in Nat : \E g : Is(g, m)
  <2> DEFINE ok == {m \in Nat : \E g : Is(g, m)}
  <2>1. 0 \in ok
    <3>1. Is([n \in 0..0 |-> << >>], 0)
      OBVIOUS
    <3> QED BY <3>1, Zenon
  <2>2. ASSUME NEW m \in Nat, m \in ok PROVE m + 1 \in ok
    <3>1. PICK g : Is(g, m)
      BY <2>2, Zenon
    <3>2. \A n \in 0..m : g[n] = body(g, n)
      <4> HIDE DEF body
      <4> QED BY <3>1, Zenon
    <3> DEFINE h == [n \in 0..(m + 1) |-> IF n = m + 1 THEN body(g, n) ELSE g[n]]
    <3>3. \A n \in 0..(m + 1) : h[n] = body(h, n)
      <4> TAKE n \in 0..(m + 1)
      <4>1. CASE n = 0
        BY <3>2, <4>1
      <4>2. CASE n \in 1..m
        <5>1. h[n] = g[n] /\ h[n - 1] = g[n - 1] /\ n # 0 /\ g[n] = body(g, n)
          BY <3>2, <4>2
        <5> HIDE DEF h
        <5> QED BY <5>1, Zenon
      <4>3. CASE n = m + 1
        BY <4>3
      <4> QED BY <4>1, <4>2, <4>3
    <3>4. DOMAIN h = 0..(m + 1) /\ h = [n \in DOMAIN h |-> h[n]]
      BY Zenon
    <3> HIDE DEF h, body
    <3>5. Is(h, m + 1)
      BY <3>3, <3>4, Zenon
    <3> HIDE DEF Is
    <3> QED BY <3>5
  <2> HIDE DEF ok
  <2>3. Nat \subseteq ok
    BY <2>1, <2>2, NatInd, Zenon
  <2> QED BY <2>3, Zenon DEF ok
<1>3. Listed(s, T) = upTo[Len(s)]
  BY Zenon DEF Listed
<1>4. \A n \in 0..Len(s) : upTo[n] = body(upTo, n)
  <2>1. Is(upTo, Len(s))
    <3> HIDE DEF Is
    <3> QED BY <1>1, <1>2, Zenon
  <2> HIDE DEF upTo, body
  <2> QED BY <2>1, Zenon
<1> HIDE DEF upTo
<1> DEFINE Good(n) == upTo[n] \in Seq(S) /\ Range(upTo[n]) = {s[k] : k \in 1..n} \cap T
           good == {n \in Nat : n <= Len(s) => Good(n)}
<1>5. 0 \in good
  <2>1. upTo[0] = << >> /\ {s[k] : k \in 1..0} = {}
    BY <1>1, <1>4
  <2>2. << >> \in Seq(S) /\ Range(<< >>) = {}
    BY DEF Range
  <2>3. Good(0)
    <3> HIDE DEF S
    <3> QED BY <2>1, <2>2, Zenon
  <2> QED BY <2>3, Zenon
<1>6. ASSUME NEW n \in Nat, n \in good PROVE n + 1 \in good
  <2> SUFFICES ASSUME n + 1 <= Len(s) PROVE Good(n + 1)
    OBVIOUS
  <2>1. upTo[n + 1] = IF s[n + 1] \in T THEN Append(upTo[n], s[n + 1]) ELSE upTo[n]
    BY <1>1, <1>4
  <2>2. Good(n)
    BY <1>1, <1>6
  <2>3. s[n + 1] \in S /\ {s[k] : k \in 1..(n + 1)} = {s[k] : k \in 1..n} \cup {s[n + 1]}
    BY <1>1 DEF Range
  <2> HIDE DEF S
  <2>4. CASE s[n + 1] \in T
    BY <2>1, <2>2, <2>3, <2>4, AppendIs
  <2>5. CASE s[n + 1] \notin T
    BY <2>1, <2>2, <2>3, <2>5, Zenon
  <2> QED BY <2>4, <2>5, Zenon
<1> HIDE DEF good
<1>7. Len(s) \in good
  BY <1>1, <1>5, <1>6, NatInd, Zenon
<1>8. Good(Len(s))
  BY <1>1, <1>7 DEF good
<1>9. Range(s) = {s[k] : k \in 1..Len(s)}
  BY <1>1, Zenon DEF Range
<1> QED BY <1>3, <1>8, <1>9, SeqIs, Zenon

\* The sequences of a sequence, joined, have the elements of these.
LEMMA JoinedIs ==
    ASSUME NEW S, NEW seqs \in Seq(Seq(S))
    PROVE  Joined(seqs) \in Seq(S)
<1> DEFINE body(g, n) == IF n = 0 THEN << >> ELSE g[n - 1] \o seqs[n]
           Is(g, m) == g = [n \in 0..m |-> body(g, n)]
           upTo == CHOOSE g : Is(g, Len(seqs))
<1>1. Len(seqs) \in Nat /\ \A n \in 1..Len(seqs) : seqs[n] \in Seq(S)
  OBVIOUS
<1>2. \A m \in Nat : \E g : Is(g, m)
  <2> DEFINE ok == {m \in Nat : \E g : Is(g, m)}
  <2>1. 0 \in ok
    <3>1. Is([n \in 0..0 |-> << >>], 0)
      OBVIOUS
    <3> QED BY <3>1, Zenon
  <2>2. ASSUME NEW m \in Nat, m \in ok PROVE m + 1 \in ok
    <3>1. PICK g : Is(g, m)
      BY <2>2, Zenon
    <3>2. \A n \in 0..m : g[n] = body(g, n)
      <4> HIDE DEF body
      <4> QED BY <3>1, Zenon
    <3> DEFINE h == [n \in 0..(m + 1) |-> IF n = m + 1 THEN body(g, n) ELSE g[n]]
    <3>3. \A n \in 0..(m + 1) : h[n] = body(h, n)
      <4> SUFFICES ASSUME NEW n \in 0..(m + 1) PROVE h[n] = body(h, n)
        BY Zenon
      <4>1. CASE n = 0
        BY <3>2, <4>1
      <4>2. CASE n \in 1..m
        <5>1. h[n] = g[n] /\ h[n - 1] = g[n - 1] /\ n # 0 /\ g[n] = body(g, n)
          BY <3>2, <4>2
        <5> HIDE DEF h
        <5> QED BY <5>1, Zenon
      <4>3. CASE n = m + 1
        BY <4>3
      <4> QED BY <4>1, <4>2, <4>3
    <3>4. DOMAIN h = 0..(m + 1) /\ h = [n \in DOMAIN h |-> h[n]]
      BY Zenon
    <3> HIDE DEF h, body
    <3>5. Is(h, m + 1)
      BY <3>3, <3>4, Zenon
    <3> HIDE DEF Is
    <3> QED BY <3>5
  <2> HIDE DEF ok
  <2>3. Nat \subseteq ok
    BY <2>1, <2>2, NatInd, Zenon
  <2> QED BY <2>3, Zenon DEF ok
<1>3. Joined(seqs) = upTo[Len(seqs)]
  BY Zenon DEF Joined
<1>4. \A n \in 0..Len(seqs) : upTo[n] = body(upTo, n)
  <2>1. Is(upTo, Len(seqs))
    <3> HIDE DEF Is
    <3> QED BY <1>1, <1>2, Zenon
  <2> HIDE DEF upTo, body
  <2> QED BY <2>1, Zenon
<1> HIDE DEF upTo
<1> DEFINE good == {n \in Nat : n <= Len(seqs) => upTo[n] \in Seq(S)}
<1>5. 0 \in good
  <2>1. 0 \in 0..Len(seqs)
    BY <1>1
  <2>2. upTo[0] = << >>
    BY <1>4, <2>1, Zenon
  <2>3. 0 \in Nat /\ << >> \in Seq(S)
    OBVIOUS
  <2> QED BY <2>2, <2>3, Zenon
<1>6. ASSUME NEW n \in Nat, n \in good PROVE n + 1 \in good
  <2> SUFFICES ASSUME n + 1 <= Len(seqs) PROVE upTo[n + 1] \in Seq(S)
    OBVIOUS
  <2>1. seqs[n + 1] \in Seq(S) /\ upTo[n] \in Seq(S)
    BY <1>1, <1>6
  <2>2. n + 1 \in 0..Len(seqs) /\ n + 1 # 0 /\ upTo[(n + 1) - 1] = upTo[n]
    BY <1>1
  <2>3. body(upTo, n + 1) \in Seq(S)
    BY <2>1, <2>2
  <2> HIDE DEF body
  <2> QED BY <1>4, <2>2, <2>3, Zenon
<1> HIDE DEF good
<1>7. Len(seqs) \in good
  BY <1>1, <1>5, <1>6, NatInd, Zenon
<1> QED BY <1>1, <1>3, <1>7 DEF good

\* The sequences that list a finite set once have all of its elements.
LEMMA ListingsAre ==
    ASSUME NEW S, IsFiniteSet(S)
    PROVE  /\ \A f \in Orders(S) : IsSeq(f) /\ Range(f) = S
           /\ Range(AnOrder(S)) = S
<1> DEFINE D == 1..Cardinality(S)
<1>1. Cardinality(S) \in Nat /\ ExistsBijection(D, S)
  BY FS_CardinalityType, Zenon
<1>2. IsFiniteSet(D) /\ Cardinality(D) = Cardinality(S)
  BY <1>1, FS_Interval
<1>3. ASSUME NEW f \in Orders(S) PROVE IsSeq(f) /\ Range(f) = S
  <2>1. f \in Injection(D, S)
    BY Zenon DEF Orders
  <2>2. f \in Surjection(D, S)
    <3> HIDE DEF D
    <3> QED BY <1>2, <2>1, FS_Injection, Zenon
  <2>3. Range(f) = S
    <3> HIDE DEF D
    <3> QED BY <2>2, Zenon DEF Surjection, Range
  <2>4. f \in Seq(S)
    BY <1>1, <2>1 DEF Injection
  <2> QED BY <2>3, <2>4, SeqIs, Zenon
<1>4. AnOrder(S) \in Orders(S)
  <2>1. \E f : f \in Injection(D, S)
    <3> HIDE DEF D
    <3> QED BY <1>1, Zenon DEF ExistsBijection, Bijection
  <2> QED BY <2>1, Zenon DEF AnOrder, Orders
<1> QED BY <1>3, <1>4, Zenon

-----------------------------------------------------------------------------
(* Merging *)

Names(s) == {r.name : r \in Range(s)}

\* The last path rule of a name is one of that name.
LEMMA LastIs ==
    ASSUME NEW s, IsSeq(s), NEW n \in Names(s)
    PROVE  LET x == s[Max({k \in DOMAIN s : s[k].name = n})] IN x \in Range(s) /\ x.name = n
<1> DEFINE at == {k \in DOMAIN s : s[k].name = n}
<1>1. DOMAIN s = 1..Len(s) /\ Len(s) \in Nat
  BY SeqIs, Zenon DEF IsSeq
<1>2. at \in SUBSET (1..Len(s)) /\ at # {}
  BY <1>1, Zenon DEF Names, Range
<1> HIDE DEF at
<1>3. Max(at) \in at
  BY <1>1, <1>2, MaxIs, Zenon
<1> QED BY <1>3, Zenon DEF at, Range

\* Merging two lists of path rules leaves one path rule of each name, that of the
\* second list if there is one.
LEMMA MergedPathRulesAre ==
    ASSUME NEW first, NEW second, NEW ord, IsSeq(first), IsSeq(second), IsSeq(ord),
           Names(first) \cup Names(second) \subseteq Range(ord)
    PROVE  LET s == mergePathRules(first, second, ord)
           IN  /\ IsSeq(s)
               /\ \A x \in Range(s) : x \in Range(second) \/ (x \in Range(first) /\ x.name \notin Names(second))
               /\ \A x, y \in Range(s) : x.name = y.name => x = y
               /\ \A x \in Range(first) :
                    x.name \notin Names(second) /\ (\A y \in Range(first) : y.name = x.name => y = x)
                        => x \in Range(s)
               /\ first # << >> \/ second # << >> => s # << >>
<1> DEFINE last(s, n) == s[Max({k \in DOMAIN s : s[k].name = n})]
           order == Listed(ord, Names(first) \cup Names(second))
           pick(n) == IF n \in Names(second) THEN last(second, n) ELSE last(first, n)
           merged == mergePathRules(first, second, ord)
<1>1. merged = [k \in DOMAIN order |-> pick(order[k])]
  BY Zenon DEF mergePathRules, Names
<1>2. IsSeq(order) /\ Range(order) = Names(first) \cup Names(second)
  BY ListedIs
<1>3. DOMAIN order = 1..Len(order) /\ Len(order) \in Nat
  BY <1>2, SeqIs, Zenon DEF IsSeq
<1>4. \A n \in Names(second) : last(second, n) \in Range(second) /\ last(second, n).name = n
  BY LastIs, Zenon
<1>5. \A n \in Names(first) : last(first, n) \in Range(first) /\ last(first, n).name = n
  BY LastIs, Zenon
<1> HIDE DEF last, order
<1>6. \A n \in Range(order) : /\ pick(n).name = n
                              /\ n \in Names(second) => pick(n) \in Range(second)
                              /\ n \notin Names(second) => pick(n) \in Range(first)
  BY <1>2, <1>4, <1>5, Zenon
<1>7. \A x \in Range(first) :
        x.name \notin Names(second) /\ (\A y \in Range(first) : y.name = x.name => y = x)
            => x.name \in Range(order) /\ pick(x.name) = x
  BY <1>2, <1>6, Zenon DEF Names
<1> HIDE DEF pick
<1>8. merged \in Seq({pick(n) : n \in Range(order)})
  BY <1>1, <1>3 DEF Range
<1>9. Range(merged) = {pick(n) : n \in Range(order)} /\ IsSeq(merged)
  <2>1. IsSeq(merged) /\ Range(merged) \subseteq {pick(n) : n \in Range(order)}
    <3> HIDE DEF merged
    <3> QED BY <1>8, SeqIs, Zenon
  <2>2. \A n \in Range(order) : pick(n) \in Range(merged)
    BY <1>1, Zenon DEF Range
  <2> QED BY <2>1, <2>2, Zenon
<1>10. first # << >> \/ second # << >> => merged # << >>
  <2> SUFFICES ASSUME first # << >> \/ second # << >> PROVE merged # << >>
    BY Zenon
  <2>1. Names(first) \cup Names(second) # {}
    <3>1. \A s : IsSeq(s) /\ s # << >> => s[1] \in Range(s)
      BY SeqIs DEF Range, IsSeq
    <3> QED BY <3>1, Zenon DEF Names
  <2>2. PICK n : n \in Range(order)
    BY <1>2, <2>1, Zenon
  <2>3. pick(n) \in Range(merged)
    BY <1>9, <2>2, Zenon
  <2> HIDE DEF merged
  <2> QED BY <2>3 DEF Range
<1> HIDE DEF merged
<1>11. \A x \in Range(merged) : x.name \in Range(order) /\ x = pick(x.name)
  BY <1>6, <1>9, Zenon
<1>12. \A x \in Range(merged) : x \in Range(second) \/ (x \in Range(first) /\ x.name \notin Names(second))
  BY <1>6, <1>11, Zenon
<1>13. \A x, y \in Range(merged) : x.name = y.name => x = y
  BY <1>11, Zenon
<1> QED BY <1>7, <1>9, <1>10, <1>12, <1>13, Zenon DEF merged

\* Path maps that are well-formed and have path rules, and an order that ranks the
\* names of these.
GoodMaps(maps) ==
    /\ IsFiniteSet(DOMAIN maps) /\ None \notin DOMAIN maps
    /\ \A m \in DOMAIN maps : WellFormedMap(m, maps[m]) /\ maps[m].rules # << >>
Ranked(maps, ord) == \A m \in DOMAIN maps : Names(maps[m].rules) \subseteq Range(ord)

\* The path rules of the owner, who does not use the names that AGIC generates.
Owned(rules) == {x \in Range(rules) : x.name[1] # "pr"}

\* Path rules as AGIC makes them.
MadeRule(x) == OneTarget(x) /\ x.name[1] = "pr"

\* Merging path rules of AGIC into a good path map leaves a good path map with
\* the path rules of the owner.
LEMMA MergedRulesAreGood ==
    ASSUME NEW name, NEW m, WellFormedMap(name, m), m.rules # << >>,
           NEW second, IsSeq(second),
           \A x \in Range(second) : MadeRule(x),
           NEW ord, IsSeq(ord), Names(m.rules) \cup Names(second) \subseteq Range(ord)
    PROVE  LET n == [m EXCEPT !.rules = mergePathRules(@, second, ord)]
           IN  /\ WellFormedMap(name, n) /\ n.rules # << >>
               /\ Names(n.rules) \subseteq Range(ord)
               /\ Owned(m.rules) \subseteq Owned(n.rules)
<1> DEFINE rules == mergePathRules(m.rules, second, ord)
           n == [m EXCEPT !.rules = rules]
<1>1. DOMAIN n = DOMAIN m /\ DOMAIN m = MapParts /\ n.rules = rules /\ IsSeq(m.rules)
  BY Zenon DEF WellFormedMap, MapParts
<1>2. /\ IsSeq(rules) /\ rules # << >>
      /\ \A x \in Range(rules) : x \in Range(second) \/ x \in Range(m.rules)
      /\ \A x, y \in Range(rules) : x.name = y.name => x = y
      /\ \A x \in Range(m.rules) :
            x.name \notin Names(second) /\ (\A y \in Range(m.rules) : y.name = x.name => y = x)
                => x \in Range(rules)
  BY <1>1, MergedPathRulesAre, Zenon
<1> HIDE DEF n, rules
<1>3. \A x \in Range(rules) : OneTarget(x) /\ (name[1] = "url" => x.name[1] = "pr")
  BY <1>2, Zenon DEF WellFormedMap, MadeRule
<1>4. WellFormedMap(name, n)
  BY <1>1, <1>2, <1>3, Zenon DEF WellFormedMap
<1>5. Names(rules) \subseteq Range(ord)
  BY <1>2, Zenon DEF Names
<1>6. Owned(m.rules) \subseteq Owned(rules)
  BY <1>2 DEF Owned, Names, WellFormedMap, MadeRule
<1> QED BY <1>1, <1>2, <1>4, <1>5, <1>6, Zenon DEF n, rules

\* MergePathMaps keeps the path maps good, and the path rules of the owner.
LEMMA MergedMapsAreGood ==
    ASSUME NEW kept, NEW managed, NEW ord, GoodMaps(kept), GoodMaps(managed), IsSeq(ord),
           \A m \in DOMAIN managed : \A x \in Range(managed[m].rules) : MadeRule(x),
           Ranked(kept, ord), DOMAIN kept = {} \/ Ranked(managed, ord)
    PROVE  LET maps == MergePathMaps(kept, managed, ord)
           IN  /\ GoodMaps(maps)
               /\ DOMAIN maps = DOMAIN kept \cup DOMAIN managed
               /\ DOMAIN kept = {} \/ Ranked(maps, ord)
               /\ \A m \in DOMAIN kept : Owned(kept[m].rules) \subseteq Owned(maps[m].rules)
<1> DEFINE both(m) == [kept[m] EXCEPT !.rules = mergePathRules(@, managed[m].rules, ord)]
           maps == MergePathMaps(kept, managed, ord)
<1>1. /\ DOMAIN maps = DOMAIN kept \cup DOMAIN managed
      /\ \A m \in DOMAIN kept \cap DOMAIN managed : maps[m] = both(m)
      /\ \A m \in DOMAIN kept \ DOMAIN managed : maps[m] = kept[m]
      /\ \A m \in DOMAIN managed \ DOMAIN kept : maps[m] = managed[m]
  <2> HIDE DEF both
  <2>1. maps = [m \in DOMAIN kept \cap DOMAIN managed |-> both(m)] ++ kept ++ managed
    BY Zenon DEF MergePathMaps, both
  <2> HIDE DEF maps
  <2> QED BY <2>1, Zenon DEF ++
<1>2. IsFiniteSet(DOMAIN maps)
  <2>1. IsFiniteSet(DOMAIN kept \cup DOMAIN managed)
    BY FS_Union, Zenon DEF GoodMaps
  <2> QED BY <1>1, <2>1, Zenon
<1>3. ASSUME NEW m \in DOMAIN kept \cap DOMAIN managed
      PROVE  /\ WellFormedMap(m, both(m)) /\ both(m).rules # << >>
             /\ Names(both(m).rules) \subseteq Range(ord)
             /\ Owned(kept[m].rules) \subseteq Owned(both(m).rules)
  <2>1. /\ WellFormedMap(m, kept[m]) /\ kept[m].rules # << >> /\ IsSeq(managed[m].rules)
        /\ Names(kept[m].rules) \cup Names(managed[m].rules) \subseteq Range(ord)
        /\ \A x \in Range(managed[m].rules) : MadeRule(x)
    BY Zenon DEF GoodMaps, WellFormedMap, Ranked
  <2> QED BY <2>1, MergedRulesAreGood, Zenon
<1> HIDE DEF maps, both
<1>4. GoodMaps(maps)
  BY <1>1, <1>2, <1>3 DEF GoodMaps
<1>5. DOMAIN kept = {} \/ Ranked(maps, ord)
  BY <1>1, <1>3, Zenon DEF Ranked
<1>6. \A m \in DOMAIN kept : Owned(kept[m].rules) \subseteq Owned(maps[m].rules)
  BY <1>1, <1>3, Zenon
<1> QED BY <1>1, <1>4, <1>5, <1>6, Zenon DEF maps

\* A rule with a name that AGIC generates uses a path map of AGIC, if any.
OwnRulesUseOwnMaps(rules) ==
    \A r \in DOMAIN rules : r[1] = "rr" => rules[r].pathMap = None \/ rules[r].pathMap[1] = "url"

\* MergeRules keeps the path maps good, the path-based rules of the owner and
\* their path rules.
LEMMA MergedRulesKeep ==
    ASSUME NEW kept, NEW managed, NEW maps, NEW ord, GoodMaps(maps), IsSeq(ord),
           DOMAIN kept = {} \/ Ranked(maps, ord), ~ LookupFails(kept, managed, maps),
           OwnRulesUseOwnMaps(kept), OwnRulesUseOwnMaps(managed),
           \A r \in DOMAIN managed : r[1] = "rr"
    PROVE  LET new == MergeRules(kept, managed, maps, ord)
           IN  /\ GoodMaps(new.pathMaps) /\ OwnRulesUseOwnMaps(new.rules)
               /\ \A k \in DOMAIN kept : LET m == kept[k].pathMap IN
                    k[1] # "rr" /\ m \in DOMAIN maps /\ m[1] # "url" =>
                        /\ k \in DOMAIN new.rules /\ new.rules[k] = kept[k]
                        /\ m \in DOMAIN new.pathMaps
                        /\ Owned(maps[m].rules) \subseteq Owned(new.pathMaps[m].rules)
<1> DEFINE isPath(r) == r.pathMap # None
           shared == {s \in (DOMAIN kept) \X (DOMAIN managed) :
                        kept[s[1]].listener = managed[s[2]].listener}
           both == {s \in shared : isPath(kept[s[1]]) /\ isPath(managed[s[2]])}
           replaced == {s \in shared : ~ isPath(kept[s[1]]) /\ isPath(managed[s[2]])}
           defaults == {[map |-> kept[s[1]].pathMap, from |-> managed[s[2]]] :
                        s \in {x \in shared : isPath(kept[x[1]]) /\ ~ isPath(managed[x[2]])}}
                    \cup {[map |-> managed[s[2]].pathMap, from |-> kept[s[1]]] : s \in replaced}
           source(m) == CHOOSE x \in defaults : x.map = m
           withDefault(m) ==
                IF \A x \in defaults : x.map # m THEN maps[m]
                ELSE [maps[m] EXCEPT !.pool = source(m).from.pool, !.settings = source(m).from.settings,
                                     !.redirect = source(m).from.redirect]
           other(m) == CHOOSE x \in both : kept[x[1]].pathMap = m
           withRules(m) ==
                IF \A x \in both : kept[x[1]].pathMap # m THEN withDefault(m)
                ELSE [withDefault(m) EXCEPT !.rules =
                        mergePathRules(@, maps[managed[other(m)[2]].pathMap].rules, ord)]
           deleted == {managed[s[2]].pathMap : s \in both}
           stay == {m \in DOMAIN managed : \A s \in shared \ replaced : s[2] # m}
           remain == {k \in DOMAIN kept : \A s \in replaced : s[1] # k}
           new == MergeRules(kept, managed, maps, ord)
<1>1. /\ new.rules = Restrict(managed, stay) ++ Restrict(kept, remain)
      /\ new.pathMaps = [m \in DOMAIN maps \ deleted |-> withRules(m)]
  BY Zenon DEF MergeRules
<1>2. \A s \in both : /\ managed[s[2]].pathMap \in DOMAIN maps /\ managed[s[2]].pathMap[1] = "url"
                      /\ DOMAIN kept # {}
  BY Zenon DEF LookupFails, OwnRulesUseOwnMaps
<1>3. \A s \in replaced : kept[s[1]].pathMap = None
  BY Zenon
<1>4. \A m \in DOMAIN maps : /\ WellFormedMap(m, withDefault(m))
                             /\ withDefault(m).rules = maps[m].rules
  <2> HIDE DEF defaults, source
  <2> SUFFICES ASSUME NEW m \in DOMAIN maps
               PROVE  WellFormedMap(m, withDefault(m)) /\ withDefault(m).rules = maps[m].rules
    BY Zenon
  <2>1. WellFormedMap(m, maps[m])
    BY Zenon DEF GoodMaps
  <2>2. DOMAIN withDefault(m) = DOMAIN maps[m] /\ withDefault(m).rules = maps[m].rules
    BY <2>1, Zenon DEF WellFormedMap, MapParts
  <2> HIDE DEF withDefault
  <2> QED BY <2>1, <2>2, Zenon DEF WellFormedMap
<1>5. \A m : (\E x \in both : kept[x[1]].pathMap = m) => other(m) \in both
  BY Zenon
<1> HIDE DEF withDefault, other, both, replaced, shared, defaults, new
<1>6. ASSUME NEW m \in DOMAIN maps
      PROVE  /\ WellFormedMap(m, withRules(m)) /\ withRules(m).rules # << >>
             /\ Owned(maps[m].rules) \subseteq Owned(withRules(m).rules)
  <2>1. maps[m].rules # << >>
    BY Zenon DEF GoodMaps
  <2>2. CASE \A x \in both : kept[x[1]].pathMap # m
    BY <1>4, <2>1, <2>2, Zenon
  <2>3. CASE ~ \A x \in both : kept[x[1]].pathMap # m
    <3> DEFINE b == managed[other(m)[2]].pathMap
    <3>1. b \in DOMAIN maps /\ b[1] = "url" /\ DOMAIN kept # {}
      BY <1>2, <1>5, <2>3, Zenon
    <3> HIDE DEF b
    <3>2. /\ IsSeq(maps[b].rules) /\ \A x \in Range(maps[b].rules) : MadeRule(x)
      BY <3>1, Zenon DEF GoodMaps, WellFormedMap, MadeRule
    <3>3. Names(maps[m].rules) \cup Names(maps[b].rules) \subseteq Range(ord)
      BY <3>1, Zenon DEF Ranked
    <3>4. withRules(m) = [withDefault(m) EXCEPT !.rules = mergePathRules(@, maps[b].rules, ord)]
      BY <2>3, Zenon DEF b
    <3> HIDE DEF withRules
    <3>5. Names(withDefault(m).rules) \cup Names(maps[b].rules) \subseteq Range(ord)
      BY <1>4, <3>3, Zenon
    <3>6. /\ WellFormedMap(m, withRules(m)) /\ withRules(m).rules # << >>
          /\ Owned(withDefault(m).rules) \subseteq Owned(withRules(m).rules)
      <4>1. WellFormedMap(m, withDefault(m)) /\ withDefault(m).rules # << >>
        BY <1>4, <2>1, Zenon
      <4> DEFINE n == [withDefault(m) EXCEPT !.rules = mergePathRules(@, maps[b].rules, ord)]
      <4>2. /\ WellFormedMap(m, n) /\ n.rules # << >>
            /\ Owned(withDefault(m).rules) \subseteq Owned(n.rules)
        BY <3>2, <3>5, <4>1, MergedRulesAreGood, Zenon
      <4> HIDE DEF n
      <4>3. withRules(m) = n
        BY <3>4, Zenon DEF n
      <4> QED BY <4>2, <4>3, Zenon
    <3> QED BY <1>4, <3>6, Zenon
  <2> QED BY <2>2, <2>3, Zenon
<1> HIDE DEF withRules
<1>7. GoodMaps(new.pathMaps)
  <2>1. IsFiniteSet(DOMAIN maps \ deleted)
    BY FS_Difference, Zenon DEF GoodMaps
  <2> QED BY <1>1, <1>6, <2>1, Zenon DEF GoodMaps
<1>8. OwnRulesUseOwnMaps(new.rules)
  <2>1. \A r \in DOMAIN new.rules : \/ r \in DOMAIN managed /\ new.rules[r] = managed[r]
                                    \/ r \in DOMAIN kept /\ new.rules[r] = kept[r]
    BY <1>1, Zenon DEF ++, Restrict
  <2> QED BY <2>1 DEF OwnRulesUseOwnMaps
<1>9. ASSUME NEW k \in DOMAIN kept, k[1] # "rr", kept[k].pathMap \in DOMAIN maps, kept[k].pathMap[1] # "url"
      PROVE  /\ k \in DOMAIN new.rules /\ new.rules[k] = kept[k]
             /\ kept[k].pathMap \in DOMAIN new.pathMaps
             /\ Owned(maps[kept[k].pathMap].rules) \subseteq Owned(new.pathMaps[kept[k].pathMap].rules)
  <2>1. k \in remain
    BY <1>3, <1>9, Zenon DEF GoodMaps
  <2>2. k \notin DOMAIN managed
    BY <1>9, Zenon
  <2> HIDE DEF remain, stay
  <2>3. stay \subseteq DOMAIN managed
    BY Zenon DEF stay
  <2>4. k \in DOMAIN new.rules /\ new.rules[k] = kept[k]
    BY <1>1, <2>1, <2>2, <2>3, Zenon DEF ++, Restrict
  <2>5. kept[k].pathMap \notin deleted
    BY <1>2, <1>9, Zenon
  <2> HIDE DEF deleted
  <2> QED BY <1>1, <1>6, <1>9, <2>4, <2>5, Zenon
<1> QED BY <1>7, <1>8, <1>9, Zenon DEF new

\* What MergeListeners tells listeners apart by.
Key(l) == <<l.https, l.port, l.private, IF l.host = None THEN "" ELSE l.host>>

\* MergeListeners gives listeners of the two lists, and keeps a listener of the
\* first list that no other one in that list competes with.
LEMMA MergedListenersAre ==
    ASSUME NEW kept, NEW managed, NEW new \in MergeListeners(kept, managed)
    PROVE  /\ \A n \in DOMAIN new : \/ n \in DOMAIN kept /\ new[n] = kept[n]
                                    \/ n \in DOMAIN managed /\ new[n] = managed[n]
           /\ \A l \in DOMAIN kept :
                (\A k \in DOMAIN kept : Key(kept[k]) = Key(kept[l]) => k = l)
                    => l \in DOMAIN new /\ new[l] = kept[l]
<1> DEFINE first == {n \in DOMAIN kept : n = CHOOSE m \in DOMAIN kept : Key(kept[m]) = Key(kept[n])}
           free == {n \in DOMAIN managed : \A m \in first : Key(kept[m]) # Key(managed[n])}
           winners == {w \in SUBSET free :
                        \A n \in free : Cardinality({m \in w : Key(managed[m]) = Key(managed[n])}) = 1}
<1>1. MergeListeners(kept, managed) = {Restrict(kept, first) ++ Restrict(managed, w) : w \in winners}
  BY Zenon DEF MergeListeners, Key
<1>2. first \subseteq DOMAIN kept /\ \A w \in winners : w \subseteq DOMAIN managed
  BY Zenon
<1>3. ASSUME NEW l \in DOMAIN kept, \A k \in DOMAIN kept : Key(kept[k]) = Key(kept[l]) => k = l
      PROVE  l \in first
  <2> HIDE DEF winners, free
  <2> QED BY <1>3, Zenon
<1> HIDE DEF first, winners
<1>4. PICK w \in winners : new = Restrict(kept, first) ++ Restrict(managed, w)
  BY <1>1, Zenon
<1>5. /\ DOMAIN new = first \cup w
      /\ \A n \in first : new[n] = kept[n]
      /\ \A n \in w \ first : new[n] = managed[n]
  BY <1>4, Zenon DEF ++, Restrict
<1> QED BY <1>2, <1>3, <1>5, Zenon

\* No other listener in a list has the key of this one.
Alone(kept, l) == \A k \in DOMAIN kept : Key(kept[k]) = Key(kept[l]) => k = l

\* The listener is in another list too, as it is.
StaysIn(l, kept, new) == l \in DOMAIN new /\ new[l] = kept[l]

\* Merging keeps a listener that is alone with its key.
LEMMA KeptListenerStays ==
    ASSUME NEW kept, NEW managed, NEW new \in MergeListeners(kept, managed), NEW l \in DOMAIN kept, Alone(kept, l)
    PROVE  StaysIn(l, kept, new)
  BY MergedListenersAre, Zenon DEF Alone, StaysIn

\* The path rules of finitely many path maps have finitely many names.
LEMMA NamesAreFinite ==
    ASSUME NEW maps, IsFiniteSet(DOMAIN maps), \A m \in DOMAIN maps : IsSeq(maps[m].rules)
    PROVE  IsFiniteSet(UNION {{r.name : r \in Range(m.rules)} : m \in Range(maps)})
<1> DEFINE of(m) == Names(maps[m].rules)
           all == {of(m) : m \in DOMAIN maps}
<1>1. \A m \in DOMAIN maps : IsFiniteSet(of(m))
  <2> TAKE m \in DOMAIN maps
  <2> DEFINE s == maps[m].rules
             f == [k \in DOMAIN s |-> s[k].name]
  <2>1. IsFiniteSet(DOMAIN s)
    <3>1. DOMAIN s = 1..Len(s) /\ Len(s) \in Nat
      BY SeqIs DEF IsSeq
    <3> QED BY <3>1, FS_Interval
  <2> HIDE DEF s
  <2>2. f \in Surjection(DOMAIN s, Names(s))
    BY Zenon DEF Surjection, Names, Range
  <2> QED BY <2>1, <2>2, FS_Surjection DEF s
<1> HIDE DEF of
<1>2. IsFiniteSet(all)
  <2> DEFINE f == [m \in DOMAIN maps |-> of(m)]
  <2>1. f \in Surjection(DOMAIN maps, all)
    BY Zenon DEF Surjection
  <2> QED BY <2>1, FS_Surjection, Zenon
<1>3. \A T \in all : IsFiniteSet(T)
  BY <1>1, Zenon
<1> HIDE DEF all
<1>4. IsFiniteSet(UNION all)
  BY <1>2, <1>3, FS_UNION, Zenon
<1>5. {{r.name : r \in Range(m.rules)} : m \in Range(maps)} = all
  BY DEF all, of, Names, Range
<1> QED BY <1>4, <1>5, Zenon

-----------------------------------------------------------------------------
(* Pruning *)

\* The rules of a well-formed ingress.
GoodRules(rules) ==
    IsSeq(rules) /\ \A r \in Range(rules) : DOMAIN r = RuleParts /\ IsSeq(r.paths) /\ r.host # None

\* What pruning leaves of the rules: paths that are not prohibited.
LEMMA PrunedRulesAre ==
    ASSUME NEW rules, NEW some, GoodRules(rules), some # {}
    PROVE  /\ IsSeq(PruneIngressRules(rules, some))
           /\ \A r \in Range(PruneIngressRules(rules, some)) :
                /\ DOMAIN r = RuleParts /\ IsSeq(r.paths) /\ r.host # None
                /\ \A p \in Range(r.paths) : ~ IsBlacklisted(r.host, p.path, some)
                /\ r.paths = << >> => ~ IsBlacklisted(r.host, <<"">>, some)
<1> DEFINE allowed(k) == {p \in Range(rules[k].paths) : ~ IsBlacklisted(rules[k].host, p.path, some)}
           left(k) == Listed(rules[k].paths, allowed(k))
           pruned == [k \in DOMAIN rules |-> [rules[k] EXCEPT !.paths = left(k)]]
           staying == {k \in DOMAIN rules :
                rules[k].http /\ IF rules[k].paths = << >> THEN ~ IsBlacklisted(rules[k].host, <<"">>, some)
                                 ELSE pruned[k].paths # << >>}
           all == [k \in DOMAIN rules |-> k]
           order == Listed(all, staying)
           result == [j \in DOMAIN order |-> pruned[order[j]]]
<1>1. PruneIngressRules(rules, some) = result
  BY Zenon DEF PruneIngressRules
<1>2. DOMAIN rules = 1..Len(rules) /\ Len(rules) \in Nat
  BY SeqIs, Zenon DEF GoodRules, IsSeq
<1>3. \A k \in DOMAIN rules : IsSeq(left(k)) /\ Range(left(k)) = Range(rules[k].paths) \cap allowed(k)
  <2>1. \A k \in DOMAIN rules : IsSeq(rules[k].paths)
    BY Zenon DEF GoodRules, Range
  <2> HIDE DEF allowed
  <2> QED BY <2>1, ListedIs, Zenon
<1>4. \A k \in DOMAIN rules : \A p \in Range(left(k)) : ~ IsBlacklisted(rules[k].host, p.path, some)
  BY <1>3, Zenon
<1> HIDE DEF allowed, left
<1>5. \A k \in DOMAIN rules : /\ DOMAIN pruned[k] = RuleParts /\ pruned[k].paths = left(k)
                              /\ pruned[k].host = rules[k].host /\ rules[k].host # None
  BY Zenon DEF GoodRules, Range, RuleParts
<1> HIDE DEF pruned
<1>6. IsSeq(order) /\ Range(order) \subseteq staying
  <2>1. all \in Seq(Nat)
    BY <1>2
  <2>2. IsSeq(all)
    BY <2>1, SeqIs, Zenon
  <2> HIDE DEF all, staying
  <2>3. IsSeq(order) /\ Range(order) = Range(all) \cap staying
    BY <2>2, ListedIs, Zenon
  <2> HIDE DEF order
  <2> QED BY <2>3, Zenon
<1> HIDE DEF order
<1>7. DOMAIN order = 1..Len(order) /\ Len(order) \in Nat
  BY <1>6, SeqIs, Zenon DEF IsSeq
<1>8. IsSeq(result)
  <2>1. result \in Seq({pruned[order[j]] : j \in 1..Len(order)})
    BY <1>7
  <2> QED BY <2>1, SeqIs, Zenon
<1>9. ASSUME NEW r \in Range(result)
      PROVE  /\ DOMAIN r = RuleParts /\ IsSeq(r.paths) /\ r.host # None
             /\ \A p \in Range(r.paths) : ~ IsBlacklisted(r.host, p.path, some)
             /\ r.paths = << >> => ~ IsBlacklisted(r.host, <<"">>, some)
  <2>1. PICK j \in DOMAIN order : r = pruned[order[j]]
    BY <1>9, Zenon DEF Range
  <2>2. PICK k \in staying : r = pruned[k]
    BY <1>6, <2>1, Zenon DEF Range
  <2>3. k \in DOMAIN rules /\ (r.paths = << >> => ~ IsBlacklisted(rules[k].host, <<"">>, some))
    BY <2>2, Zenon
  <2> QED BY <1>3, <1>4, <1>5, <2>2, <2>3, Zenon
<1> HIDE DEF result
<1> QED BY <1>1, <1>8, <1>9, Zenon

\* Pruning leaves rules that are well-formed.
LEMMA PrunedRulesAreGood ==
    ASSUME NEW rules, NEW some, GoodRules(rules)
    PROVE  GoodRules(PruneIngressRules(rules, some))
<1>1. CASE some = {}
  <2>1. PruneIngressRules(rules, some) = rules
    BY <1>1, Zenon DEF PruneIngressRules
  <2> QED BY <2>1, Zenon
<1>2. CASE some # {}
  BY <1>2, PrunedRulesAre, Zenon DEF GoodRules
<1> QED BY <1>1, <1>2, Zenon

-----------------------------------------------------------------------------
(* Hosts that are prohibited as a whole *)

\* The targets prohibit a host as a whole.
Whole(host, some) == \E t \in some : t.host = host /\ (t.paths = {} \/ <<"", "*">> \in t.paths)

\* What the targets stand for.
LEMMA BlacklistIs ==
    ASSUME NEW some, NEW host, NEW path
    PROVE  IsBlacklisted(host, path, some) <=>
            \E t \in some : \E p \in (IF t.paths = {} THEN {<<"">>} ELSE t.paths) :
                t.host \in {"", host} /\ (path = p \/ contains(p, path))
<1> DEFINE paths(t) == IF t.paths = {} THEN {<<"">>} ELSE t.paths
           of(t) == {[host |-> t.host, path |-> p] : p \in paths(t)}
<1>1. GetTargetBlacklist(some) = UNION {of(t) : t \in some}
  BY Zenon DEF GetTargetBlacklist
<1>2. \A t : \A p \in paths(t) : [host |-> t.host, path |-> p] \in of(t)
  BY Zenon
<1>3. \A t : \A b \in of(t) : \E p \in paths(t) : b.host = t.host /\ b.path = p
  <2> HIDE DEF paths
  <2> QED OBVIOUS
<1> HIDE DEF of, paths
<1>4. ASSUME IsBlacklisted(host, path, some)
      PROVE  \E t \in some : \E p \in paths(t) : t.host \in {"", host} /\ (path = p \/ contains(p, path))
  <2>1. PICK b \in GetTargetBlacklist(some) : b.host \in {"", host} /\ (path = b.path \/ contains(b.path, path))
    BY <1>4, Zenon DEF IsBlacklisted
  <2>2. PICK t \in some : b \in of(t)
    BY <1>1, <2>1, Zenon
  <2> QED BY <1>3, <2>1, <2>2, Zenon
<1>5. ASSUME NEW t \in some, NEW p \in paths(t), t.host \in {"", host}, path = p \/ contains(p, path)
      PROVE  IsBlacklisted(host, path, some)
  <2> DEFINE b == [host |-> t.host, path |-> p]
  <2>1. b \in GetTargetBlacklist(some) /\ b.host = t.host /\ b.path = p
    BY <1>1, <1>2, Zenon
  <2> HIDE DEF b
  <2> QED BY <1>5, <2>1, Zenon DEF IsBlacklisted
<1> QED BY <1>4, <1>5, Zenon DEF paths

\* A host that is prohibited as a whole is prohibited with every path.
LEMMA WholeHosts ==
    ASSUME NEW some, NEW host, Whole(host, some), NEW path
    PROVE  IsBlacklisted(host, path, some)
<1>1. contains(<<"">>, path) /\ contains(<<"", "*">>, path)
  BY Zenon DEF contains
<1> QED BY <1>1, BlacklistIs, Zenon DEF Whole

-----------------------------------------------------------------------------
(* What a merge takes and leaves alone *)

\* A kept rule is left alone, and its path map when no other rule uses it.
LeftAlone(new, r, kept, managed, maps) ==
    LET m == kept[r].pathMap
    IN  /\ r \in DOMAIN new.rules /\ new.rules[r] = kept[r]
        /\ /\ m \in DOMAIN maps
           /\ \A k \in DOMAIN kept : kept[k].pathMap = m => k = r
           /\ \A x \in DOMAIN managed : managed[x].pathMap # m
           => m \in DOMAIN new.pathMaps /\ new.pathMaps[m] = maps[m]

\* MergeRules does so when no managed rule is on its listener.
LEMMA MergeLeavesAlone ==
    ASSUME NEW kept, NEW managed, NEW maps, NEW ord, NEW r \in DOMAIN kept, r \notin DOMAIN managed,
           \A x \in DOMAIN managed : managed[x].listener # kept[r].listener
    PROVE  LeftAlone(MergeRules(kept, managed, maps, ord), r, kept, managed, maps)
<1> DEFINE isPath(x) == x.pathMap # None
           shared == {s \in (DOMAIN kept) \X (DOMAIN managed) :
                        kept[s[1]].listener = managed[s[2]].listener}
           both == {s \in shared : isPath(kept[s[1]]) /\ isPath(managed[s[2]])}
           replaced == {s \in shared : ~ isPath(kept[s[1]]) /\ isPath(managed[s[2]])}
           led == {s \in shared : isPath(kept[s[1]]) /\ ~ isPath(managed[s[2]])}
           defaults == {[map |-> kept[s[1]].pathMap, from |-> managed[s[2]]] : s \in led}
                    \cup {[map |-> managed[s[2]].pathMap, from |-> kept[s[1]]] : s \in replaced}
           source(m) == CHOOSE x \in defaults : x.map = m
           withDefault(m) ==
                IF \A x \in defaults : x.map # m THEN maps[m]
                ELSE [maps[m] EXCEPT !.pool = source(m).from.pool, !.settings = source(m).from.settings,
                                     !.redirect = source(m).from.redirect]
           other(m) == CHOOSE x \in both : kept[x[1]].pathMap = m
           withRules(m) ==
                IF \A x \in both : kept[x[1]].pathMap # m THEN withDefault(m)
                ELSE [withDefault(m) EXCEPT !.rules =
                        mergePathRules(@, maps[managed[other(m)[2]].pathMap].rules, ord)]
           deleted == {managed[s[2]].pathMap : s \in both}
           stay == {m \in DOMAIN managed : \A s \in shared \ replaced : s[2] # m}
           remain == {k \in DOMAIN kept : \A s \in replaced : s[1] # k}
           new == MergeRules(kept, managed, maps, ord)
<1>1. /\ new.rules = Restrict(managed, stay) ++ Restrict(kept, remain)
      /\ new.pathMaps = [m \in DOMAIN maps \ deleted |-> withRules(m)]
  BY Zenon DEF MergeRules
<1>2. \A s \in shared : s[1] \in DOMAIN kept /\ s[1] # r /\ s[2] \in DOMAIN managed
  BY Zenon
<1>3. both \subseteq shared /\ replaced \subseteq shared /\ led \subseteq shared /\ stay \subseteq DOMAIN managed
  BY Zenon
<1>4. r \in remain
  <2> HIDE DEF shared, both, replaced
  <2> QED BY <1>2, <1>3, Zenon
<1> HIDE DEF stay, remain, shared, both, replaced, led, new
<1>5. r \in DOMAIN new.rules /\ new.rules[r] = kept[r]
  BY <1>1, <1>3, <1>4, Zenon DEF ++, Restrict
<1>6. ASSUME kept[r].pathMap \in DOMAIN maps,
             \A k \in DOMAIN kept : kept[k].pathMap = kept[r].pathMap => k = r,
             \A x \in DOMAIN managed : managed[x].pathMap # kept[r].pathMap
      PROVE  kept[r].pathMap \in DOMAIN new.pathMaps /\ new.pathMaps[kept[r].pathMap] = maps[kept[r].pathMap]
  <2> DEFINE m == kept[r].pathMap
  <2>1. \A s \in shared : kept[s[1]].pathMap # m /\ managed[s[2]].pathMap # m
    BY <1>2, <1>6, Zenon
  <2>2. m \notin deleted
    BY <1>3, <2>1, Zenon
  <2>3. \A x \in defaults : x.map # m
    <3>1. \A s \in led : [map |-> kept[s[1]].pathMap, from |-> managed[s[2]]].map # m
      BY <1>3, <2>1, Zenon
    <3>2. \A s \in replaced : [map |-> managed[s[2]].pathMap, from |-> kept[s[1]]].map # m
      BY <1>3, <2>1, Zenon
    <3> QED BY <3>1, <3>2, Zenon
  <2>4. \A x \in both : kept[x[1]].pathMap # m
    BY <1>3, <2>1, Zenon
  <2> HIDE DEF defaults, source, other, deleted
  <2>5. withRules(m) = maps[m]
    BY <2>3, <2>4, Zenon
  <2> HIDE DEF withRules, m
  <2>6. m \in DOMAIN maps
    BY <1>6, Zenon DEF m
  <2> QED BY <1>1, <2>2, <2>5, <2>6, Zenon DEF m
<1> QED BY <1>5, <1>6, Zenon DEF LeftAlone, new

\* A merge has the path maps of both sides.
LEMMA MergedMapsHave ==
    ASSUME NEW kept, NEW managed, NEW ord
    PROVE  LET merged == MergePathMaps(kept, managed, ord)
           IN  /\ DOMAIN merged = DOMAIN kept \cup DOMAIN managed
               /\ \A m \in DOMAIN kept \ DOMAIN managed : merged[m] = kept[m]
  BY Zenon DEF MergePathMaps, ++

\* The rules that MergeRules makes are those it was given.
LEMMA MergeTakesRules ==
    ASSUME NEW kept, NEW managed, NEW maps, NEW ord,
           NEW r \in DOMAIN MergeRules(kept, managed, maps, ord).rules
    PROVE  LET rule == MergeRules(kept, managed, maps, ord).rules[r]
           IN  \/ r \in DOMAIN kept /\ rule = kept[r]
               \/ r \in DOMAIN managed /\ rule = managed[r]
<1> DEFINE new == MergeRules(kept, managed, maps, ord)
<1>1. PICK stay, remain : /\ stay \subseteq DOMAIN managed /\ remain \subseteq DOMAIN kept
                          /\ new.rules = Restrict(managed, stay) ++ Restrict(kept, remain)
  <2> DEFINE isPath(x) == x.pathMap # None
             shared == {s \in (DOMAIN kept) \X (DOMAIN managed) :
                            kept[s[1]].listener = managed[s[2]].listener}
             replaced == {s \in shared : ~ isPath(kept[s[1]]) /\ isPath(managed[s[2]])}
             stay == {m \in DOMAIN managed : \A s \in shared \ replaced : s[2] # m}
             remain == {k \in DOMAIN kept : \A s \in replaced : s[1] # k}
  <2>1. new.rules = Restrict(managed, stay) ++ Restrict(kept, remain)
    BY Zenon DEF MergeRules
  <2>2. stay \subseteq DOMAIN managed /\ remain \subseteq DOMAIN kept
    BY Zenon
  <2> HIDE DEF stay, remain, new
  <2> QED BY <2>1, <2>2, Zenon
<1> HIDE DEF new
<1> QED BY <1>1, Zenon DEF ++, Restrict, new

=============================================================================
