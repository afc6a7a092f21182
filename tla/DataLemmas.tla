----------------------------- MODULE DataLemmas ----------------------------
(***************************************************************************)
(* Facts about data that several of the proofs need.  First, induction and *)
(* recursion over the natural numbers, stated with sets and functions in   *)
(* place of the operator parameters of the library's theorems, so that the *)
(* provers can apply them; then the elements of sequences.                 *)
(***************************************************************************)
EXTENDS Integers, Sequences, FiniteSets, SequenceTheorems, FiniteSetTheorems,
        WellFoundedInduction, TLAPS

\* A set of natural numbers that is not empty has a least element.
LEMMA LeastNumber ==
    ASSUME NEW T, T \subseteq Nat, T # {}
    PROVE  \E m \in T : \A n \in T : m <= n
<1> DEFINE R == OpToRel(<, Nat)
<1>1. IsWellFoundedOn(R, Nat)
    BY NatLessThanWellFounded
<1>2. \A x, y \in Nat : <<x, y>> \in R <=> x < y
    BY DEF OpToRel
<1> HIDE DEF R
<1>3. PICK m \in T : \A n \in T : ~(<<n, m>> \in R)
    BY <1>1, WFMin
<1>4. ASSUME NEW n \in T PROVE m <= n
    <2>1. m \in Nat /\ n \in Nat
        OBVIOUS
    <2>2. ~(n < m)
        BY <1>2, <1>3, <2>1
    <2> QED BY <2>1, <2>2
<1> QED BY <1>4

\* One that is bounded has a greatest element.
LEMMA GreatestNumber ==
    ASSUME NEW T, T \subseteq Nat, T # {}, NEW n \in Nat, \A x \in T : x <= n
    PROVE  \E m \in T : \A x \in T : x <= m
<1> DEFINE D == {k \in Nat : n - k \in T}
<1>1. D \subseteq Nat /\ D # {}
    <2>1. PICK x \in T : TRUE
        OBVIOUS
    <2>2. n - x \in Nat /\ n - (n - x) = x
        OBVIOUS
    <2> QED BY <2>2
<1>2. PICK k \in D : \A l \in D : k <= l
    <2> HIDE DEF D
    <2> QED BY <1>1, LeastNumber
<1>3. ASSUME NEW x \in T PROVE x <= n - k
    <2>1. n - x \in Nat /\ n - (n - x) = x
        OBVIOUS
    <2>2. n - x \in D
        BY <2>1
    <2>3. k <= n - x /\ k \in Nat /\ x \in Nat
        BY <1>2, <2>2
    <2> QED BY <2>3
<1> QED BY <1>2, <1>3

\* Induction, with a set for the property.
LEMMA SetInduction ==
    ASSUME NEW S, 0 \in S, \A n \in Nat : n \in S => n + 1 \in S
    PROVE  Nat \subseteq S
<1> DEFINE T == Nat \ S
<1> SUFFICES ASSUME T # {} PROVE FALSE
    OBVIOUS
<1>1. PICK m \in T : \A n \in T : m <= n
    BY LeastNumber
<1>2. m # 0 /\ m - 1 \in Nat
    OBVIOUS
<1>3. m - 1 \notin T
    BY <1>1, <1>2
<1>4. (m - 1) + 1 \in S
    BY <1>2, <1>3
<1> QED BY <1>4

-----------------------------------------------------------------------------
(* Recursion: the values v0, step[<<0, v0>>], ... are those of a function.    *)

Steps(V) == [Nat \X V -> V]

IsRecursive(V, v0, step, f) ==
    /\ f \in [Nat -> V]
    /\ f[0] = v0
    /\ \A n \in Nat : f[n + 1] = step[<<n, f[n]>>]

\* The first n + 1 of them.
Prefix(v0, step, V, n, g) ==
    /\ g \in [0..n -> V]
    /\ g[0] = v0
    /\ \A i \in 0..(n - 1) : g[i + 1] = step[<<i, g[i]>>]

LEMMA PrefixExists ==
    ASSUME NEW V, NEW v0 \in V, NEW step \in Steps(V)
    PROVE  \A n \in Nat : \E g : Prefix(v0, step, V, n, g)
<1> DEFINE S == {n \in Nat : \E g : Prefix(v0, step, V, n, g)}
<1>1. 0 \in S
    <2>1. Prefix(v0, step, V, 0, [i \in 0..0 |-> v0])
        BY DEF Prefix
    <2> QED BY <2>1
<1>2. ASSUME NEW n \in Nat, n \in S PROVE n + 1 \in S
    <2>1. PICK g : Prefix(v0, step, V, n, g)
        BY <1>2
    <2>2. g \in [0..n -> V] /\ g[n] \in V /\ step[<<n, g[n]>>] \in V
        BY <2>1 DEF Prefix, Steps
    <2> DEFINE h == [i \in 0..(n + 1) |-> IF i = n + 1 THEN step[<<n, g[n]>>] ELSE g[i]]
    <2>3. h \in [0..(n + 1) -> V]
        BY <2>2
    <2>4. h[0] = v0
        BY <2>1 DEF Prefix
    <2>5. ASSUME NEW i \in 0..n PROVE h[i + 1] = step[<<i, h[i]>>]
        <3>1. CASE i = n
            <4>1. h[i + 1] = step[<<n, g[n]>>] /\ h[i] = g[n]
                BY <3>1
            <4> QED BY <3>1, <4>1
        <3>2. CASE i # n
            <4>1. i \in 0..(n - 1)
                BY <3>2
            <4>2. g[i + 1] = step[<<i, g[i]>>]
                BY <2>1, <4>1 DEF Prefix
            <4>3. h[i + 1] = g[i + 1] /\ h[i] = g[i]
                BY <3>2
            <4> QED BY <4>2, <4>3
        <3> QED BY <3>1, <3>2
    <2>6. Prefix(v0, step, V, n + 1, h)
        <3>1. (n + 1) - 1 = n
            OBVIOUS
        <3> HIDE DEF h
        <3> QED BY <2>3, <2>4, <2>5, <3>1 DEF Prefix
    <2> QED BY <2>6
<1> HIDE DEF S
<1>3. Nat \subseteq S
    BY <1>1, <1>2, SetInduction
<1> QED BY <1>3 DEF S

LEMMA PrefixUnique ==
    ASSUME NEW V, NEW v0, NEW step, NEW m \in Nat, NEW n \in Nat, NEW g, NEW h,
           Prefix(v0, step, V, m, g), Prefix(v0, step, V, n, h)
    PROVE  \A i \in Nat : i <= m /\ i <= n => g[i] = h[i]
<1> DEFINE S == {i \in Nat : i <= m /\ i <= n => g[i] = h[i]}
<1>1. 0 \in S
    BY DEF Prefix
<1>2. ASSUME NEW i \in Nat, i \in S PROVE i + 1 \in S
    <2> SUFFICES ASSUME i + 1 <= m, i + 1 <= n PROVE g[i + 1] = h[i + 1]
        OBVIOUS
    <2>1. g[i] = h[i]
        BY <1>2
    <2>2. i \in 0..(m - 1) /\ i \in 0..(n - 1)
        OBVIOUS
    <2> QED BY <2>1, <2>2 DEF Prefix
<1> HIDE DEF S
<1>3. Nat \subseteq S
    BY <1>1, <1>2, SetInduction
<1> QED BY <1>3 DEF S

LEMMA Recursion ==
    ASSUME NEW V, NEW v0 \in V, NEW step \in Steps(V)
    PROVE  \E f : IsRecursive(V, v0, step, f)
<1> DEFINE G(n) == CHOOSE g : Prefix(v0, step, V, n, g)
           f == [n \in Nat |-> G(n)[n]]
<1>1. \A n \in Nat : Prefix(v0, step, V, n, G(n))
    BY PrefixExists
<1> HIDE DEF G
<1>2. f \in [Nat -> V] /\ f[0] = v0
    BY <1>1 DEF Prefix
<1>3. ASSUME NEW n \in Nat PROVE f[n + 1] = step[<<n, f[n]>>]
    <2>1. G(n + 1)[n + 1] = step[<<n, G(n + 1)[n]>>]
        BY <1>1 DEF Prefix
    <2>2. G(n + 1)[n] = G(n)[n]
        BY <1>1, PrefixUnique
    <2> QED BY <2>1, <2>2
<1> QED BY <1>2, <1>3 DEF IsRecursive

-----------------------------------------------------------------------------
(* Sequences: their elements, and whether they repeat any.                    *)

Elems(q) == {q[i] : i \in DOMAIN q}

Distinct(q) == \A i, j \in 1..Len(q) : q[i] = q[j] => i = j

LEMMA ElemsOf ==
    ASSUME NEW S, NEW q \in Seq(S)
    PROVE  /\ Elems(q) = {q[i] : i \in 1..Len(q)}
           /\ Elems(q) \subseteq S
BY DEF Elems

LEMMA EmptyElements == Elems(<<>>) = {} /\ Distinct(<<>>)
BY DEF Elems, Distinct

LEMMA AppendElements ==
    ASSUME NEW S, NEW q \in Seq(S), NEW x \in S
    PROVE  /\ Append(q, x) \in Seq(S)
           /\ Elems(Append(q, x)) = Elems(q) \cup {x}
           /\ Distinct(q) /\ x \notin Elems(q) => Distinct(Append(q, x))
<1> DEFINE r == Append(q, x)
<1>1. /\ r \in Seq(S) /\ Len(r) = Len(q) + 1 /\ Len(q) \in Nat
      /\ \A i \in 1..Len(q) : r[i] = q[i]
      /\ r[Len(q) + 1] = x
    BY AppendProperties
<1> HIDE DEF r
<1>2. Elems(r) = {r[i] : i \in 1..Len(r)} /\ Elems(q) = {q[i] : i \in 1..Len(q)}
    BY <1>1, ElemsOf
<1>3. Elems(r) = Elems(q) \cup {x}
    <2>1. ASSUME NEW y \in Elems(r) PROVE y \in Elems(q) \cup {x}
        <3>1. PICK i \in 1..Len(r) : y = r[i]
            BY <1>2
        <3>2. i \in 1..Len(q) \/ i = Len(q) + 1
            BY <1>1
        <3> QED BY <1>1, <1>2, <3>1, <3>2
    <2>2. ASSUME NEW y \in Elems(q) PROVE y \in Elems(r)
        <3>1. PICK i \in 1..Len(q) : y = q[i]
            BY <1>2
        <3>2. i \in 1..Len(r) /\ y = r[i]
            BY <1>1, <3>1
        <3> QED BY <1>2, <3>2
    <2>3. x \in Elems(r)
        <3>1. Len(q) + 1 \in 1..Len(r)
            BY <1>1
        <3> QED BY <1>1, <1>2, <3>1
    <2> QED BY <2>1, <2>2, <2>3
<1>4. ASSUME Distinct(q), x \notin Elems(q) PROVE Distinct(r)
    <2> SUFFICES ASSUME NEW i \in 1..Len(r), NEW j \in 1..Len(r), r[i] = r[j] PROVE i = j
        BY DEF Distinct
    <2>1. \A k \in 1..Len(q) : q[k] # x
        BY <1>2, <1>4
    <2>2. (i \in 1..Len(q) \/ i = Len(q) + 1) /\ (j \in 1..Len(q) \/ j = Len(q) + 1)
        BY <1>1
    <2> QED BY <1>1, <1>4, <2>1, <2>2 DEF Distinct
<1> QED BY <1>1, <1>3, <1>4 DEF r

LEMMA TailElements ==
    ASSUME NEW S, NEW q \in Seq(S), q # <<>>
    PROVE  /\ Head(q) \in S /\ Tail(q) \in Seq(S)
           /\ Elems(q) = {Head(q)} \cup Elems(Tail(q))
           /\ Distinct(q) => Distinct(Tail(q)) /\ Head(q) \notin Elems(Tail(q))
<1> DEFINE t == Tail(q)
<1>1. /\ Head(q) \in S /\ t \in Seq(S) /\ Len(q) \in Nat \ {0} /\ Len(t) = Len(q) - 1
      /\ \A i \in 1..Len(t) : t[i] = q[i + 1]
      /\ Head(q) = q[1]
    BY HeadTailProperties, EmptySeq
<1> HIDE DEF t
<1>2. Elems(t) = {t[i] : i \in 1..Len(t)} /\ Elems(q) = {q[i] : i \in 1..Len(q)}
    BY <1>1, ElemsOf
<1>3. ASSUME NEW y \in Elems(q) PROVE y = Head(q) \/ y \in Elems(t)
    <2>1. PICK i \in 1..Len(q) : y = q[i]
        BY <1>2
    <2>2. CASE i = 1
        BY <1>1, <2>1, <2>2
    <2>3. CASE i # 1
        <3>1. i - 1 \in 1..Len(t) /\ (i - 1) + 1 = i
            BY <1>1, <2>3
        <3>2. y = t[i - 1]
            BY <1>1, <2>1, <3>1
        <3> QED BY <1>2, <3>1, <3>2
    <2> QED BY <2>2, <2>3
<1>4. Head(q) \in Elems(q)
    <2>1. 1 \in 1..Len(q)
        BY <1>1
    <2> QED BY <1>1, <1>2, <2>1
<1>5. ASSUME NEW y \in Elems(t) PROVE y \in Elems(q)
    <2>1. PICK i \in 1..Len(t) : y = t[i]
        BY <1>2
    <2>2. i + 1 \in 1..Len(q) /\ y = q[i + 1]
        BY <1>1, <2>1
    <2> QED BY <1>2, <2>2
<1>6. ASSUME Distinct(q) PROVE Distinct(t) /\ Head(q) \notin Elems(t)
    <2>1. \A i \in 1..Len(t) : i + 1 \in 1..Len(q) /\ i + 1 # 1 /\ t[i] = q[i + 1]
        BY <1>1
    <2>2. Distinct(t)
        BY <1>6, <2>1 DEF Distinct
    <2>3. 1 \in 1..Len(q)
        BY <1>1
    <2> QED BY <1>1, <1>2, <1>6, <2>1, <2>2, <2>3 DEF Distinct
<1> QED BY <1>1, <1>3, <1>4, <1>5, <1>6 DEF t

\* A sequence without repetitions is as long as its elements are many.
LEMMA DistinctLength ==
    ASSUME NEW S, NEW q \in Seq(S), Distinct(q)
    PROVE  Len(q) = Cardinality(Elems(q))
<1>1. Len(q) \in Nat /\ q \in [1..Len(q) -> S] /\ DOMAIN q = 1..Len(q)
    BY LenProperties
<1>2. q \in [1..Len(q) -> Elems(q)]
    BY <1>1 DEF Elems
<1>3. q \in Injection(1..Len(q), Elems(q))
    BY <1>1, <1>2 DEF Injection, IsInjective, Distinct
<1>4. q \in Surjection(1..Len(q), Elems(q))
    BY <1>1, <1>2 DEF Surjection, Elems
<1>5. ExistsBijection(1..Len(q), Elems(q))
    BY <1>3, <1>4 DEF ExistsBijection, Bijection
<1> QED BY <1>1, <1>5, FS_CountingElements
=============================================================================
