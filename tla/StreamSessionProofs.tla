------------------------ MODULE StreamSessionProofs ------------------------
(***************************************************************************)
(* What StreamSession's connections guarantee for any number of tiles,       *)
(* entries, connections and faults.  The argument follows a connection's     *)
(* frames in one line, those it enqueued and those it still has in hand:     *)
(* each holds entries between the connection's start and its read position,  *)
(* frames of one tile are in the order of their entries, and the pump takes  *)
(* from the line's head (its own theorems are FramePumpProofs').             *)
(*                                                                           *)
(* The sums and sequences that frames are built with (windows in order,      *)
(* FlattenSeq, Max) need induction over the naturals, which is stated here    *)
(* for a set instead of a predicate: the set of the numbers for which the     *)
(* fact holds.                                                                *)
(***************************************************************************)
EXTENDS StreamSession, FiniteSetTheorems, SequenceTheorems, WellFoundedInduction, TLAPS

-----------------------------------------------------------------------------
\* Induction over the naturals, for a set instead of a predicate: the provers
\* can instantiate a set.

NatOrder == OpToRel(<, Nat)

LEMMA NatOrderWellFounded == IsWellFoundedOn(NatOrder, Nat)
    BY NatLessThanWellFounded DEF NatOrder

LEMMA Smallest ==
    ASSUME NEW T, T \subseteq Nat, T # {}
    PROVE  \E x \in T : \A y \in T : ~(y < x)
<1>1. \A R, S : IsWellFoundedOn(R, S) =>
        \A U : U \subseteq S /\ U # {} => \E x \in U : \A y \in U : <<y, x>> \notin R
    BY WFMin, Zenon
<1>2. \E x \in T : \A y \in T : <<y, x>> \notin NatOrder
    BY <1>1, NatOrderWellFounded, Zenon
<1>3. \A m, n \in Nat : m < n => <<m, n>> \in NatOrder
    BY DEF NatOrder, OpToRel
<1> QED
    BY <1>2, <1>3

LEMMA NatInduct ==
    ASSUME NEW S, 0 \in S, \A n \in Nat : n \in S => n + 1 \in S
    PROVE  \A n \in Nat : n \in S
<1> DEFINE T == Nat \ S
<1> SUFFICES ASSUME T # {} PROVE FALSE
    OBVIOUS
<1>1. PICK x \in T : \A y \in T : ~(y < x)
    <2>1. T \subseteq Nat
        OBVIOUS
    <2> HIDE DEF T
    <2> QED
        BY <2>1, Smallest
<1>2. x # 0 /\ x - 1 \in Nat /\ x - 1 < x
    OBVIOUS
<1>3. x - 1 \in S
    BY <1>1, <1>2
<1> QED
    BY <1>2, <1>3

\* The same up to a bound, from 1.
LEMMA UpTo ==
    ASSUME NEW N \in Nat, NEW S, 1 \in S, \A n \in 1 .. N - 1 : n \in S => n + 1 \in S
    PROVE  \A n \in 1 .. N : n \in S
<1> DEFINE U == {n \in Nat : n \in 1 .. N => n \in S}
<1>1. 0 \in U
    OBVIOUS
<1>2. ASSUME NEW n \in Nat, n \in U PROVE n + 1 \in U
    <2> SUFFICES ASSUME n + 1 \in 1 .. N PROVE n + 1 \in S
        OBVIOUS
    <2>1. CASE n = 0
        BY <2>1
    <2>2. CASE n # 0
        BY <1>2, <2>2
    <2> QED
        BY <2>1, <2>2
<1>3. \A n \in Nat : n \in U
    <2> HIDE DEF U
    <2> QED
        BY <1>1, <1>2, NatInduct
<1> QED
    BY <1>3

\* A bounded set of numbers has a largest member.
LEMMA MaxFacts ==
    ASSUME NEW S, S \subseteq Nat, S # {}, NEW n \in Nat, \A x \in S : x <= n
    PROVE  Max(S) \in S /\ \A x \in S : x <= Max(S)
<1> DEFINE U == {m \in Nat : \A x \in S : x <= m}
<1>1. PICK m \in U : \A k \in U : ~(k < m)
    <2>1. U \subseteq Nat /\ n \in U
        OBVIOUS
    <2> HIDE DEF U
    <2> QED
        BY <2>1, Smallest
<1>2. m \in S
    <2> SUFFICES ASSUME m \notin S PROVE FALSE
        OBVIOUS
    <2>1. \A x \in S : x < m /\ x \in Nat
        OBVIOUS
    <2>2. m \in Nat /\ m # 0
        <3>1. PICK x \in S : TRUE
            OBVIOUS
        <3> QED
            BY <2>1, <3>1
    <2>3. m - 1 \in Nat /\ \A x \in S : x <= m - 1
        BY <2>1, <2>2
    <2>4. m - 1 \in U /\ m - 1 < m
        BY <2>2, <2>3
    <2> QED
        BY <2>4, <1>1
<1>3. \E x \in S : \A y \in S : x >= y
    BY <1>2
<1> QED
    BY <1>3 DEF Max

-----------------------------------------------------------------------------
\* Sequences of sequences.

Pairwise(s, R) == \A i, j \in DOMAIN s : i < j => <<s[i], s[j]>> \in R

LEMMA Concatenation ==
    ASSUME NEW T, NEW s \in Seq(T), NEW t \in Seq(T)
    PROVE  /\ s \o t \in Seq(T) /\ ToSet(s \o t) = ToSet(s) \union ToSet(t)
           /\ \A R : /\ Pairwise(s, R) /\ Pairwise(t, R)
                     /\ \A a \in ToSet(s), b \in ToSet(t) : <<a, b>> \in R
                     => Pairwise(s \o t, R)
<1> DEFINE st == s \o t
<1>1. /\ st \in Seq(T) /\ Len(st) = Len(s) + Len(t)
      /\ \A i \in 1 .. Len(s) : st[i] = s[i]
      /\ \A i \in Len(s) + 1 .. Len(s) + Len(t) : st[i] = t[i - Len(s)]
    OBVIOUS
<1>2. DOMAIN st = 1 .. Len(s) + Len(t) /\ DOMAIN s = 1 .. Len(s) /\ DOMAIN t = 1 .. Len(t)
    BY <1>1
<1> HIDE DEF st
<1>3. \A i \in DOMAIN st : \/ i \in DOMAIN s /\ st[i] = s[i]
                           \/ i \notin DOMAIN s /\ i - Len(s) \in DOMAIN t /\ st[i] = t[i - Len(s)]
    BY <1>1, <1>2
<1>4. \A i \in DOMAIN s : i \in DOMAIN st /\ st[i] = s[i]
    BY <1>1, <1>2
<1>5. ASSUME NEW i \in DOMAIN t PROVE Len(s) + i \in DOMAIN st /\ st[Len(s) + i] = t[i]
    <2>1. Len(s) + i \in Len(s) + 1 .. Len(s) + Len(t) /\ (Len(s) + i) - Len(s) = i
        BY <1>2
    <2> QED
        BY <1>1, <1>2, <2>1
<1>6. ToSet(st) = ToSet(s) \union ToSet(t)
    BY <1>3, <1>4, <1>5 DEF ToSet
<1>7. ASSUME NEW R, Pairwise(s, R), Pairwise(t, R),
             \A a \in ToSet(s), b \in ToSet(t) : <<a, b>> \in R,
             NEW i \in DOMAIN st, NEW j \in DOMAIN st, i < j
      PROVE  <<st[i], st[j]>> \in R
    <2>1. CASE j \in DOMAIN s
        <3>1. i \in DOMAIN s
            BY <1>2, <1>7, <2>1
        <3> QED
            BY <1>4, <1>7, <2>1, <3>1 DEF Pairwise
    <2>2. CASE i \in DOMAIN s /\ j \notin DOMAIN s
        <3>1. st[i] \in ToSet(s) /\ st[j] \in ToSet(t)
            BY <1>3, <2>2 DEF ToSet
        <3> QED
            BY <1>7, <3>1
    <2>3. CASE i \notin DOMAIN s
        <3>1. j \notin DOMAIN s
            BY <1>2, <1>7, <2>3
        <3>2. /\ i - Len(s) \in DOMAIN t /\ st[i] = t[i - Len(s)]
              /\ j - Len(s) \in DOMAIN t /\ st[j] = t[j - Len(s)]
            BY <1>3, <2>3, <3>1
        <3>3. i - Len(s) < j - Len(s)
            BY <1>2, <1>7
        <3> QED
            BY <1>7, <3>2, <3>3 DEF Pairwise
    <2> QED
        BY <2>1, <2>2, <2>3
<1> QED
    BY <1>1, <1>6, <1>7 DEF st, Pairwise

\* FlattenSeq by its recursion: the concatenation of the first sequences.
LEMMA Flattening ==
    ASSUME NEW T, NEW seqs \in Seq(Seq(T)), Len(seqs) # 0
    PROVE  \E f : /\ FlattenSeq(seqs) = f[Len(seqs)]
                  /\ f[1] = seqs[1]
                  /\ \A i \in 1 .. Len(seqs) - 1 : f[i + 1] = f[i] \o seqs[i + 1]
<1> DEFINE N == Len(seqs)
<1> DEFINE Step(g, i) == IF i = 1 THEN seqs[i] ELSE g[i - 1] \o seqs[i]
<1> DEFINE Def(g) == g = [i \in 1 .. N |-> Step(g, i)]
<1> DEFINE f == CHOOSE g : Def(g)
<1>1. FlattenSeq(seqs) = f[Len(seqs)]
    BY DEF FlattenSeq
<1>2. N \in Nat /\ N # 0
    OBVIOUS
<1> HIDE DEF N
<1> DEFINE S == {k \in Nat : \E g : g = [i \in 1 .. k |-> Step(g, i)]}
<1>3. 1 \in S
    <2> DEFINE g == [i \in 1 .. 1 |-> seqs[1]]
    <2>1. g = [i \in 1 .. 1 |-> Step(g, i)]
        OBVIOUS
    <2> QED
        BY <2>1
<1>4. ASSUME NEW n \in 1 .. N - 1, n \in S PROVE n + 1 \in S
    <2>1. PICK g : g = [i \in 1 .. n |-> Step(g, i)]
        BY <1>4
    <2> DEFINE h == [i \in 1 .. n + 1 |-> IF i = n + 1 THEN g[n] \o seqs[n + 1] ELSE g[i]]
    <2>2. \A i \in 1 .. n : g[i] = Step(g, i)
        BY <2>1
    <2>3. \A i \in 1 .. n + 1 : h[i] = Step(h, i)
        <3> SUFFICES ASSUME NEW i \in 1 .. n + 1 PROVE h[i] = Step(h, i)
            OBVIOUS
        <3>1. CASE i = n + 1
            <4>1. n \in 1 .. n + 1 /\ n # n + 1 /\ i # 1 /\ i - 1 = n
                BY <3>1, <1>2
            <4>2. h[n] = g[n] /\ h[i] = g[n] \o seqs[i]
                BY <3>1, <4>1
            <4> QED
                BY <4>1, <4>2
        <3>2. CASE i # n + 1 /\ i # 1
            <4>1. i \in 1 .. n /\ i - 1 \in 1 .. n /\ i - 1 # n + 1
                BY <3>2, <1>2
            <4>2. g[i] = g[i - 1] \o seqs[i]
                BY <2>2, <3>2, <4>1
            <4>3. \A k \in 1 .. n : k \in 1 .. n + 1 /\ k # n + 1
                BY <1>2
            <4>4. h[i] = g[i] /\ h[i - 1] = g[i - 1]
                BY <4>1, <4>3
            <4> QED
                BY <3>2, <4>2, <4>4
        <3>3. CASE i # n + 1 /\ i = 1
            BY <2>2, <3>3, <1>2
        <3> QED
            BY <3>1, <3>2, <3>3
    <2>4. h = [i \in 1 .. n + 1 |-> Step(h, i)]
        BY <2>3
    <2>5. n + 1 \in Nat
        BY <1>2
    <2> HIDE DEF h
    <2> QED
        BY <2>4, <2>5
<1>5. N \in S
    <2>1. \A n \in 1 .. N - 1 : n \in S => n + 1 \in S
        BY <1>4
    <2> HIDE DEF S
    <2>2. \A n \in 1 .. N : n \in S
        BY <1>2, <1>3, <2>1, UpTo
    <2> QED
        BY <1>2, <2>2
<1>6. f = [i \in 1 .. N |-> Step(f, i)]
    <2>1. \E g : Def(g)
        BY <1>5
    <2>2. Def(f)
        BY <2>1
    <2> QED
        BY <2>2
<1> HIDE DEF f
<1>7. f[1] = seqs[1]
    BY <1>2, <1>6
<1>8. ASSUME NEW i \in 1 .. N - 1 PROVE f[i + 1] = f[i] \o seqs[i + 1]
    <2>1. i + 1 \in 1 .. N /\ i + 1 # 1 /\ (i + 1) - 1 = i
        BY <1>2
    <2>2. f[i + 1] = Step(f, i + 1)
        BY <1>6, <2>1
    <2> QED
        BY <2>1, <2>2
<1> QED
    BY <1>1, <1>7, <1>8 DEF N

\* What FlattenSeq holds, and in which order.
LEMMA FlattenFacts ==
    ASSUME NEW T, NEW seqs \in Seq(Seq(T)), Len(seqs) # 0, NEW R,
           \A i \in DOMAIN seqs : Pairwise(seqs[i], R),
           \A i, j \in DOMAIN seqs : i < j =>
              \A a \in ToSet(seqs[i]), b \in ToSet(seqs[j]) : <<a, b>> \in R
    PROVE  /\ FlattenSeq(seqs) \in Seq(T)
           /\ ToSet(FlattenSeq(seqs)) = UNION {ToSet(seqs[i]) : i \in DOMAIN seqs}
           /\ Pairwise(FlattenSeq(seqs), R)
<1>1. PICK f : /\ FlattenSeq(seqs) = f[Len(seqs)] /\ f[1] = seqs[1]
               /\ \A i \in 1 .. Len(seqs) - 1 : f[i + 1] = f[i] \o seqs[i + 1]
    BY Flattening
<1> DEFINE N == Len(seqs)
<1> DEFINE S == {n \in 1 .. N : /\ f[n] \in Seq(T) /\ Pairwise(f[n], R)
                                /\ ToSet(f[n]) = UNION {ToSet(seqs[i]) : i \in 1 .. n}}
<1>2. N \in Nat /\ N # 0 /\ DOMAIN seqs = 1 .. N /\ \A i \in 1 .. N : seqs[i] \in Seq(T)
    OBVIOUS
<1> HIDE DEF N
<1>3. 1 \in S
    BY <1>1, <1>2
<1>4. ASSUME NEW n \in 1 .. N - 1, n \in S PROVE n + 1 \in S
    <2>1. n + 1 \in 1 .. N /\ n \in 1 .. N /\ f[n + 1] = f[n] \o seqs[n + 1]
        <3>1. f[n + 1] = f[n] \o seqs[n + 1]
            BY <1>1 DEF N
        <3> QED
            BY <1>2, <3>1
    <2>2. /\ f[n] \in Seq(T) /\ Pairwise(f[n], R) /\ seqs[n + 1] \in Seq(T)
          /\ ToSet(f[n]) = UNION {ToSet(seqs[i]) : i \in 1 .. n}
        BY <1>2, <1>4, <2>1
    <2>3. \A a \in ToSet(f[n]), b \in ToSet(seqs[n + 1]) : <<a, b>> \in R
        <3> SUFFICES ASSUME NEW a \in ToSet(f[n]), NEW b \in ToSet(seqs[n + 1])
                     PROVE  <<a, b>> \in R
            OBVIOUS
        <3>1. PICK i \in 1 .. n : a \in ToSet(seqs[i])
            BY <2>2
        <3>2. i \in DOMAIN seqs /\ n + 1 \in DOMAIN seqs /\ i < n + 1
            BY <1>2, <2>1
        <3> QED
            BY <3>1, <3>2
    <2>4. /\ f[n + 1] \in Seq(T) /\ Pairwise(f[n + 1], R)
          /\ ToSet(f[n + 1]) = ToSet(f[n]) \union ToSet(seqs[n + 1])
        <3>1. Pairwise(seqs[n + 1], R)
            BY <1>2, <2>1
        <3> DEFINE t == seqs[n + 1]
        <3>2. f[n] \in Seq(T) /\ t \in Seq(T) /\ Pairwise(f[n], R) /\ Pairwise(t, R)
              /\ \A a \in ToSet(f[n]), b \in ToSet(t) : <<a, b>> \in R
            BY <2>2, <2>3, <3>1
        <3> HIDE DEF t
        <3>3. /\ f[n] \o t \in Seq(T)
              /\ ToSet(f[n] \o t) = ToSet(f[n]) \union ToSet(t)
              /\ Pairwise(f[n] \o t, R)
            BY <3>2, Concatenation
        <3> QED
            BY <2>1, <3>3 DEF t
    <2>5. 1 .. n + 1 = (1 .. n) \union {n + 1}
        BY <1>2
    <2>6. ToSet(f[n + 1]) = UNION {ToSet(seqs[i]) : i \in 1 .. n + 1}
        BY <2>2, <2>4, <2>5
    <2> QED
        BY <2>1, <2>4, <2>6
<1>5. N \in S
    <2>1. \A n \in 1 .. N - 1 : n \in S => n + 1 \in S
        BY <1>4
    <2> HIDE DEF S
    <2>2. \A n \in 1 .. N : n \in S
        BY <1>2, <1>3, <2>1, UpTo
    <2> QED
        BY <1>2, <2>2
<1> QED
    BY <1>1, <1>2, <1>5 DEF N

-----------------------------------------------------------------------------
\* Frames.

LEMMA DivFacts ==
    ASSUME NEW b \in Nat \ {0}, NEW x \in Nat
    PROVE  /\ x \div b \in Nat /\ b * (x \div b) <= x /\ x < b * (x \div b) + b
           /\ (x + b) \div b = x \div b + 1
    OBVIOUS

LEMMA DivMonotone ==
    ASSUME NEW b \in Nat \ {0}, NEW x \in Nat, NEW y \in Nat
    PROVE  /\ x <= y => x \div b <= y \div b
           /\ x \div b < y \div b => x < y
    OBVIOUS

\* Every number of a group is an entry: the first of group i.
LEMMA FirstOfGroup ==
    ASSUME NEW b \in Nat \ {0}, NEW i \in Nat
    PROVE  b * i \in Nat /\ (b * i) \div b = i
    OBVIOUS

\* A set of windows is numbered from its earliest to its latest.
LEMMA WindowFacts ==
    ASSUME NEW W, W \subseteq Nat, IsFiniteSet(W)
    PROVE  /\ Cardinality(W) \in Nat
           /\ \A i \in 1 .. Cardinality(W) : WindowAt(W, i) \in W
           /\ \A w \in W : \E i \in 1 .. Cardinality(W) : WindowAt(W, i) = w
           /\ \A i, j \in 1 .. Cardinality(W) : i < j => WindowAt(W, i) < WindowAt(W, j)
<1> DEFINE Below(w) == {v \in W : v < w}
<1> DEFINE n == Cardinality(W)
<1>1. n \in Nat /\ \A w \in W : IsFiniteSet(Below(w)) /\ Cardinality(Below(w)) \in Nat
    BY FS_CardinalityType, FS_Subset
<1>2. \A w \in W : Cardinality(Below(w)) < n
    <2> SUFFICES ASSUME NEW w \in W PROVE Cardinality(Below(w)) < n
        OBVIOUS
    <2>1. w \notin Below(w) /\ Below(w) \in SUBSET W
        OBVIOUS
    <2> HIDE DEF Below
    <2>2. Cardinality(Below(w)) <= n /\ Cardinality(Below(w)) # n
        BY <2>1, FS_Subset
    <2> QED
        BY <1>1, <2>2
<1>3. \A v, w \in W : v < w => Cardinality(Below(v)) < Cardinality(Below(w))
    <2> SUFFICES ASSUME NEW v \in W, NEW w \in W, v < w
                 PROVE  Cardinality(Below(v)) < Cardinality(Below(w))
        OBVIOUS
    <2>1. v \notin Below(v) /\ v \in Below(w) /\ Below(v) \in SUBSET Below(w)
        <3>1. \A u \in W : u < v => u < w
            OBVIOUS
        <3>2. v \in W /\ v \in Nat
            OBVIOUS
        <3>3. v \notin Below(v)
            BY <3>2
        <3>4. v \in Below(w)
            OBVIOUS
        <3>5. Below(v) \subseteq Below(w)
            BY <3>1
        <3> QED
            BY <3>3, <3>4, <3>5
    <2> HIDE DEF Below
    <2>2. /\ Cardinality(Below(v)) <= Cardinality(Below(w))
          /\ Cardinality(Below(v)) # Cardinality(Below(w))
        BY <1>1, <2>1, FS_Subset
    <2> QED
        BY <1>1, <2>2
<1> DEFINE rank == [w \in W |-> Cardinality(Below(w)) + 1]
<1> HIDE DEF Below
<1>4. \A v, w \in W : Cardinality(Below(v)) = Cardinality(Below(w)) => v = w
    BY <1>1, <1>3
<1>5. rank \in [W -> 1 .. n]
    BY <1>1, <1>2
<1>6. rank \in Injection(W, 1 .. n)
    BY <1>1, <1>4, <1>5 DEF Injection, IsInjective
<1>7. rank \in Surjection(W, 1 .. n)
    <2>1. IsFiniteSet(1 .. n) /\ Cardinality(1 .. n) = n
        BY <1>1, FS_Interval
    <2> HIDE DEF rank
    <2> QED
        BY <1>6, <2>1, FS_Injection
<1>8. ASSUME NEW i \in 1 .. n
      PROVE  WindowAt(W, i) \in W /\ Cardinality(Below(WindowAt(W, i))) = i - 1
    <2>1. PICK w \in W : rank[w] = i
        BY <1>7 DEF Surjection
    <2>2. Cardinality(Below(w)) = i - 1
        BY <1>1, <2>1
    <2> QED
        BY <2>2 DEF WindowAt, Below
<1>9. ASSUME NEW w \in W PROVE \E i \in 1 .. n : WindowAt(W, i) = w
    <2> DEFINE i == Cardinality(Below(w)) + 1
    <2>1. i \in 1 .. n /\ i - 1 = Cardinality(Below(w))
        BY <1>1, <1>2
    <2>2. WindowAt(W, i) = w
        BY <1>4, <1>8, <2>1
    <2> QED
        BY <2>1, <2>2
<1>10. ASSUME NEW i \in 1 .. n, NEW j \in 1 .. n, i < j
       PROVE  WindowAt(W, i) < WindowAt(W, j)
    <2> DEFINE v == WindowAt(W, i)
    <2> DEFINE w == WindowAt(W, j)
    <2>1. v \in W /\ w \in W /\ Cardinality(Below(v)) = i - 1 /\ Cardinality(Below(w)) = j - 1
        BY <1>8
    <2>2. v \in Nat /\ w \in Nat
        BY <2>1
    <2> HIDE DEF v, w
    <2>3. ~(w < v) /\ w # v
        BY <1>3, <1>10, <2>1
    <2>4. v < w
        BY <2>2, <2>3
    <2> QED
        BY <2>4 DEF v, w
<1> QED
    BY <1>1, <1>8, <1>9, <1>10

\* A frame of some entries carries the newest one's offset.
LEMMA FrameFacts ==
    ASSUME NEW t \in Tile, NEW E, NEW from \in Nat, NEW to \in Nat,
           E \subseteq from + 1 .. to, E # {}
    PROVE  /\ FrameOf(t, E) \in Frame /\ FrameOf(t, E).tile = t /\ FrameOf(t, E).entries = E
           /\ FrameOf(t, E).offset \in E /\ \A e \in E : e <= FrameOf(t, E).offset
<1>1. E \subseteq Nat /\ \A e \in E : e <= to
    OBVIOUS
<1>2. Max(E) \in E /\ \A e \in E : e <= Max(E)
    BY <1>1, MaxFacts
<1> QED
    BY <1>1, <1>2 DEF FrameOf, Frame

\* What the frames of one answer are: together they hold its entries lo + 1 to hi.
Batch(t, lo, hi, frames) ==
    /\ frames \in Seq(Frame)
    /\ \A f \in ToSet(frames) :
         /\ f.tile = t /\ f.entries # {} /\ f.entries \subseteq lo + 1 .. hi
         /\ f.offset \in f.entries /\ \A e \in f.entries : e <= f.offset
    /\ \A i, j \in DOMAIN frames : i < j => Before(frames[i], frames[j])
    /\ lo + 1 .. hi \subseteq UNION {f.entries : f \in ToSet(frames)}

\* buildEventFrameBatches cuts the entries into consecutive frames.
LEMMA EventBatch ==
    ASSUME streamMode = "event", NEW t \in Tile, NEW from \in Nat, NEW to \in Nat, from <= to
    PROVE  Batch(t, from, to, EventFrames(t, from, to))
<1> DEFINE b == BatchFrames
<1> DEFINE n == (to - from + b - 1) \div b
<1> DEFINE Group(i) == {e \in from + 1 .. to : (e - from - 1) \div b = i - 1}
<1> DEFINE frames == EventFrames(t, from, to)
<1>1. b \in Nat \ {0}
    BY SessionAssumption
<1>2. frames = [i \in 1 .. n |-> FrameOf(t, Group(i))]
    BY DEF EventFrames
<1> HIDE DEF b, n
<1>3. \A e \in from + 1 .. to : e - from - 1 \in Nat /\ (e - from - 1) \div b \in Nat
    BY <1>1, DivFacts
<1>4. n \in Nat
    <2>1. to - from + b - 1 \in Nat
        BY <1>1
    <2> QED
        BY <1>1, <2>1, DivFacts DEF n
<1>5. from < to => n = (to - from - 1) \div b + 1
    <2> SUFFICES ASSUME from < to PROVE n = (to - from - 1) \div b + 1
        OBVIOUS
    <2>1. to - from - 1 \in Nat /\ to - from + b - 1 = (to - from - 1) + b
        BY <1>1
    <2> QED
        BY <1>1, <2>1, DivFacts DEF n
<1>6. ASSUME NEW e \in from + 1 .. to
      PROVE  \E i \in 1 .. n : e \in Group(i)
    <2> DEFINE q == (e - from - 1) \div b
    <2>1. /\ from < to /\ e - from - 1 \in Nat /\ to - from - 1 \in Nat
          /\ e - from - 1 <= to - from - 1
        OBVIOUS
    <2>2. q \in Nat /\ q <= (to - from - 1) \div b /\ (to - from - 1) \div b \in Nat
        BY <1>1, <2>1, DivFacts, DivMonotone
    <2>3. q + 1 \in 1 .. n /\ (q + 1) - 1 = q
        BY <1>5, <2>1, <2>2
    <2>4. e \in Group(q + 1)
        BY <2>3
    <2> QED
        BY <2>3, <2>4
<1>7. ASSUME NEW i \in 1 .. n PROVE Group(i) # {} /\ Group(i) \subseteq from + 1 .. to
    <2>1. i - 1 \in Nat /\ b * (i - 1) \in Nat /\ (b * (i - 1)) \div b = i - 1
        BY <1>1, FirstOfGroup
    <2>2. from < to
        <3>1. CASE from = to
            <4>1. to - from + b - 1 = b - 1 /\ b - 1 \in Nat /\ b - 1 < b
                BY <1>1, <3>1
            <4>2. (b - 1) \div b = 0
                BY <1>1
            <4> QED
                BY <4>1, <4>2 DEF n
        <3> QED
            BY <3>1
    <2> DEFINE q == (to - from - 1) \div b
    <2>3. to - from - 1 \in Nat /\ q \in Nat /\ b * q \in Nat /\ b * q <= to - from - 1
        <3>1. to - from - 1 \in Nat
            BY <2>2
        <3>2. q \in Nat /\ b * q <= to - from - 1
            BY <1>1, <3>1, DivFacts
        <3> QED
            BY <1>1, <3>1, <3>2
    <2>4. n = q + 1
        BY <1>5, <2>2
    <2> HIDE DEF q
    <2>5. b * (i - 1) <= to - from - 1
        <3>1. i - 1 <= q
            BY <2>1, <2>3, <2>4
        <3>2. b * (i - 1) <= b * q
            BY <1>1, <2>1, <2>3, <3>1
        <3> QED
            BY <2>1, <2>3, <3>2
    <2> DEFINE e == from + 1 + b * (i - 1)
    <2>6. e \in from + 1 .. to /\ e - from - 1 = b * (i - 1)
        BY <2>1, <2>3, <2>5
    <2>7. e \in Group(i)
        BY <2>1, <2>6
    <2> QED
        BY <2>7
<1>8. ASSUME NEW i \in 1 .. n, NEW j \in 1 .. n, i < j, NEW d \in Group(i), NEW e \in Group(j)
      PROVE  d < e
    <2>1. /\ d - from - 1 \in Nat /\ e - from - 1 \in Nat /\ d \in Nat /\ e \in Nat
          /\ (d - from - 1) \div b < (e - from - 1) \div b
        BY <1>8
    <2>2. d - from - 1 < e - from - 1
        BY <1>1, <2>1, DivMonotone
    <2> QED
        BY <2>1, <2>2
<1> HIDE DEF Group, frames
<1>9. \A i \in 1 .. n : /\ frames[i] \in Frame /\ frames[i].tile = t /\ frames[i].entries = Group(i)
                        /\ frames[i].offset \in Group(i)
                        /\ \A e \in Group(i) : e <= frames[i].offset
    BY <1>2, <1>7, FrameFacts
<1>10. frames \in Seq(Frame) /\ DOMAIN frames = 1 .. n
    BY <1>2, <1>4, <1>9
<1>11. \A i, j \in DOMAIN frames : i < j => Before(frames[i], frames[j])
    BY <1>8, <1>9, <1>10 DEF Before, Aligned
<1>12. \A f \in ToSet(frames) :
         /\ f.tile = t /\ f.entries # {} /\ f.entries \subseteq from + 1 .. to
         /\ f.offset \in f.entries /\ \A e \in f.entries : e <= f.offset
    BY <1>7, <1>9, <1>10 DEF ToSet
<1>13. from + 1 .. to \subseteq UNION {f.entries : f \in ToSet(frames)}
    BY <1>6, <1>9, <1>10 DEF ToSet
<1> QED
    BY <1>10, <1>11, <1>12, <1>13 DEF Batch, frames

\* buildAggregateFrames collects the entries of each window.
LEMMA AggregateBatch ==
    ASSUME TypeOK, streamMode = "aggregate", NEW t \in Tile,
           NEW from \in Nat, NEW to \in Nat, from + 1 .. to \subseteq 1 .. MaxEntries[t]
    PROVE  Batch(t, from, to, AggregateFrames(t, from, to))
<1> DEFINE W == WindowsOf(t, from, to)
<1> DEFINE n == Cardinality(W)
<1> DEFINE Group(i) == {e \in from + 1 .. to : windowOf[t][e] = WindowAt(W, i)}
<1> DEFINE frames == AggregateFrames(t, from, to)
<1>1. frames = [i \in 1 .. n |-> FrameOf(t, Group(i))]
    BY DEF AggregateFrames, WindowFrame
<1>2. windowOf[t] \in [1 .. MaxEntries[t] -> Nat] /\ MaxEntries[t] \in Nat
    BY SessionAssumption DEF TypeOK
<1>3. W = {windowOf[t][e] : e \in from + 1 .. to}
    BY DEF WindowsOf
<1>4. W \subseteq Nat
    BY <1>2, <1>3
<1>5. IsFiniteSet(W)
    <2>1. IsFiniteSet(from + 1 .. to)
        BY FS_Interval
    <2> DEFINE f == [e \in from + 1 .. to |-> windowOf[t][e]]
    <2>2. f \in Surjection(from + 1 .. to, W)
        BY <1>3 DEF Surjection
    <2> QED
        BY <2>1, <2>2, FS_Surjection
<1> HIDE DEF W
<1>6. /\ n \in Nat /\ \A i \in 1 .. n : WindowAt(W, i) \in W
      /\ \A w \in W : \E i \in 1 .. n : WindowAt(W, i) = w
      /\ \A i, j \in 1 .. n : i < j => WindowAt(W, i) < WindowAt(W, j)
    BY <1>4, <1>5, WindowFacts
<1> HIDE DEF n
<1>7. \A e \in from + 1 .. to : \E i \in 1 .. n : e \in Group(i)
    BY <1>3, <1>6
<1>8. \A i \in 1 .. n : Group(i) # {} /\ Group(i) \subseteq from + 1 .. to
    BY <1>3, <1>6
<1>9. ASSUME NEW i \in 1 .. n, NEW j \in 1 .. n, i < j, NEW d \in Group(i), NEW e \in Group(j)
      PROVE  IF Aligned THEN d < e ELSE d # e
    <2>1. /\ windowOf[t][d] < windowOf[t][e] /\ d \in 1 .. MaxEntries[t] /\ e \in 1 .. MaxEntries[t]
          /\ windowOf[t][d] \in Nat /\ windowOf[t][e] \in Nat
        BY <1>2, <1>6, <1>9
    <2>2. d # e
        BY <2>1
    <2>3. ASSUME Aligned, ~(d < e) PROVE FALSE
        <3>1. e < d
            BY <2>1, <2>2, <2>3
        <3>2. windowOf[t][e] <= windowOf[t][d]
            BY <2>1, <2>3, <3>1 DEF Aligned, EventsInOrder
        <3> QED
            BY <2>1, <3>2
    <2> QED
        BY <2>2, <2>3
<1> HIDE DEF Group, frames
<1>10. \A i \in 1 .. n : /\ frames[i] \in Frame /\ frames[i].tile = t /\ frames[i].entries = Group(i)
                         /\ frames[i].offset \in Group(i)
                         /\ \A e \in Group(i) : e <= frames[i].offset
    BY <1>1, <1>8, FrameFacts
<1>11. frames \in Seq(Frame) /\ DOMAIN frames = 1 .. n
    BY <1>1, <1>6, <1>10
<1>12. \A i, j \in DOMAIN frames : i < j => Before(frames[i], frames[j])
    BY <1>9, <1>10, <1>11 DEF Before
<1>13. \A f \in ToSet(frames) :
         /\ f.tile = t /\ f.entries # {} /\ f.entries \subseteq from + 1 .. to
         /\ f.offset \in f.entries /\ \A e \in f.entries : e <= f.offset
    BY <1>8, <1>10, <1>11 DEF ToSet
<1>14. from + 1 .. to \subseteq UNION {f.entries : f \in ToSet(frames)}
    BY <1>7, <1>10, <1>11 DEF ToSet
<1> QED
    BY <1>11, <1>12, <1>13, <1>14 DEF Batch, frames

\* The pump's lemmas; what that module says of a backend under load is not used,
\* and its parameters and state have no part in these.
PP == INSTANCE FramePumpProofs WITH
          MaxPendingBytes <- 0, FrameBytes <- {1}, WaitingSoft <- 0, FramesSoft <- 0, BytesSoft <- 0,
          MaxShedPct <- 0, MaxBatch <- 0, MaxDropPct <- 0, StopOnFailure <- FALSE, ResetModes <- {},
          MaxStages <- 0, MaxResets <- 0, link <- 0, entry <- 0, left <- 0, sums <- 0,
          backlog <- 0, counter <- 0, base <- 0, gauge <- 0, generation <- 0, pc <- 0, stage <- 0,
          error <- 0, start <- 0, end <- 0, drained <- 0, verdict <- 0, best <- 0

-----------------------------------------------------------------------------
\* The pump's own theorems, for the pump of a session.

LEMMA PumpParameters == PP!PumpAssumption /\ PP!LoadAssumption
    BY SessionAssumption DEF PP!PumpAssumption, PP!LoadAssumption

\* The session's pump is the one these theorems are about.
LEMMA SamePump ==
    /\ Pump!Init <=> PP!Init
    /\ Pump!Enqueue(1) <=> PP!Enqueue(1)
    /\ Pump!OnDrain <=> PP!OnDrain
    /\ Pump!Close <=> PP!Close
<1> USE DEF Pump!Bytes, PP!Bytes, Pump!FoldSeq, PP!FoldSeq, Pump!FoldFunction, PP!FoldFunction,
            Pump!FoldFunctionOnSet, PP!FoldFunctionOnSet, Pump!MapThenFoldSet, PP!MapThenFoldSet,
            Pump!ToSet, PP!ToSet, Pump!First, PP!First, Pump!Rest, PP!Rest, Pump!Less, PP!Less,
            Pump!State, PP!State, Pump!PublishState, PP!PublishState, Pump!Flush, PP!Flush
<1>1. Pump!Init <=> PP!Init
    BY DEF Pump!Init, PP!Init
<1>2. Pump!OnDrain <=> PP!OnDrain
    BY DEF Pump!OnDrain, PP!OnDrain
<1>3. Pump!Close <=> PP!Close
    BY DEF Pump!Close, PP!Close
<1>4. Pump!Enqueue(1) <=> PP!Enqueue(1)
    BY DEF Pump!Enqueue, PP!Enqueue, Pump!Refuse, PP!Refuse, Pump!TooBig, PP!TooBig,
           Pump!DropOversized, PP!DropOversized, Pump!Push, PP!Push, Pump!MakesRoom, PP!MakesRoom,
           Pump!HasRoom, PP!HasRoom, Pump!DropOldest, PP!DropOldest, Pump!BytesAfter, PP!BytesAfter
<1> QED
    BY <1>1, <1>2, <1>3, <1>4

LEMMA SameInvariant == (Pump!IInv <=> PP!IInv) /\ (Pump!IInv' <=> PP!IInv')
    BY DEF Pump!IInv, PP!IInv, Pump!TypeOK, PP!TypeOK, Pump!FramesBounded, PP!FramesBounded,
           Pump!OneFate, PP!OneFate, Pump!InOrder, PP!InOrder, Pump!DropsOldest, PP!DropsOldest,
           Pump!NoStall, PP!NoStall, Pump!Increasing, PP!Increasing, Pump!Ids, PP!Ids,
           Pump!ToSet, PP!ToSet, Pump!TooBig, PP!TooBig, Pump!Frame, PP!Frame

LEMMA PumpInit == ASSUME Pump!Init PROVE Pump!IInv
    BY PumpParameters, SamePump, SameInvariant, PP!InitStep

\* The pump of a new connection.
LEMMA PumpEmpty ==
    ASSUME queue' = <<>>, waitingDrain' = FALSE, closed' = FALSE, offered' = 0,
           sent' = <<>>, dropped' = {}, refused' = {}
    PROVE  Pump!IInv'
<1>1. /\ Pump!ToSet(queue') = {} /\ Pump!ToSet(sent') = {} /\ DOMAIN queue' = {} /\ DOMAIN sent' = {}
      /\ Len(queue') = 0 /\ 1 .. offered' = {} /\ Pump!Ids({}) = {}
    BY DEF Pump!ToSet, Pump!Ids
<1>2. Pump!TypeOK'
  <2>1. \A S : <<>> \in Seq(S)
    OBVIOUS
  <2>2. 0 \in 0 .. MaxOffers
    BY SessionAssumption
  <2> QED
    BY <2>1, <2>2 DEF Pump!TypeOK
<1>3. Pump!FramesBounded' /\ Pump!NoStall' /\ Pump!DropsOldest'
    BY <1>1, SessionAssumption DEF Pump!FramesBounded, Pump!NoStall, Pump!DropsOldest
<1>4. Pump!OneFate'
    BY <1>1 DEF Pump!OneFate, Pump!Ids, Pump!ToSet
<1>5. Pump!InOrder'
    BY <1>1 DEF Pump!InOrder, Pump!Increasing
<1> QED
    BY <1>2, <1>3, <1>4, <1>5 DEF Pump!IInv

PumpFrame == [id : 1 .. MaxOffers, bytes : {1}]

\* What a session uses of the pump's invariant.
Fates ==
    /\ sent \in Seq(PumpFrame) /\ queue \in Seq(PumpFrame) /\ dropped \subseteq PumpFrame
    /\ offered \in Nat
    /\ \A f \in ToSet(sent) \union ToSet(queue) \union dropped : f.id \in 1 .. offered
    /\ \A i, j \in DOMAIN sent : i < j => sent[i].id < sent[j].id
    /\ \A f \in ToSet(sent), g \in ToSet(queue) : f.id < g.id
    /\ \A f \in dropped, g \in ToSet(sent) \union ToSet(queue) : f.id # g.id

LEMMA PumpFates == (Pump!IInv => Fates) /\ (Pump!IInv' => Fates')
<1>1. ASSUME Pump!IInv PROVE Fates
  <2>1. /\ sent \in Seq(PumpFrame) /\ queue \in Seq(PumpFrame) /\ dropped \subseteq PumpFrame
        /\ offered \in Nat
    BY <1>1, SessionAssumption DEF Pump!IInv, Pump!TypeOK, Pump!Frame, PumpFrame
  <2>2. \A f \in ToSet(sent) \union ToSet(queue) \union dropped : f.id \in 1 .. offered
    BY <1>1 DEF Pump!IInv, Pump!OneFate, Pump!Ids, Pump!ToSet, ToSet
  <2>3. /\ \A i, j \in DOMAIN sent : i < j => sent[i].id < sent[j].id
        /\ \A f \in ToSet(sent), g \in ToSet(queue) : f.id < g.id
    BY <1>1 DEF Pump!IInv, Pump!InOrder, Pump!Increasing, Pump!ToSet, ToSet
  <2>4. \A f \in dropped, g \in ToSet(sent) \union ToSet(queue) : f.id # g.id
    BY <1>1 DEF Pump!IInv, Pump!OneFate, Pump!Ids, Pump!ToSet, ToSet
  <2> QED
    BY <2>1, <2>2, <2>3, <2>4 DEF Fates
<1>2. ASSUME Pump!IInv' PROVE Fates'
  <2>1. /\ sent' \in Seq(PumpFrame) /\ queue' \in Seq(PumpFrame) /\ dropped' \subseteq PumpFrame
        /\ offered' \in Nat
    BY <1>2, SessionAssumption DEF Pump!IInv, Pump!TypeOK, Pump!Frame, PumpFrame
  <2>2. \A f \in ToSet(sent') \union ToSet(queue') \union dropped' : f.id \in 1 .. offered'
    BY <1>2 DEF Pump!IInv, Pump!OneFate, Pump!Ids, Pump!ToSet, ToSet
  <2>3. /\ \A i, j \in DOMAIN sent' : i < j => sent'[i].id < sent'[j].id
        /\ \A f \in ToSet(sent'), g \in ToSet(queue') : f.id < g.id
    BY <1>2 DEF Pump!IInv, Pump!InOrder, Pump!Increasing, Pump!ToSet, ToSet
  <2>4. \A f \in dropped', g \in ToSet(sent') \union ToSet(queue') : f.id # g.id
    BY <1>2 DEF Pump!IInv, Pump!OneFate, Pump!Ids, Pump!ToSet, ToSet
  <2> QED
    BY <2>1, <2>2, <2>3, <2>4 DEF Fates, ToSet, PumpFrame
<1> QED
    BY <1>1, <1>2

LEMMA PumpEnqueue ==
    ASSUME Pump!IInv, ~closed, Pump!Enqueue(1)
    PROVE  /\ Pump!IInv' /\ offered' = offered + 1 /\ closed' = closed
           /\ ToSet(sent) \subseteq ToSet(sent') /\ dropped \subseteq dropped'
           /\ ToSet(sent') \union ToSet(queue') \union dropped'
                = ToSet(sent) \union ToSet(queue) \union dropped
                  \union {[id |-> offered + 1, bytes |-> 1]}
<1>1. PP!IInv /\ PP!Enqueue(1) /\ 1 \in {1}
    BY SamePump, SameInvariant
<1>2. ~PP!TooBig(1)
    BY DEF PP!TooBig
<1>3. /\ PP!IInv' /\ offered' = offered + 1 /\ closed' = closed
      /\ PP!ToSet(sent) \subseteq PP!ToSet(sent') /\ dropped \subseteq dropped'
      /\ PP!ToSet(sent') \union PP!ToSet(queue') \union dropped'
           = PP!ToSet(sent) \union PP!ToSet(queue) \union dropped
             \union {[id |-> offered + 1, bytes |-> 1]}
    BY <1>1, <1>2, PumpParameters, PP!PushStep
<1> QED
    BY <1>3, SameInvariant DEF PP!ToSet, ToSet

LEMMA PumpDrain ==
    ASSUME Pump!IInv, Pump!OnDrain
    PROVE  /\ Pump!IInv' /\ UNCHANGED <<closed, offered, dropped>>
           /\ ToSet(sent) \subseteq ToSet(sent')
           /\ ToSet(sent') \union ToSet(queue') = ToSet(sent) \union ToSet(queue)
<1>1. PP!IInv /\ PP!OnDrain
    BY SamePump, SameInvariant
<1>2. /\ PP!IInv' /\ UNCHANGED <<closed, offered, dropped, refused>>
      /\ PP!ToSet(sent) \subseteq PP!ToSet(sent')
      /\ PP!ToSet(sent') \union PP!ToSet(queue') = PP!ToSet(sent) \union PP!ToSet(queue)
    BY <1>1, PumpParameters, PP!DrainStep
<1> QED
    BY <1>2, SameInvariant DEF PP!ToSet, ToSet

LEMMA PumpClose ==
    ASSUME Pump!IInv, Pump!Close
    PROVE  Pump!IInv' /\ queue' = <<>> /\ UNCHANGED <<offered, sent, dropped>>
<1>1. PP!IInv /\ PP!Close
    BY SamePump, SameInvariant
<1>2. PP!IInv'
    BY <1>1, PumpParameters, PP!CloseStep
<1> QED
    BY <1>2, SameInvariant DEF Pump!Close

-----------------------------------------------------------------------------
\* The frames of a connection.

\* The frames that were written, by the pump's numbers.
LEMMA SentIs ==
    /\ \A t, f : f \in SentFrames(t) <=> \E p \in ToSet(sent) : f = content[p.id] /\ f.tile = t
    /\ \A t, f : f \in SentFrames(t)' <=> \E p \in ToSet(sent') : f = content'[p.id] /\ f.tile = t
<1>1. \A t, f : f \in SentFrames(t) <=> \E p \in ToSet(sent) : f = content[p.id] /\ f.tile = t
    BY DEF SentFrames, ToSet
<1>2. \A t, f : f \in SentFrames(t)' <=> \E p \in ToSet(sent') : f = content'[p.id] /\ f.tile = t
    BY DEF SentFrames, ToSet
<1> QED
    BY <1>1, <1>2

LEMMA LinePlaces ==
    ASSUME TypeOK
    PROVE  /\ Line \in Seq(Frame)
           /\ DOMAIN Line = 1 .. Len(content) + Len(todo)
           /\ \A i \in 1 .. Len(content) : Line[i] = content[i]
           /\ \A i \in 1 .. Len(todo) : Line[Len(content) + i] = todo[i]
<1>1. content \in Seq(Frame) /\ todo \in Seq(Frame)
    BY DEF TypeOK
<1> QED
    BY <1>1 DEF Line

\* What is known of the frames that were handed to the pump, and of those that
\* are still to be.
LEMMA LineFacts ==
    ASSUME TypeOK, Pump!IInv, Numbered, FramesInLine
    PROVE  /\ Fates
           /\ \A p \in ToSet(sent) \union ToSet(queue) \union dropped :
                /\ p.id \in 1 .. Len(content) /\ content[p.id] \in Frame
                /\ GoodFrame(content[p.id])
           /\ \A f \in ToSet(todo) : f \in Frame /\ GoodFrame(f)
           /\ \A p \in ToSet(sent), q \in ToSet(sent) \union ToSet(queue) :
                p.id < q.id /\ content[p.id].tile = content[q.id].tile =>
                    Before(content[p.id], content[q.id])
           /\ \A p \in ToSet(sent) \union ToSet(queue), g \in ToSet(todo) :
                content[p.id].tile = g.tile => Before(content[p.id], g)
<1>1. /\ Fates /\ offered = Len(content) /\ content \in Seq(Frame) /\ todo \in Seq(Frame)
      /\ Len(content) \in Nat /\ Len(todo) \in Nat
    BY PumpFates DEF Numbered, TypeOK
<1>2. /\ Line \in Seq(Frame)
      /\ DOMAIN Line = 1 .. Len(content) + Len(todo)
      /\ \A i \in 1 .. Len(content) : Line[i] = content[i]
      /\ \A i \in 1 .. Len(todo) : Line[Len(content) + i] = todo[i]
    BY LinePlaces
<1>3. /\ \A i \in 1 .. Len(content) + Len(todo) : Line[i] \in Frame /\ GoodFrame(Line[i])
      /\ \A i, j \in 1 .. Len(content) + Len(todo) :
           i < j /\ Line[i].tile = Line[j].tile => Before(Line[i], Line[j])
  <2>1. \A i \in DOMAIN Line : Line[i] \in Frame
    BY <1>2
  <2>2. /\ \A i \in DOMAIN Line : GoodFrame(Line[i])
        /\ \A i, j \in DOMAIN Line :
             i < j /\ Line[i].tile = Line[j].tile => Before(Line[i], Line[j])
    BY DEF FramesInLine, Ordered
  <2> QED
    BY <1>2, <2>1, <2>2
<1>4. \A p \in ToSet(sent) \union ToSet(queue) \union dropped : p.id \in 1 .. Len(content)
    BY <1>1 DEF Fates
<1>5. \A f \in ToSet(todo) : \E i \in 1 .. Len(todo) : f = todo[i]
    BY <1>1 DEF ToSet
<1>6. \A i \in 1 .. Len(content) :
        /\ content[i] \in Frame /\ GoodFrame(content[i])
        /\ i \in 1 .. Len(content) + Len(todo) /\ Line[i] = content[i]
  <2> TAKE i \in 1 .. Len(content)
  <2>1. i \in 1 .. Len(content) + Len(todo)
    BY <1>1
  <2> QED
    BY <2>1, <1>2, <1>3
<1>7. \A i \in 1 .. Len(todo) :
        /\ todo[i] \in Frame /\ GoodFrame(todo[i])
        /\ Len(content) + i \in 1 .. Len(content) + Len(todo) /\ Line[Len(content) + i] = todo[i]
        /\ \A j \in 1 .. Len(content) : j < Len(content) + i
  <2> TAKE i \in 1 .. Len(todo)
  <2>1. /\ Len(content) + i \in 1 .. Len(content) + Len(todo)
        /\ \A j \in 1 .. Len(content) : j < Len(content) + i
    BY <1>1
  <2> QED
    BY <2>1, <1>2, <1>3
<1>8. \A p \in ToSet(sent), q \in ToSet(sent) \union ToSet(queue) :
        p.id < q.id /\ content[p.id].tile = content[q.id].tile =>
            Before(content[p.id], content[q.id])
    BY <1>3, <1>4, <1>6
<1>9. \A p \in ToSet(sent) \union ToSet(queue), g \in ToSet(todo) :
        content[p.id].tile = g.tile => Before(content[p.id], g)
  <2> TAKE p \in ToSet(sent) \union ToSet(queue), g \in ToSet(todo)
  <2> HAVE content[p.id].tile = g.tile
  <2>1. p.id \in 1 .. Len(content) /\ \E i \in 1 .. Len(todo) : g = todo[i]
    BY <1>4, <1>5
  <2>2. PICK i \in 1 .. Len(todo) : g = todo[i]
    BY <2>1
  <2>3. /\ p.id \in 1 .. Len(content) + Len(todo) /\ Line[p.id] = content[p.id]
        /\ Len(content) + i \in 1 .. Len(content) + Len(todo) /\ Line[Len(content) + i] = g
        /\ p.id < Len(content) + i
    BY <1>6, <1>7, <2>1, <2>2
  <2> QED
    BY <1>3, <2>3
<1> QED
    BY <1>1, <1>4, <1>5, <1>6, <1>7, <1>8, <1>9

\* A frame that waits comes after every frame of its tile that was written.
LEMMA WaitingAfterSent ==
    ASSUME TypeOK, Pump!IInv, Numbered, FramesInLine
    PROVE  \A t \in Tile : \A e : <<t, e>> \in Waiting =>
             /\ e \in Nat
             /\ \A f \in SentFrames(t) : \E g : f.tile = t /\ e \in g.entries /\ Before(f, g)
<1> USE LineFacts, SentIs
<1> TAKE t \in Tile
<1> TAKE e
<1> HAVE <<t, e>> \in Waiting
<1>1. PICK g \in {content[q.id] : q \in ToSet(queue)} \union ToSet(todo) : g.tile = t /\ e \in g.entries
    BY DEF Waiting, Entries
<1>2. g \in Frame
    BY <1>1
<1>3. ASSUME NEW f \in SentFrames(t)
      PROVE  f.tile = t /\ Before(f, g)
  <2>1. PICK p \in ToSet(sent) : f = content[p.id] /\ f.tile = t
    BY SentIs
  <2>2. CASE g \in ToSet(todo)
    BY <2>1, <2>2, <1>1
  <2>3. CASE \E q \in ToSet(queue) : g = content[q.id]
    <3>1. PICK q \in ToSet(queue) : g = content[q.id]
        BY <2>3
    <3>2. p.id < q.id
        BY DEF Fates
    <3> QED
        BY <3>1, <3>2, <2>1, <1>1
  <2> QED
    BY <2>2, <2>3, <1>1
<1> QED
    BY <1>1, <1>2, <1>3 DEF Frame

-----------------------------------------------------------------------------
\* The cursor.

\* The frames written for a tile lie between the connection's start and its
\* position, so none is written for a tile that still reads from "$".
LEMMA SentGood ==
    ASSUME TypeOK, Pump!IInv, Numbered, FramesInLine
    PROVE  \A t \in Tile : \A f \in SentFrames(t) :
             /\ f \in Frame /\ f.tile = t /\ GoodFrame(f)
             /\ f.offset \in Nat /\ base[t] < f.offset /\ lastIds[t] # Live /\ f.offset <= lastIds[t]
             /\ f.offset \in f.entries
             /\ \A e \in f.entries : e \in Nat /\ base[t] < e /\ e <= f.offset
<1> TAKE t \in Tile
<1> TAKE f \in SentFrames(t)
<1>1. f \in Frame /\ f.tile = t /\ GoodFrame(f)
    BY SentIs, LineFacts
<1>2. base[t] \in Nat /\ lastIds[t] \in Nat \union {Live}
    BY DEF TypeOK
<1>3. /\ lastIds[t] # Live /\ f.entries \subseteq base[t] + 1 .. lastIds[t]
      /\ f.offset \in f.entries /\ \A e \in f.entries : e <= f.offset
    BY <1>1 DEF GoodFrame
<1> QED
    BY <1>1, <1>2, <1>3 DEF Frame

\* flush stores the newest offset that was written, if there is one.
LEMMA FlushedFacts ==
    ASSUME TypeOK, Pump!IInv, Numbered, FramesInLine
    PROVE  /\ Flushed \in [Tile -> Nat]
           /\ ~UseCursor => Flushed = stored
           /\ UseCursor => \A t \in Tile :
                \/ Flushed[t] = stored[t] /\ SentFrames(t) = {}
                \/ \E f \in SentFrames(t) :
                      Flushed[t] = f.offset /\ \A g \in SentFrames(t) : g.offset <= f.offset
<1>1. ASSUME NEW t \in Tile
      PROVE  /\ Marked(t) \in Nat
             /\ \/ Marked(t) = 0 /\ SentFrames(t) = {}
                \/ \E f \in SentFrames(t) :
                      /\ Marked(t) = f.offset /\ f.offset > 0
                      /\ \A g \in SentFrames(t) : g.offset <= f.offset
  <2> DEFINE S == {f.offset : f \in SentFrames(t)} \union {0}
  <2>1. Marked(t) = Max(S)
    <3>1. {content[f.id].offset : f \in {g \in ToSet(sent) : content[g.id].tile = t}}
            = {f.offset : f \in SentFrames(t)}
        BY SentIs
    <3> QED
        BY <3>1 DEF Marked
  <2>2. lastIds[t] \in Nat \union {Live} /\ base[t] \in Nat
    BY DEF TypeOK
  <2>3. \A f \in SentFrames(t) : /\ f.offset \in Nat /\ 0 < f.offset
                                 /\ lastIds[t] # Live /\ f.offset <= lastIds[t]
    BY SentGood, <2>2
  <2>4. \E n \in Nat : \A x \in S : x <= n
    <3>1. CASE lastIds[t] = Live
        BY <2>3, <3>1
    <3>2. CASE lastIds[t] # Live
        BY <2>2, <2>3, <3>2
    <3> QED
        BY <3>1, <3>2
  <2>5. S \subseteq Nat /\ S # {}
    BY <2>3
  <2>6. \A f \in SentFrames(t) : f.offset \in S
    OBVIOUS
  <2>7. \A x \in S : x = 0 \/ \E f \in SentFrames(t) : x = f.offset
    OBVIOUS
  <2> HIDE DEF S
  <2>8. Max(S) \in S /\ \A x \in S : x <= Max(S)
    BY <2>4, <2>5, MaxFacts
  <2>9. Marked(t) \in Nat
    BY <2>1, <2>5, <2>8
  <2>10. CASE SentFrames(t) = {}
    BY <2>1, <2>7, <2>8, <2>9, <2>10
  <2>11. CASE SentFrames(t) # {}
    <3>1. PICK g \in SentFrames(t) : TRUE
        BY <2>11
    <3>2. Marked(t) # 0
        BY <2>1, <2>3, <2>6, <2>8, <2>9, <3>1
    <3>3. PICK f \in SentFrames(t) : Marked(t) = f.offset
        BY <2>1, <2>7, <2>8, <3>2
    <3> QED
        BY <2>1, <2>3, <2>6, <2>8, <2>9, <3>3
  <2> QED
    BY <2>9, <2>10, <2>11
<1>2. stored \in [Tile -> Nat]
    BY DEF TypeOK
<1>3. Flushed \in [Tile -> Nat]
    BY <1>1, <1>2 DEF Flushed
<1>4. ASSUME ~UseCursor PROVE Flushed = stored
    BY <1>2, <1>4 DEF Flushed
<1>5. ASSUME UseCursor, NEW t \in Tile
      PROVE  \/ Flushed[t] = stored[t] /\ SentFrames(t) = {}
             \/ \E f \in SentFrames(t) :
                   Flushed[t] = f.offset /\ \A g \in SentFrames(t) : g.offset <= f.offset
  <2>1. Flushed[t] = IF Marked(t) # 0 THEN Marked(t) ELSE stored[t]
    BY <1>5 DEF Flushed
  <2> QED
    BY <1>1, <2>1
<1> QED
    BY <1>3, <1>4, <1>5

\* What a flush leaves in the cursor is as truthful as what was there.
LEMMA FlushStep ==
    ASSUME IInv, phase # "gone"
    PROVE  /\ offset = 0 /\ Aligned =>
                \A t \in Tile : \A e \in 1 .. Flushed[t] : <<t, e>> \in got \union lost
           /\ UseCursor => \A t \in Tile :
                Flushed[t] <= base[t] \/ \E f \in SentFrames(t) : Flushed[t] = f.offset
           /\ UseCursor /\ faults = 0 /\ Aligned =>
                \A t \in Tile, e \in Nat : <<t, e>> \in got => e <= Flushed[t]
<1> USE DEF IInv
<1>1. /\ Flushed \in [Tile -> Nat]
      /\ ~UseCursor => Flushed = stored
      /\ UseCursor => \A t \in Tile :
           \/ Flushed[t] = stored[t] /\ SentFrames(t) = {}
           \/ \E f \in SentFrames(t) :
                 Flushed[t] = f.offset /\ \A g \in SentFrames(t) : g.offset <= f.offset
    BY FlushedFacts
<1>2. /\ stored \in [Tile -> Nat] /\ base \in [Tile -> Nat] /\ appended \in [Tile -> Nat]
      /\ lastIds \in [Tile -> Nat \union {Live}]
    BY DEF TypeOK
<1>3. \A t \in Tile : \A f \in SentFrames(t) :
        /\ f.offset \in Nat /\ base[t] < f.offset /\ lastIds[t] # Live /\ f.offset <= lastIds[t]
        /\ f.offset \in f.entries
        /\ \A e \in f.entries : e \in Nat /\ base[t] < e /\ e <= f.offset
    BY SentGood
<1>4. ASSUME offset = 0, Aligned, NEW t \in Tile, NEW e \in 1 .. Flushed[t]
      PROVE  <<t, e>> \in got \union lost
  <2>1. CASE Flushed[t] = stored[t]
    BY <1>4, <2>1 DEF CursorTruthful, Aligned
  <2>2. CASE \E f \in SentFrames(t) : Flushed[t] = f.offset
    <3>1. PICK f \in SentFrames(t) : Flushed[t] = f.offset
        BY <2>2
    <3>2. CASE e <= base[t]
        BY <1>2, <1>4, <3>2 DEF StartTruthful
    <3>3. CASE ~(e <= base[t])
      <4>1. e \in Nat /\ e <= f.offset /\ lastIds[t] # Live /\ base[t] < e /\ e <= lastIds[t]
        BY <1>1, <1>2, <1>3, <1>4, <3>1, <3>3
      <4>2. lastIds[t] <= appended[t] /\ lastIds[t] \in Nat
        BY <1>2, <4>1 DEF Positions
      <4>3. e \in base[t] + 1 .. appended[t] /\ ~(e > lastIds[t])
        BY <1>2, <4>1, <4>2
      <4>4. ~Ahead(t, e)
        BY <4>1, <4>3 DEF Ahead
      <4>5. Covered
        BY <1>4 DEF NothingSkipped, Live
      <4>6. <<t, e>> \in got \union lost \union Waiting
        BY <4>3, <4>4, <4>5 DEF Covered
      <4>7. ASSUME <<t, e>> \in Waiting PROVE FALSE
        <5>1. PICK g : e \in g.entries /\ Before(f, g)
            BY <4>7, WaitingAfterSent
        <5>2. f.offset < e
            BY <1>3, <1>4, <5>1 DEF Before
        <5> QED
            BY <1>3, <4>1, <5>2
      <4> QED
        BY <4>6, <4>7
    <3> QED
        BY <3>2, <3>3
  <2> QED
    BY <1>1, <2>1, <2>2
<1>5. ASSUME UseCursor, NEW t \in Tile
      PROVE  Flushed[t] <= base[t] \/ \E f \in SentFrames(t) : Flushed[t] = f.offset
    BY <1>1, <1>5 DEF CursorFromSent
<1>6. ASSUME UseCursor, faults = 0, Aligned, NEW t \in Tile, NEW e \in Nat, <<t, e>> \in got
      PROVE  e <= Flushed[t]
  <2>1. e <= stored[t] \/ \E f \in SentFrames(t) : e \in f.entries
    BY <1>6 DEF GotBehind
  <2>2. stored[t] <= base[t] \/ \E f \in SentFrames(t) : stored[t] = f.offset
    BY <1>6 DEF CursorFromSent
  <2>3. CASE SentFrames(t) = {} /\ Flushed[t] = stored[t]
    BY <2>1, <2>3
  <2>4. CASE \E f \in SentFrames(t) :
                Flushed[t] = f.offset /\ \A g \in SentFrames(t) : g.offset <= f.offset
    <3>1. PICK f \in SentFrames(t) :
                Flushed[t] = f.offset /\ \A g \in SentFrames(t) : g.offset <= f.offset
        BY <2>4
    <3>2. f.offset \in Nat /\ base[t] < f.offset /\ stored[t] \in Nat /\ base[t] \in Nat
        BY <1>2, <1>3
    <3>3. stored[t] <= f.offset
        BY <1>3, <2>2, <3>1, <3>2
    <3>4. \A g \in SentFrames(t) : g.offset \in Nat /\ \A d \in g.entries : d \in Nat /\ d <= g.offset
        BY <1>3
    <3> QED
        BY <2>1, <3>1, <3>2, <3>3, <3>4
  <2> QED
    BY <1>1, <1>6, <2>3, <2>4
<1> QED
    BY <1>4, <1>5, <1>6

-----------------------------------------------------------------------------
\* Frames on their way.

\* A frame that came out of the answer into the pump, if the step has one.
HandedOver(new) ==
    /\ \A p \in new : p.id = Len(content) + 1 /\ content'[p.id] \in ToSet(todo)
    /\ \A f \in ToSet(todo) : f \in ToSet(todo') \/ \E p \in new : content'[p.id] = f

\* Whatever the pump does in a step, the frames that wait stay in their order,
\* or are recorded as written or lost; those written come after all of their
\* tile that were written before.
LEMMA MoveFacts ==
    ASSUME TypeOK, Pump!IInv, Pump!IInv', Numbered, FramesInLine, Recorded,
           \A i \in 1 .. Len(content) : content'[i] = content[i],
           ToSet(sent) \subseteq ToSet(sent'), dropped \subseteq dropped', NEW new,
           ToSet(sent') \union ToSet(queue') \union dropped'
             = ToSet(sent) \union ToSet(queue) \union dropped \union new,
           HandedOver(new)
    PROVE  /\ got \subseteq got' /\ lost \subseteq lost'
           /\ Waiting \subseteq got' \union lost' \union Waiting'
           /\ \A t : SentFrames(t) \subseteq SentFrames(t)'
           /\ \A t \in Tile : \A e : <<t, e>> \in got' =>
                \/ <<t, e>> \in got
                \/ \E g \in SentFrames(t)' : e \in g.entries
           /\ \A t \in Tile : \A e : <<t, e>> \in again' =>
                \/ <<t, e>> \in again
                \/ /\ <<t, e>> \in got
                   /\ \E g : /\ g \in Frame /\ g.tile = t /\ GoodFrame(g) /\ e \in g.entries
                             /\ \A f \in SentFrames(t) : Before(f, g)
           /\ got' \union again' \union lost' \subseteq Tile \X Nat
<1> USE LineFacts, SentIs
<1>1. /\ Fates /\ Fates' /\ Len(content) \in Nat
    BY PumpFates DEF TypeOK
<1>2. /\ got' = got \union Entries(Held(ToSet(sent') \ ToSet(sent)))
      /\ again' = again \union (Entries(Held(ToSet(sent') \ ToSet(sent))) \intersect got)
      /\ lost' = lost \union Entries(Held(dropped' \ dropped))
    BY DEF Recorded
<1>3. /\ \A p \in ToSet(sent), q \in ToSet(sent') : p # q => p.id # q.id
      /\ \A p \in dropped', q \in ToSet(sent') \union ToSet(queue') : p.id # q.id
      /\ \A p \in ToSet(sent), q \in ToSet(queue) : p.id < q.id
      /\ \A p \in dropped, q \in ToSet(sent) \union ToSet(queue) : p.id # q.id
  <2>1. \A p, q \in ToSet(sent') : p # q => p.id # q.id
    <3> TAKE p, q \in ToSet(sent')
    <3> HAVE p # q
    <3>1. PICK i, j \in DOMAIN sent' : p = sent'[i] /\ q = sent'[j]
        BY DEF ToSet
    <3>2. sent' \in Seq(PumpFrame) /\ i \in Nat /\ j \in Nat
        BY <1>1, <3>1 DEF Fates
    <3>3. p.id \in Nat /\ q.id \in Nat
        <4>1. p \in PumpFrame /\ q \in PumpFrame /\ 1 .. MaxOffers \subseteq Nat
            BY <3>1, <3>2
        <4> QED
            BY <4>1 DEF PumpFrame
    <3>4. i < j \/ j < i
        BY <3>1, <3>2
    <3>5. p.id < q.id \/ q.id < p.id
        BY <1>1, <3>1, <3>4 DEF Fates
    <3> QED
        BY <3>3, <3>5
  <2>2. /\ \A p \in dropped', q \in ToSet(sent') \union ToSet(queue') : p.id # q.id
        /\ \A p \in ToSet(sent), q \in ToSet(queue) : p.id < q.id
        /\ \A p \in dropped, q \in ToSet(sent) \union ToSet(queue) : p.id # q.id
    BY <1>1 DEF Fates, ToSet
  <2> QED
    BY <2>1, <2>2
<1>4. \A p \in ToSet(sent) \union ToSet(queue) \union dropped :
        /\ p.id \in 1 .. Len(content) /\ content[p.id] \in Frame /\ GoodFrame(content[p.id])
        /\ content'[p.id] = content[p.id]
    OBVIOUS
<1>5. \A p \in new : /\ p.id = Len(content) + 1 /\ content'[p.id] \in ToSet(todo)
                     /\ content'[p.id] \in Frame /\ GoodFrame(content'[p.id])
    BY DEF HandedOver
<1>6. \A p \in ToSet(queue) \union new : content'[p.id] \in Frame /\ GoodFrame(content'[p.id])
    BY <1>4, <1>5
<1>7. \A q \in ToSet(sent') \ ToSet(sent) : q \in ToSet(queue) \union new
    BY <1>3
<1>8. \A q \in dropped' \ dropped : q \in ToSet(queue) \union new
    BY <1>3
<1>9. \A p \in ToSet(sent), q \in ToSet(queue) \union new :
        content[p.id].tile = content'[q.id].tile => Before(content[p.id], content'[q.id])
  <2>1. \A p \in ToSet(sent), q \in ToSet(queue) :
          content[p.id].tile = content'[q.id].tile => Before(content[p.id], content'[q.id])
    BY <1>3, <1>4
  <2>2. \A p \in ToSet(sent), q \in new :
          content[p.id].tile = content'[q.id].tile => Before(content[p.id], content'[q.id])
    BY <1>5
  <2> QED
    BY <2>1, <2>2
<1>10. \A t, e : <<t, e>> \in Entries(Held(ToSet(sent') \ ToSet(sent))) =>
         \E q \in ToSet(sent') \ ToSet(sent) : content'[q.id].tile = t /\ e \in content'[q.id].entries
    BY DEF Entries, Held
<1>11. \A q \in ToSet(sent') \ ToSet(sent) : \A e \in content'[q.id].entries :
         <<content'[q.id].tile, e>> \in got'
    BY <1>2 DEF Entries, Held
<1>12. \A q \in dropped' \ dropped : \A e \in content'[q.id].entries :
         <<content'[q.id].tile, e>> \in lost'
    BY <1>2 DEF Entries, Held
<1>13. \A q \in ToSet(queue') : \A e \in content'[q.id].entries :
         <<content'[q.id].tile, e>> \in Waiting'
    BY DEF Waiting, Entries
<1>14. \A f \in ToSet(todo') : \A e \in f.entries : <<f.tile, e>> \in Waiting'
    BY DEF Waiting, Entries
<1>15. \A q \in ToSet(queue) \union new : \A e \in content'[q.id].entries :
         <<content'[q.id].tile, e>> \in got' \union lost' \union Waiting'
  <2> TAKE q \in ToSet(queue) \union new
  <2>1. q \in ToSet(sent') \union ToSet(queue') \union dropped'
    OBVIOUS
  <2>2. q \notin ToSet(sent) /\ q \notin dropped
    <3>1. CASE q \in ToSet(queue)
        <4>1. q.id \in Nat
            BY <1>4, <1>1, <3>1
        <4> QED
            BY <1>3, <3>1, <4>1
    <3>2. CASE q \in new
        <4>1. q.id = Len(content) + 1
            BY <1>5, <3>2
        <4> QED
            BY <1>1, <1>4, <4>1
    <3> QED
        BY <3>1, <3>2
  <2> QED
    BY <1>11, <1>12, <1>13, <2>1, <2>2
<1>16. Waiting \subseteq got' \union lost' \union Waiting'
  <2>1. \A f \in {content[q.id] : q \in ToSet(queue)} : \A e \in f.entries :
          <<f.tile, e>> \in got' \union lost' \union Waiting'
    BY <1>4, <1>15
  <2>2. \A f \in ToSet(todo) : \A e \in f.entries : <<f.tile, e>> \in got' \union lost' \union Waiting'
    <3> TAKE f \in ToSet(todo)
    <3>1. f \in ToSet(todo') \/ \E p \in new : content'[p.id] = f
        BY DEF HandedOver
    <3>2. CASE f \in ToSet(todo')
        BY <1>14, <3>2
    <3>3. CASE \E p \in new : content'[p.id] = f
        BY <1>15, <3>3
    <3> QED
        BY <3>1, <3>2, <3>3
  <2> QED
    BY <2>1, <2>2 DEF Waiting, Entries
<1>17. \A t : SentFrames(t) \subseteq SentFrames(t)'
    BY <1>4
<1>18. \A t \in Tile : \A e : <<t, e>> \in got' =>
         <<t, e>> \in got \/ \E g \in SentFrames(t)' : e \in g.entries
    BY <1>2, <1>10
<1>19. ASSUME NEW t \in Tile, NEW e, <<t, e>> \in again', <<t, e>> \notin again
       PROVE  /\ <<t, e>> \in got
              /\ \E g : /\ g \in Frame /\ g.tile = t /\ GoodFrame(g) /\ e \in g.entries
                        /\ \A f \in SentFrames(t) : Before(f, g)
  <2>1. /\ <<t, e>> \in got /\ <<t, e>> \in Entries(Held(ToSet(sent') \ ToSet(sent)))
    BY <1>2, <1>19
  <2>2. PICK q \in ToSet(sent') \ ToSet(sent) : content'[q.id].tile = t /\ e \in content'[q.id].entries
    BY <1>10, <2>1
  <2>3. \A f \in SentFrames(t) : Before(f, content'[q.id])
    BY <1>7, <1>9, <2>2
  <2> QED
    BY <1>6, <1>7, <2>1, <2>2, <2>3
<1>20. got' \union again' \union lost' \subseteq Tile \X Nat
  <2>1. \A q \in ToSet(queue) \union new : \A e \in content'[q.id].entries :
          <<content'[q.id].tile, e>> \in Tile \X Nat
    BY <1>6 DEF Frame
  <2>2. Entries(Held(ToSet(sent') \ ToSet(sent))) \subseteq Tile \X Nat
    BY <1>7, <2>1 DEF Entries, Held
  <2>3. Entries(Held(dropped' \ dropped)) \subseteq Tile \X Nat
    BY <1>8, <2>1 DEF Entries, Held
  <2> QED
    BY <1>2, <2>2, <2>3 DEF TypeOK
<1> QED
    BY <1>2, <1>16, <1>17, <1>18, <1>19, <1>20

-----------------------------------------------------------------------------
\* Steps.

\* The order of a tile's entries is settled with the choices.
LEMMA SameOrder ==
    ASSUME UNCHANGED <<streamMode, windowOf>>
    PROVE  /\ Aligned' <=> Aligned
           /\ \A f, g : Before(f, g)' <=> Before(f, g)
<1>1. Aligned' <=> Aligned
    BY DEF Aligned, EventsInOrder
<1>2. \A f, g : Before(f, g)' <=> Before(f, g)
    BY <1>1 DEF Before
<1> QED
    BY <1>1, <1>2

\* A frame stays good while the position it lies behind only moves on.
LEMMA SameLine ==
    ASSUME FramesInLine, Line' = Line, UNCHANGED <<streamMode, windowOf, base, lastIds>>
    PROVE  FramesInLine'
<1>1. \A i \in DOMAIN Line' : GoodFrame(Line[i])'
    BY DEF FramesInLine, GoodFrame
<1>2. Ordered(Line)'
  <2>1. \A i, j \in DOMAIN Line : i < j /\ Line[i].tile = Line[j].tile => Before(Line[i], Line[j])
    BY DEF FramesInLine, Ordered
  <2>2. Aligned' <=> Aligned
    BY SameOrder
  <2> QED
    BY <2>1, <2>2 DEF Ordered, Before
<1> QED
    BY <1>1, <1>2 DEF FramesInLine

\* Frames move on through the pump.
LEMMA MoveStep ==
    ASSUME IInv, phase # "gone", phase' # "gone", TypeOK', Pump!IInv', Numbered', Positions',
           Recorded, Line' = Line,
           \A i \in 1 .. Len(content) : content'[i] = content[i],
           ToSet(sent) \subseteq ToSet(sent'), dropped \subseteq dropped', NEW new,
           ToSet(sent') \union ToSet(queue') \union dropped'
             = ToSet(sent) \union ToSet(queue) \union dropped \union new,
           HandedOver(new),
           UNCHANGED <<choices, stored, base, lastIds, appended, faults>>
    PROVE  IInv'
<1>1. /\ got \subseteq got' /\ lost \subseteq lost'
      /\ Waiting \subseteq got' \union lost' \union Waiting'
      /\ \A t : SentFrames(t) \subseteq SentFrames(t)'
      /\ \A t \in Tile : \A e : <<t, e>> \in got' =>
           \/ <<t, e>> \in got
           \/ \E g \in SentFrames(t)' : e \in g.entries
      /\ \A t \in Tile : \A e : <<t, e>> \in again' =>
           \/ <<t, e>> \in again
           \/ /\ <<t, e>> \in got
              /\ \E g : /\ g \in Frame /\ g.tile = t /\ GoodFrame(g) /\ e \in g.entries
                        /\ \A f \in SentFrames(t) : Before(f, g)
    BY MoveFacts DEF IInv
<1>2. /\ UNCHANGED <<offset, streamMode, windowOf, stored, base, lastIds, appended, faults>>
      /\ Aligned' <=> Aligned
    BY SameOrder DEF choices
<1>3. /\ stored \in [Tile -> Nat] /\ base \in [Tile -> Nat] /\ again \subseteq Tile \X Nat
      /\ again' \subseteq Tile \X Nat
    BY DEF IInv, TypeOK
<1>4. FramesInLine'
    BY <1>2, SameLine DEF IInv
<1>5. NothingSkipped'
  <2>1. SUFFICES ASSUME offset # Live PROVE Covered'
    BY <1>2 DEF NothingSkipped
  <2>2. Covered /\ \A t \in Tile : lastIds[t] # Live
    BY <2>1 DEF IInv, NothingSkipped, Positions
  <2>3. \A t \in Tile : \A e \in base[t] + 1 .. appended[t] :
          e > lastIds[t] \/ <<t, e>> \in got \union lost \union Waiting
    BY <2>2 DEF Covered, Ahead
  <2>4. \A t \in Tile : \A e \in base[t] + 1 .. appended[t] :
          e > lastIds[t] \/ <<t, e>> \in got' \union lost' \union Waiting'
    BY <1>1, <2>3
  <2> QED
    BY <1>2, <2>2, <2>4 DEF Covered, Ahead
<1>6. CursorTruthful'
  <2>1. \A t \in Tile : offset = 0 /\ Aligned =>
          \A e \in 1 .. stored[t] : <<t, e>> \in got \union lost
    BY DEF IInv, CursorTruthful, Aligned
  <2>2. \A t \in Tile : offset = 0 /\ Aligned =>
          \A e \in 1 .. stored[t] : <<t, e>> \in got' \union lost'
    BY <1>1, <2>1
  <2> QED
    BY <1>2, <2>2 DEF CursorTruthful, Aligned
<1>7. StartTruthful'
    BY <1>1, <1>2 DEF IInv, StartTruthful
<1>8. CursorFromSent'
  <2>1. UseCursor => \A t \in Tile : stored[t] <= base[t] \/ \E f \in SentFrames(t) : stored[t] = f.offset
    BY DEF IInv, CursorFromSent
  <2>2. UseCursor => \A t \in Tile : stored[t] <= base[t] \/ \E f \in SentFrames(t)' : stored[t] = f.offset
    BY <1>1, <2>1
  <2> QED
    BY <1>2, <2>2 DEF CursorFromSent
<1>9. GotBehind'
  <2>1. UseCursor /\ faults = 0 /\ Aligned =>
          \A t \in Tile, e \in Nat : <<t, e>> \in got =>
            e <= stored[t] \/ \E f \in SentFrames(t) : e \in f.entries
    BY DEF IInv, GotBehind
  <2>2. UseCursor /\ faults = 0 /\ Aligned =>
          \A t \in Tile, e \in Nat : <<t, e>> \in got' =>
            e <= stored[t] \/ \E f \in SentFrames(t)' : e \in f.entries
    BY <1>1, <2>1
  <2> QED
    BY <1>2, <2>2 DEF GotBehind
<1>10. WrittenOnce'
  <2>1. SUFFICES ASSUME UseCursor, faults = 0, Aligned PROVE again' = {}
    BY <1>2 DEF WrittenOnce, Aligned
  <2>2. again = {}
    BY <2>1 DEF IInv, WrittenOnce, Aligned
  <2>3. ASSUME NEW t \in Tile, NEW e \in Nat, <<t, e>> \in again' PROVE FALSE
    <3>1. <<t, e>> \in got
        BY <1>1, <2>2, <2>3
    <3>2. PICK g : /\ g \in Frame /\ g.tile = t /\ GoodFrame(g) /\ e \in g.entries
                   /\ \A f \in SentFrames(t) : Before(f, g)
        BY <1>1, <2>2, <2>3
    <3>3. base[t] < e
      <4>1. e \in base[t] + 1 .. lastIds[t]
        BY <3>2 DEF GoodFrame
      <4> QED
        BY <1>3, <4>1
    <3>4. \A f \in SentFrames(t) : \A d \in f.entries : d < e
        BY <2>1, <3>2 DEF Before
    <3>5. \A f \in SentFrames(t) : f.offset \in f.entries
        BY SentGood DEF IInv
    <3>6. stored[t] <= base[t] \/ \E f \in SentFrames(t) : stored[t] = f.offset
        BY <2>1 DEF IInv, CursorFromSent
    <3>7. stored[t] < e
      <4>1. CASE stored[t] <= base[t]
        BY <1>3, <3>3, <4>1
      <4>2. CASE \E f \in SentFrames(t) : stored[t] = f.offset
        BY <3>4, <3>5, <4>2
      <4> QED
        BY <3>6, <4>1, <4>2
    <3>8. e <= stored[t] \/ \E f \in SentFrames(t) : e \in f.entries
        BY <2>1, <3>1 DEF IInv, GotBehind
    <3>9. ~(e < e)
        OBVIOUS
    <3> QED
        BY <1>3, <3>4, <3>7, <3>8, <3>9
  <2> QED
    BY <1>3, <2>3
<1> QED
    BY <1>4, <1>5, <1>6, <1>7, <1>8, <1>9, <1>10 DEF IInv

LEMMA HandOver ==
    ASSUME TypeOK, Numbered, todo # <<>>,
           content' = Append(content, Head(todo)), todo' = Tail(todo)
    PROVE  /\ content' \in Seq(Frame) /\ todo' \in Seq(Frame)
           /\ Len(content') = Len(content) + 1 /\ Line' = Line
           /\ \A i \in 1 .. Len(content) : content'[i] = content[i]
           /\ HandedOver({[id |-> offered + 1, bytes |-> 1]})
<1>1. content \in Seq(Frame) /\ todo \in Seq(Frame) /\ Len(content) = offered
    BY DEF TypeOK, Numbered
<1>2. /\ content' \in Seq(Frame) /\ todo' \in Seq(Frame) /\ Len(content') = Len(content) + 1
      /\ \A i \in 1 .. Len(content) : content'[i] = content[i]
      /\ content'[Len(content) + 1] = Head(todo) /\ Head(todo) = todo[1]
      /\ Len(todo') = Len(todo) - 1 /\ Len(todo) >= 1
      /\ \A i \in 1 .. Len(todo) - 1 : todo'[i] = todo[i + 1]
    BY <1>1
<1>3. Line' = Line
  <2>1. /\ Line \in Seq(Frame) /\ content' \o todo' \in Seq(Frame)
        /\ Len(Line) = Len(content' \o todo')
    BY <1>1, <1>2 DEF Line
  <2>2. \A i \in 1 .. Len(Line) : Line[i] = (content' \o todo')[i]
    BY <1>1, <1>2 DEF Line
  <2>3. Line = content' \o todo'
    BY <2>1, <2>2, SeqEqual
  <2> QED
    BY <2>3 DEF Line
<1>4. HandedOver({[id |-> offered + 1, bytes |-> 1]})
  <2> DEFINE p == [id |-> offered + 1, bytes |-> 1]
  <2>1. p.id = Len(content) + 1 /\ content'[p.id] = todo[1]
    BY <1>1, <1>2
  <2>2. todo[1] \in ToSet(todo)
    BY <1>1, <1>2 DEF ToSet
  <2>3. \A f \in ToSet(todo) : f \in ToSet(todo') \/ f = todo[1]
    <3> TAKE f \in ToSet(todo)
    <3>1. PICK i \in 1 .. Len(todo) : f = todo[i]
        BY <1>1 DEF ToSet
    <3>2. CASE i = 1
        BY <3>1, <3>2
    <3>3. CASE i # 1
        <4>1. i - 1 \in 1 .. Len(todo') /\ todo'[i - 1] = f
            BY <1>1, <1>2, <3>1, <3>3
        <4>2. DOMAIN todo' = 1 .. Len(todo')
            BY <1>2
        <4> QED
            BY <4>1, <4>2 DEF ToSet
    <3> QED
        BY <3>2, <3>3
  <2> HIDE DEF p
  <2>4. HandedOver({p})
    BY <2>1, <2>2, <2>3 DEF HandedOver
  <2> QED
    BY <2>4 DEF p
<1> QED
    BY <1>2, <1>3, <1>4

LEMMA EnqueueStep ==
    ASSUME IInv, EnqueueNext
    PROVE  IInv'
<1>1. /\ phase = "handling" /\ Pump!Enqueue(1) /\ Recorded
      /\ content' = Append(content, Head(todo)) /\ todo' = Tail(todo)
      /\ IF todo' # <<>> THEN phase' = phase ELSE phase' \in {"paused", "sent"}
      /\ UNCHANGED <<choices, streamVars, stored, disconnected, readVars, connections, faults>>
    BY DEF EnqueueNext, LoopTop
<1>2. /\ TypeOK /\ Pump!IInv /\ Numbered /\ Positions /\ FramesInLine /\ ~closed /\ todo # <<>>
    BY <1>1 DEF IInv, Numbered
<1> DEFINE new == {[id |-> offered + 1, bytes |-> 1]}
<1>3. /\ Pump!IInv' /\ offered' = offered + 1 /\ closed' = closed
      /\ ToSet(sent) \subseteq ToSet(sent') /\ dropped \subseteq dropped'
      /\ ToSet(sent') \union ToSet(queue') \union dropped'
           = ToSet(sent) \union ToSet(queue) \union dropped \union new
    BY <1>1, <1>2, PumpEnqueue
<1>4. /\ content' \in Seq(Frame) /\ todo' \in Seq(Frame)
      /\ Len(content') = Len(content) + 1 /\ Line' = Line
      /\ \A i \in 1 .. Len(content) : content'[i] = content[i]
      /\ HandedOver(new)
    BY <1>1, <1>2, HandOver
<1> HIDE DEF new
<1>5. got' \union again' \union lost' \subseteq Tile \X Nat
    BY <1>1, <1>2, <1>3, <1>4, MoveFacts
<1>6. phase' \in {"handling", "paused", "sent"} /\ (phase' = "handling" <=> todo' # <<>>)
    BY <1>1
<1>7. UNCHANGED <<offset, streamMode, windowOf, appended, trimmed, stored, disconnected,
                  base, lastIds, at, reply, faults>>
    BY <1>1 DEF choices, streamVars, readVars
<1>8. TypeOK'
  <2>1. Pump!TypeOK'
    BY <1>3 DEF Pump!IInv
  <2> QED
    BY <1>2, <1>4, <1>5, <1>6, <1>7, <2>1 DEF TypeOK, Serving
<1>9. Numbered'
    BY <1>2, <1>3, <1>4, <1>6 DEF Numbered
<1>10. Positions'
  <2>1. phase' # "gone" /\ phase' \notin {"blocked", "answered"} /\ phase # "gone"
    BY <1>1, <1>6
  <2> QED
    BY <1>2, <1>7, <2>1 DEF Positions
<1> QED
    BY <1>1, <1>3, <1>4, <1>6, <1>7, <1>8, <1>9, <1>10, MoveStep

LEMMA DrainStep ==
    ASSUME IInv, Drain
    PROVE  IInv'
<1>1. /\ phase \in Serving /\ Pump!OnDrain /\ Recorded /\ content' = content
      /\ UNCHANGED <<choices, streamVars, stored, phase, disconnected, readVars, todo, connections, faults>>
    BY DEF Drain
<1>2. TypeOK /\ Pump!IInv /\ Numbered /\ Positions /\ FramesInLine
    BY DEF IInv
<1>3. /\ Pump!IInv' /\ UNCHANGED <<closed, offered, dropped>>
      /\ ToSet(sent) \subseteq ToSet(sent')
      /\ ToSet(sent') \union ToSet(queue') = ToSet(sent) \union ToSet(queue)
    BY <1>1, <1>2, PumpDrain
<1>4. HandedOver({})
    BY <1>1 DEF HandedOver
<1>5. /\ \A i \in 1 .. Len(content) : content'[i] = content[i]
      /\ dropped \subseteq dropped' /\ Line' = Line
      /\ ToSet(sent') \union ToSet(queue') \union dropped'
           = ToSet(sent) \union ToSet(queue) \union dropped \union {}
    BY <1>1, <1>3 DEF Line
<1>6. got' \union again' \union lost' \subseteq Tile \X Nat
    BY <1>1, <1>2, <1>3, <1>4, <1>5, MoveFacts
<1>7. UNCHANGED <<offset, streamMode, windowOf, appended, trimmed, stored, phase, disconnected,
                  base, lastIds, at, reply, todo, content, faults>>
    BY <1>1 DEF choices, streamVars, readVars
<1>8. TypeOK'
  <2>1. Pump!TypeOK'
    BY <1>3 DEF Pump!IInv
  <2> QED
    BY <1>2, <1>6, <1>7, <2>1 DEF TypeOK
<1>9. Numbered'
    BY <1>2, <1>3, <1>7 DEF Numbered
<1>10. Positions' /\ phase # "gone" /\ phase' # "gone"
  <2>1. lost \subseteq lost'
    BY <1>1 DEF Recorded
  <2> QED
    BY <1>1, <1>2, <1>7, <2>1 DEF Positions, Answers, Serving
<1> QED
    BY <1>1, <1>3, <1>4, <1>5, <1>7, <1>8, <1>9, <1>10, MoveStep

-----------------------------------------------------------------------------
\* An answer of Redis.

\* The tiles, one after the other, each once.
LEMMA TilesInLine ==
    /\ Cardinality(Tile) \in Nat /\ SetToSeq(Tile) \in [1 .. Cardinality(Tile) -> Tile]
    /\ \A t \in Tile : \E i \in 1 .. Cardinality(Tile) : SetToSeq(Tile)[i] = t
    /\ \A i, j \in 1 .. Cardinality(Tile) : i # j => SetToSeq(Tile)[i] # SetToSeq(Tile)[j]
<1> DEFINE n == Cardinality(Tile)
<1> DEFINE s == SetToSeq(Tile)
<1>1. IsFiniteSet(Tile)
    BY SessionAssumption
<1>2. n \in Nat /\ ExistsBijection(1 .. n, Tile)
    BY <1>1, FS_CardinalityType
<1>3. \E f \in [1 .. n -> Tile] : IsInjective(f)
    BY <1>2 DEF ExistsBijection, Bijection, Injection, IsInjective
<1>4. s \in [1 .. n -> Tile] /\ IsInjective(s)
    BY <1>3 DEF SetToSeq, IsInjective
<1>5. s \in Injection(1 .. n, Tile)
    BY <1>4 DEF Injection
<1>6. Cardinality(1 .. n) = n
    BY <1>2, FS_Interval
<1> HIDE DEF n, s
<1>7. s \in Surjection(1 .. n, Tile)
    BY <1>1, <1>5, <1>6, FS_Injection DEF n
<1>8. \A t \in Tile : \E i \in 1 .. n : s[i] = t
    BY <1>7 DEF Surjection
<1>9. \A i, j \in 1 .. n : i # j => s[i] # s[j]
    BY <1>4 DEF IsInjective
<1> QED
    BY <1>2, <1>4, <1>8, <1>9 DEF n, s

\* The entries of an answer that are not thinned.
From(r) == IF streamMode = "aggregate" THEN r.from ELSE ThinnedFrom(r)

\* One tile's answer: its frames hold what is not thinned, in order.
LEMMA AnswerBatch ==
    ASSUME TypeOK, NEW t \in Tile, NEW r \in [from : Nat, to : Nat], r.from <= r.to,
           r.to > r.from => r.to <= MaxEntries[t]
    PROVE  /\ From(r) \in Nat /\ r.from <= From(r) /\ From(r) <= r.to
           /\ r.from < r.to => From(r) < r.to
           /\ \A e \in r.from + 1 .. From(r) : <<t, e>> \in Thinned(t, r)
           /\ Thinned(t, r) \subseteq Tile \X Nat
           /\ Batch(t, From(r), r.to, FramesOf(t, r))
<1>1. /\ ThinMax \in Nat /\ streamMode \in {"event", "aggregate"} /\ MaxEntries[t] \in Nat
      /\ r.from \in Nat /\ r.to \in Nat
    BY SessionAssumption DEF TypeOK
<1>2. /\ ThinnedFrom(r) \in Nat /\ r.from <= ThinnedFrom(r) /\ ThinnedFrom(r) <= r.to
      /\ r.from < r.to => ThinnedFrom(r) < r.to
    BY <1>1 DEF ThinnedFrom, Larger
<1>3. CASE streamMode = "aggregate"
  <2>1. r.from + 1 .. r.to \subseteq 1 .. MaxEntries[t]
    BY <1>1
  <2>2. Batch(t, r.from, r.to, AggregateFrames(t, r.from, r.to))
    BY <1>1, <1>3, <2>1, AggregateBatch
  <2>3. \A e \in r.from + 1 .. r.from : FALSE
    BY <1>1
  <2> QED
    BY <1>1, <1>3, <2>2, <2>3 DEF From, FramesOf, Thinned
<1>4. CASE streamMode = "event"
  <2>1. Batch(t, ThinnedFrom(r), r.to, EventFrames(t, ThinnedFrom(r), r.to))
    BY <1>1, <1>2, <1>4, EventBatch
  <2>2. \A e \in r.from + 1 .. ThinnedFrom(r) : e \in Nat
    BY <1>1, <1>2
  <2> QED
    BY <1>1, <1>2, <1>4, <2>1, <2>2 DEF From, FramesOf, Thinned
<1> QED
    BY <1>1, <1>3, <1>4

\* What Handle makes of the answers of all tiles.
LEMMA HandleFacts ==
    ASSUME TypeOK, Tile # {}, NEW frames,
           \A t \in Tile : reply[t].from <= reply[t].to,
           \A t \in Tile : Answers(t) => reply[t].to <= MaxEntries[t],
           frames = FlattenSeq([i \in 1 .. Cardinality(Tile) |->
                        FramesOf(SetToSeq(Tile)[i], reply[SetToSeq(Tile)[i]])])
    PROVE  /\ frames \in Seq(Frame) /\ Ordered(frames)
           /\ \A f \in ToSet(frames) :
                /\ f \in Frame /\ f.entries # {}
                /\ f.entries \subseteq From(reply[f.tile]) + 1 .. reply[f.tile].to
                /\ f.offset \in f.entries /\ \A e \in f.entries : e <= f.offset
           /\ \A t \in Tile : \A e \in From(reply[t]) + 1 .. reply[t].to :
                \E f \in ToSet(frames) : f.tile = t /\ e \in f.entries
<1> DEFINE n == Cardinality(Tile)
<1> DEFINE s == SetToSeq(Tile)
<1> DEFINE seqs == [i \in 1 .. n |-> FramesOf(s[i], reply[s[i]])]
<1> DEFINE R == {p \in Frame \X Frame : p[1].tile = p[2].tile => Before(p[1], p[2])}
<1>1. /\ n \in Nat /\ s \in [1 .. n -> Tile] /\ \A t \in Tile : \E i \in 1 .. n : s[i] = t
      /\ \A i, j \in 1 .. n : i # j => s[i] # s[j]
    BY TilesInLine
<1>2. n # 0
    BY <1>1
<1>3. \A t \in Tile : /\ reply[t] \in [from : Nat, to : Nat]
                      /\ reply[t].to > reply[t].from => reply[t].to <= MaxEntries[t]
    BY DEF TypeOK, Answers
<1>4. \A t \in Tile : Batch(t, From(reply[t]), reply[t].to, FramesOf(t, reply[t]))
    BY <1>3, AnswerBatch
<1> HIDE DEF n, s
<1>5. \A i \in 1 .. n : /\ seqs[i] = FramesOf(s[i], reply[s[i]]) /\ s[i] \in Tile
                        /\ Batch(s[i], From(reply[s[i]]), reply[s[i]].to, seqs[i])
    BY <1>1, <1>4
<1>6. /\ seqs \in Seq(Seq(Frame)) /\ Len(seqs) = n /\ DOMAIN seqs = 1 .. n
  <2>1. \A i \in 1 .. n : FramesOf(s[i], reply[s[i]]) \in Seq(Frame)
    BY <1>5 DEF Batch
  <2> QED
    BY <1>1, <2>1
<1>7. frames = FlattenSeq(seqs)
    BY DEF n, s
<1> HIDE DEF seqs
<1>8. \A i \in 1 .. n : \A f \in ToSet(seqs[i]) :
        /\ f \in Frame /\ f.tile = s[i] /\ f.entries # {}
        /\ f.entries \subseteq From(reply[s[i]]) + 1 .. reply[s[i]].to
        /\ f.offset \in f.entries /\ \A e \in f.entries : e <= f.offset
  <2> TAKE i \in 1 .. n
  <2>1. seqs[i] \in Seq(Frame)
    BY <1>5 DEF Batch
  <2>2. \A f \in ToSet(seqs[i]) : f \in Frame
    BY <2>1 DEF ToSet
  <2> QED
    BY <1>5, <2>2 DEF Batch
<1>9. \A f, g : <<f, g>> \in R <=> f \in Frame /\ g \in Frame /\ (f.tile = g.tile => Before(f, g))
    OBVIOUS
<1> HIDE DEF R
<1>10. \A i \in DOMAIN seqs : Pairwise(seqs[i], R)
  <2> TAKE i \in DOMAIN seqs
  <2>1. /\ \A j \in DOMAIN seqs[i] : seqs[i][j] \in Frame
        /\ \A j, k \in DOMAIN seqs[i] : j < k => Before(seqs[i][j], seqs[i][k])
    BY <1>5, <1>6, <1>8 DEF Batch, ToSet
  <2> QED
    BY <1>9, <2>1 DEF Pairwise
<1>11. \A i, j \in DOMAIN seqs : i < j =>
         \A a \in ToSet(seqs[i]), b \in ToSet(seqs[j]) : <<a, b>> \in R
  <2> TAKE i, j \in DOMAIN seqs
  <2> HAVE i < j
  <2>1. s[i] # s[j]
    BY <1>1, <1>6
  <2> QED
    BY <1>6, <1>8, <1>9, <2>1
<1>12. /\ FlattenSeq(seqs) \in Seq(Frame)
       /\ ToSet(FlattenSeq(seqs)) = UNION {ToSet(seqs[i]) : i \in DOMAIN seqs}
       /\ Pairwise(FlattenSeq(seqs), R)
    BY <1>2, <1>6, <1>10, <1>11, FlattenFacts
<1>13. frames \in Seq(Frame) /\ Ordered(frames)
    BY <1>7, <1>9, <1>12 DEF Ordered, Pairwise
<1>14. \A f \in ToSet(frames) : \E i \in 1 .. n : f \in ToSet(seqs[i])
    BY <1>6, <1>7, <1>12
<1>15. \A i \in 1 .. n : ToSet(seqs[i]) \subseteq ToSet(frames)
    BY <1>6, <1>7, <1>12
<1>16. ASSUME NEW t \in Tile, NEW e \in From(reply[t]) + 1 .. reply[t].to
       PROVE  \E f \in ToSet(frames) : f.tile = t /\ e \in f.entries
  <2>1. PICK i \in 1 .. n : s[i] = t
    BY <1>1
  <2>2. PICK f \in ToSet(seqs[i]) : e \in f.entries
    <3>1. From(reply[t]) + 1 .. reply[t].to \subseteq UNION {f.entries : f \in ToSet(seqs[i])}
        BY <1>5, <2>1 DEF Batch
    <3> QED
        BY <1>16, <3>1
  <2> QED
    BY <1>8, <1>15, <2>1, <2>2
<1> QED
    BY <1>8, <1>13, <1>14, <1>16

LEMMA HandleStep ==
    ASSUME IInv, Handle
    PROVE  IInv'
<1>1. /\ phase = "answered" /\ phase' = "handling" /\ ~disconnected /\ reply' = NoReply
      /\ lastIds' = [t \in Tile |-> Position(t)]
      /\ todo' = FlattenSeq([i \in 1 .. Cardinality(Tile) |->
                    FramesOf(SetToSeq(Tile)[i], reply[SetToSeq(Tile)[i]])])
      /\ lost' = lost \union UNION {Thinned(t, reply[t]) : t \in Tile}
      /\ UNCHANGED <<choices, streamVars, stored, disconnected, liveMode, base, at, content, got, again,
                   connections, faults, pumpVars>>
    BY DEF Handle
<1>2. /\ UNCHANGED <<offset, streamMode, windowOf, appended, trimmed, stored, disconnected, base, at,
                     content, got, again, faults>>
      /\ UNCHANGED <<queue, queueBytes, waitingDrain, closed, published, offered, sent, dropped, refused>>
    BY <1>1 DEF choices, streamVars, pumpVars
<1>3. TypeOK /\ Pump!IInv /\ Numbered /\ Positions /\ FramesInLine
    BY DEF IInv
<1>4. /\ base \in [Tile -> Nat] /\ at \in [Tile -> Nat] /\ appended \in [Tile -> Nat]
      /\ \A t \in Tile : lastIds[t] \in Nat \union {Live}
      /\ \A t \in Tile : reply[t] \in [from : Nat, to : Nat] /\ appended[t] <= MaxEntries[t]
      /\ MaxEntries \in [Tile -> Nat] /\ content \in Seq(Frame)
    BY <1>3, SessionAssumption DEF TypeOK
<1>5. /\ todo = <<>>
      /\ \A t \in Tile : reply[t].from <= reply[t].to /\ base[t] <= at[t]
      /\ \A t \in Tile : lastIds[t] # Live => at[t] = lastIds[t]
      /\ \A t \in Tile : Answers(t) =>
           /\ at[t] <= reply[t].from /\ reply[t].to <= appended[t]
           /\ \A e \in at[t] + 1 .. reply[t].from : <<t, e>> \in lost
    BY <1>1, <1>3 DEF Numbered, Positions
<1>6. PICK a \in Tile : Answers(a)
    BY <1>1, <1>3 DEF Positions
\* The tiles' answers, and where their frames begin.
<1>7. \A t \in Tile : Answers(t) =>
        /\ reply[t].from \in Nat /\ reply[t].to \in Nat /\ reply[t].to <= MaxEntries[t]
        /\ reply[t].from < reply[t].to
    BY <1>4, <1>5 DEF Answers
<1>8. \A t \in Tile : /\ From(reply[t]) \in Nat /\ reply[t].from <= From(reply[t])
                      /\ From(reply[t]) <= reply[t].to
                      /\ Answers(t) => From(reply[t]) < reply[t].to
                      /\ \A e \in reply[t].from + 1 .. From(reply[t]) : <<t, e>> \in lost'
                      /\ Thinned(t, reply[t]) \subseteq Tile \X Nat
  <2> TAKE t \in Tile
  <2>1. reply[t].to > reply[t].from => reply[t].to <= MaxEntries[t]
    BY <1>7 DEF Answers
  <2>2. /\ From(reply[t]) \in Nat /\ reply[t].from <= From(reply[t]) /\ From(reply[t]) <= reply[t].to
        /\ reply[t].from < reply[t].to => From(reply[t]) < reply[t].to
        /\ \A e \in reply[t].from + 1 .. From(reply[t]) : <<t, e>> \in Thinned(t, reply[t])
        /\ Thinned(t, reply[t]) \subseteq Tile \X Nat
    BY <1>3, <1>4, <1>5, <2>1, AnswerBatch
  <2>3. Thinned(t, reply[t]) \subseteq lost'
    BY <1>1
  <2> QED
    BY <1>7, <2>2, <2>3
<1>9. /\ todo' \in Seq(Frame) /\ Ordered(todo')
      /\ \A f \in ToSet(todo') :
           /\ f \in Frame /\ f.entries # {}
           /\ f.entries \subseteq From(reply[f.tile]) + 1 .. reply[f.tile].to
           /\ f.offset \in f.entries /\ \A e \in f.entries : e <= f.offset
      /\ \A t \in Tile : \A e \in From(reply[t]) + 1 .. reply[t].to :
           \E f \in ToSet(todo') : f.tile = t /\ e \in f.entries
  <2>1. todo' = FlattenSeq([i \in 1 .. Cardinality(Tile) |->
                    FramesOf(SetToSeq(Tile)[i], reply[SetToSeq(Tile)[i]])])
    BY <1>1
  <2>2. TypeOK /\ Tile # {} /\ \A t \in Tile : reply[t].from <= reply[t].to
    BY <1>3, <1>5, <1>6
  <2>3. \A t \in Tile : Answers(t) => reply[t].to <= MaxEntries[t]
    BY <1>7
  <2> QED
    BY <2>1, <2>2, <2>3, HandleFacts
<1>10. \A t \in Tile : /\ ~Answers(t) => lastIds'[t] = lastIds[t]
                       /\ Answers(t) => lastIds'[t] = reply[t].to
    BY <1>1 DEF Position
\* A position only moves on.
<1>11. \A t \in Tile : Answers(t) =>
         /\ lastIds'[t] \in Nat /\ lastIds'[t] # Live /\ base[t] <= From(reply[t])
         /\ base[t] <= lastIds'[t] /\ lastIds'[t] <= appended[t]
         /\ lastIds[t] # Live => lastIds[t] <= From(reply[t]) /\ lastIds[t] <= lastIds'[t]
  <2> TAKE t \in Tile
  <2> HAVE Answers(t)
  <2>1. /\ at[t] <= reply[t].from /\ reply[t].from <= From(reply[t]) /\ From(reply[t]) < reply[t].to
        /\ base[t] <= at[t] /\ reply[t].to <= appended[t]
        /\ lastIds[t] # Live => at[t] = lastIds[t]
    BY <1>5, <1>8
  <2>2. /\ at[t] \in Nat /\ base[t] \in Nat /\ reply[t].from \in Nat /\ reply[t].to \in Nat
        /\ From(reply[t]) \in Nat /\ appended[t] \in Nat
    BY <1>4, <1>8
  <2> QED
    BY <1>10, <2>1, <2>2 DEF Live
<1>12. \A t \in Tile : lastIds[t] # Live =>
         /\ lastIds[t] \in Nat /\ lastIds'[t] \in Nat /\ lastIds'[t] # Live
         /\ lastIds[t] <= lastIds'[t]
  <2> TAKE t \in Tile
  <2> HAVE lastIds[t] # Live
  <2>1. lastIds[t] \in Nat /\ lastIds[t] <= lastIds[t]
    BY <1>4
  <2>2. CASE Answers(t)
    BY <1>11, <2>1, <2>2
  <2>3. CASE ~Answers(t)
    BY <1>10, <2>1, <2>3
  <2> QED
    BY <2>2, <2>3
<1>13. offset # Live => \A t \in Tile : lastIds[t] # Live
    BY <1>1, <1>3 DEF Positions
<1>14. TypeOK'
  <2>1. lastIds' \in [Tile -> Nat \union {Live}]
    BY <1>1, <1>4, <1>7 DEF Position
  <2>2. lost' \subseteq Tile \X Nat
    BY <1>1, <1>3, <1>8 DEF TypeOK
  <2>3. Pump!TypeOK'
    BY <1>2, <1>3 DEF Pump!IInv, Pump!TypeOK
  <2>4. reply' \in [Tile -> [from : Nat, to : Nat]]
    BY <1>1 DEF NoReply
  <2> QED
    BY <1>1, <1>2, <1>3, <1>9, <2>1, <2>2, <2>3, <2>4 DEF TypeOK
<1>15. Pump!IInv'
    BY <1>2, <1>3 DEF Pump!IInv, Pump!TypeOK, Pump!FramesBounded, Pump!OneFate, Pump!InOrder,
                      Pump!DropsOldest, Pump!NoStall, Pump!Increasing
<1>16. Numbered'
  <2>1. From(reply[a]) + 1 \in From(reply[a]) + 1 .. reply[a].to
    BY <1>6, <1>7, <1>8
  <2>2. PICK f : f \in ToSet(todo')
    BY <1>9, <2>1
  <2>3. todo' # <<>>
    BY <2>2 DEF ToSet
  <2> QED
    BY <1>1, <1>2, <1>3, <2>3 DEF Numbered
<1>17. Positions'
  <2>1. \A t \in Tile :
          IF lastIds'[t] = Live THEN base[t] <= appended[t]
          ELSE /\ base[t] <= lastIds'[t]
               /\ lastIds'[t] = base[t] \/ lastIds'[t] <= appended[t]
    BY <1>3, <1>10, <1>11 DEF Positions
  <2>2. offset # Live => \A t \in Tile : lastIds'[t] # Live
    BY <1>1, <1>3, <1>10, <1>11 DEF Positions
  <2> QED
    BY <1>1, <1>2, <2>1, <2>2 DEF Positions
<1>18. FramesInLine'
  <2>1. Line = content /\ Line' = content \o todo'
    BY <1>2, <1>4, <1>5 DEF Line
  <2>2. \A i \in DOMAIN content : content[i] \in Frame /\ GoodFrame(content[i])
    BY <1>3, <1>4, <2>1 DEF FramesInLine
  <2> DEFINE Good(f) ==
        /\ lastIds'[f.tile] # Live
        /\ f.entries # {} /\ f.entries \subseteq base[f.tile] + 1 .. lastIds'[f.tile]
        /\ f.offset \in f.entries /\ \A e \in f.entries : e <= f.offset
  <2>3. ASSUME NEW f \in Frame, GoodFrame(f)
        PROVE  /\ Good(f)
               /\ \A g \in ToSet(todo') : f.tile = g.tile => Before(f, g)
    <3>1. /\ f.tile \in Tile /\ lastIds[f.tile] # Live /\ f.entries # {}
          /\ f.entries \subseteq base[f.tile] + 1 .. lastIds[f.tile]
          /\ f.offset \in f.entries /\ \A e \in f.entries : e <= f.offset
        BY <2>3 DEF GoodFrame, Frame
    <3>2. /\ lastIds[f.tile] \in Nat /\ base[f.tile] \in Nat
          /\ lastIds'[f.tile] # Live /\ lastIds'[f.tile] \in Nat /\ lastIds[f.tile] <= lastIds'[f.tile]
        BY <1>4, <1>12, <3>1
    <3>3. f.entries \subseteq base[f.tile] + 1 .. lastIds'[f.tile]
        BY <3>1, <3>2
    <3>4. Good(f)
        BY <3>1, <3>2, <3>3
    <3>5. ASSUME NEW g \in ToSet(todo'), f.tile = g.tile, NEW d \in f.entries, NEW e \in g.entries
          PROVE  d < e
      <4>1. e \in From(reply[f.tile]) + 1 .. reply[f.tile].to
        BY <1>9, <3>5
      <4>2. /\ reply[f.tile].to \in Nat /\ From(reply[f.tile]) \in Nat
            /\ d \in Nat /\ d <= lastIds[f.tile]
        <5>1. d \in base[f.tile] + 1 .. lastIds[f.tile]
            BY <3>1
        <5>2. d \in Nat /\ d <= lastIds[f.tile]
            BY <3>2, <5>1
        <5>3. reply[f.tile].to \in Nat /\ From(reply[f.tile]) \in Nat
            BY <1>4, <1>8, <3>1
        <5> QED
            BY <5>2, <5>3
      <4>3. From(reply[f.tile]) < e /\ e \in Nat /\ From(reply[f.tile]) < reply[f.tile].to
        BY <4>1, <4>2
      <4>4. Answers(f.tile)
        <5>1. reply[f.tile].from \in Nat /\ reply[f.tile].from <= From(reply[f.tile])
            BY <1>4, <1>8, <3>1
        <5> QED
            BY <4>2, <4>3, <5>1 DEF Answers
      <4>5. lastIds[f.tile] <= From(reply[f.tile])
        BY <1>11, <3>1, <4>4
      <4> QED
        BY <3>2, <4>2, <4>3, <4>5
    <3>6. \A d \in f.entries : d \in Nat
        BY <3>1, <3>2
    <3> QED
        BY <3>4, <3>5, <3>6 DEF Before
  <2>4. ASSUME NEW f \in ToSet(todo')
        PROVE  f \in Frame /\ Good(f)
    <3>1. /\ f \in Frame /\ f.tile \in Tile /\ f.entries # {}
          /\ f.entries \subseteq From(reply[f.tile]) + 1 .. reply[f.tile].to
          /\ f.offset \in f.entries /\ \A e \in f.entries : e <= f.offset
        BY <1>9, <2>4 DEF Frame
    <3>2. From(reply[f.tile]) \in Nat /\ reply[f.tile].to \in Nat /\ reply[f.tile].from \in Nat
          /\ reply[f.tile].from <= From(reply[f.tile])
        BY <1>4, <1>8, <3>1
    <3>3. Answers(f.tile)
        BY <3>1, <3>2 DEF Answers
    <3>4. /\ lastIds'[f.tile] = reply[f.tile].to /\ lastIds'[f.tile] # Live
          /\ base[f.tile] <= From(reply[f.tile]) /\ base[f.tile] \in Nat
        BY <1>4, <1>10, <1>11, <3>1, <3>3
    <3>5. f.entries \subseteq base[f.tile] + 1 .. lastIds'[f.tile]
        BY <3>1, <3>2, <3>4
    <3> QED
        BY <3>1, <3>4, <3>5
  <2> DEFINE line == content \o todo'
  <2>5. /\ DOMAIN line = 1 .. Len(content) + Len(todo')
        /\ \A i \in 1 .. Len(content) : i \in DOMAIN content /\ line[i] = content[i]
        /\ \A i \in Len(content) + 1 .. Len(content) + Len(todo') :
             /\ i - Len(content) \in DOMAIN todo' /\ line[i] = todo'[i - Len(content)]
        /\ Len(content) \in Nat /\ Len(todo') \in Nat
    BY <1>4, <1>9
  <2> HIDE DEF line, Good
  <2>6. \A i \in DOMAIN line : Good(line[i])
    <3> TAKE i \in DOMAIN line
    <3>1. CASE i \in 1 .. Len(content)
        BY <2>2, <2>3, <2>5, <3>1
    <3>2. CASE i \in Len(content) + 1 .. Len(content) + Len(todo')
        BY <2>4, <2>5, <3>2 DEF ToSet
    <3> QED
        BY <2>5, <3>1, <3>2
  <2>7. \A i, j \in DOMAIN line : i < j /\ line[i].tile = line[j].tile => Before(line[i], line[j])
    <3> TAKE i, j \in DOMAIN line
    <3> HAVE i < j /\ line[i].tile = line[j].tile
    <3>1. CASE j \in 1 .. Len(content)
      <4>1. i \in 1 .. Len(content)
        BY <2>5, <3>1
      <4>2. \A k, l \in DOMAIN content :
              k < l /\ content[k].tile = content[l].tile => Before(content[k], content[l])
        BY <1>3, <2>1 DEF FramesInLine, Ordered
      <4> QED
        BY <2>5, <3>1, <4>1, <4>2
    <3>2. CASE i \in 1 .. Len(content) /\ j \in Len(content) + 1 .. Len(content) + Len(todo')
      <4>1. line[j] \in ToSet(todo')
        BY <2>5, <3>2 DEF ToSet
      <4> QED
        BY <2>2, <2>3, <2>5, <3>2, <4>1
    <3>3. CASE i \in Len(content) + 1 .. Len(content) + Len(todo')
      <4>1. /\ j \in Len(content) + 1 .. Len(content) + Len(todo')
            /\ i - Len(content) < j - Len(content)
        BY <2>5, <3>3
      <4> QED
        BY <1>9, <2>5, <3>3, <4>1 DEF Ordered
    <3> QED
        BY <2>5, <3>1, <3>2, <3>3
  <2>8. Line' = line
    BY <2>1 DEF line
  <2>9. \A i \in DOMAIN Line' : GoodFrame(Line[i])'
    BY <1>2, <2>6, <2>8 DEF GoodFrame, Good
  <2>10. Ordered(Line)'
    <3>1. Aligned' <=> Aligned
        BY <1>2, SameOrder
    <3> QED
        BY <2>7, <2>8, <3>1 DEF Ordered, Before
  <2> QED
    BY <2>9, <2>10 DEF FramesInLine
<1>19. NothingSkipped'
  <2>1. SUFFICES ASSUME offset # Live, NEW t \in Tile, NEW e \in base[t] + 1 .. appended[t],
                        ~(e > lastIds'[t])
                 PROVE  <<t, e>> \in got \union lost' \union Waiting'
    <3>1. offset # Live => \A t \in Tile : lastIds'[t] # Live
        BY <1>12, <1>13
    <3> QED
        BY <1>2, <2>1, <3>1 DEF NothingSkipped, Covered, Ahead
  <2>2. Covered /\ lastIds[t] # Live /\ lastIds[t] \in Nat /\ e \in Nat
    BY <1>4, <1>12, <1>13, <2>1 DEF IInv, NothingSkipped
  <2>3. Waiting \subseteq Waiting' /\ lost \subseteq lost'
    BY <1>1, <1>2, <1>5 DEF Waiting, Entries, ToSet
  <2>4. CASE ~(e > lastIds[t])
    <3>1. <<t, e>> \in got \union lost \union Waiting
        BY <1>1, <2>2, <2>4 DEF Covered, Ahead
    <3> QED
        BY <2>3, <3>1
  <2>5. CASE e > lastIds[t]
    <3>1. Answers(t) /\ e <= reply[t].to
        <4>1. Answers(t)
            BY <1>10, <2>1, <2>5
        <4>2. lastIds'[t] = reply[t].to /\ reply[t].to \in Nat
            BY <1>7, <1>10, <4>1
        <4> QED
            BY <2>1, <2>2, <4>1, <4>2
    <3>2. at[t] = lastIds[t] /\ \A d \in at[t] + 1 .. reply[t].from : <<t, d>> \in lost
        BY <1>5, <2>2, <3>1
    <3>3. reply[t].from \in Nat /\ reply[t].to \in Nat /\ From(reply[t]) \in Nat
        BY <1>4, <1>8
    <3>4. CASE e <= reply[t].from
        BY <2>2, <2>3, <2>5, <3>2, <3>3, <3>4
    <3>5. CASE reply[t].from < e /\ e <= From(reply[t])
        BY <1>8, <2>2, <3>3, <3>5
    <3>6. CASE From(reply[t]) < e
      <4>1. PICK f \in ToSet(todo') : f.tile = t /\ e \in f.entries
        BY <1>9, <2>2, <3>1, <3>3, <3>6
      <4> QED
        BY <4>1 DEF Waiting, Entries
    <3> QED
        BY <2>2, <3>3, <3>4, <3>5, <3>6
  <2> QED
    BY <2>2, <2>4, <2>5
<1>20. CursorTruthful' /\ StartTruthful'
  <2>1. lost \subseteq lost' /\ phase # "gone"
    BY <1>1
  <2>2. CursorTruthful'
    BY <1>2, <2>1 DEF IInv, CursorTruthful, EventsInOrder
  <2>3. StartTruthful'
    BY <1>2, <2>1, SameOrder DEF IInv, StartTruthful
  <2> QED
    BY <2>2, <2>3
<1>21. CursorFromSent' /\ GotBehind' /\ WrittenOnce'
  <2>1. \A t : SentFrames(t)' = SentFrames(t)
    BY <1>2 DEF SentFrames
  <2>2. phase # "gone" /\ phase' # "gone"
    BY <1>1
  <2>3. CursorFromSent'
    BY <1>2, <2>1, <2>2 DEF IInv, CursorFromSent
  <2>4. GotBehind'
    BY <1>2, <2>1, <2>2, SameOrder DEF IInv, GotBehind
  <2>5. WrittenOnce'
    BY <1>2 DEF IInv, WrittenOnce, EventsInOrder
  <2> QED
    BY <2>3, <2>4, <2>5
<1> QED
    BY <1>14, <1>15, <1>16, <1>17, <1>18, <1>19, <1>20, <1>21 DEF IInv

-----------------------------------------------------------------------------
\* Steps that leave the frames alone.

LEMMA PumpUnchanged ==
    ASSUME Pump!IInv, UNCHANGED pumpVars
    PROVE  Pump!IInv'
    BY DEF pumpVars, Pump!IInv, Pump!TypeOK, Pump!FramesBounded, Pump!OneFate, Pump!InOrder,
           Pump!DropsOldest, Pump!NoStall, Pump!Increasing

\* Entries are covered as long as the position stays where it is.
LEMMA CoveredStep ==
    ASSUME IInv, lost \subseteq lost', phase = "gone" => phase' = "gone",
           UNCHANGED <<choices, appended, base, lastIds, todo, content, got, pumpVars>>
    PROVE  NothingSkipped'
<1>1. UNCHANGED <<offset, appended, base, lastIds, todo, content, got, queue>>
    BY DEF choices, pumpVars
<1>2. SUFFICES ASSUME offset # Live, phase # "gone" PROVE Covered'
    BY <1>1 DEF NothingSkipped, Covered
<1>3. Covered /\ \A t \in Tile : lastIds[t] # Live
    BY <1>2 DEF IInv, NothingSkipped, Positions
<1>4. Waiting' = Waiting
    BY <1>1 DEF Waiting, Entries, ToSet
<1>5. \A t \in Tile : \A e \in base[t] + 1 .. appended[t] :
        e > lastIds[t] \/ <<t, e>> \in got \union lost \union Waiting
    BY <1>2, <1>3 DEF Covered, Ahead
<1> QED
    BY <1>1, <1>3, <1>4, <1>5 DEF Covered, Ahead

LEMMA QuietStep ==
    ASSUME IInv, lost \subseteq lost', phase = "gone" => phase' = "gone",
           faults' = 0 => faults = 0 /\ (phase' = "gone" => phase = "gone"),
           UNCHANGED <<choices, stored, base, lastIds, todo, content, got, again, pumpVars>>,
           TypeOK', Numbered', Positions', NothingSkipped'
    PROVE  IInv'
<1>1. /\ UNCHANGED <<offset, streamMode, windowOf, stored, base, lastIds, todo, content, got, again>>
      /\ UNCHANGED sent /\ (Aligned' <=> Aligned)
    BY SameOrder DEF choices, pumpVars
<1>2. Pump!IInv'
    BY PumpUnchanged DEF IInv
<1>3. FramesInLine'
  <2>1. Line' = Line
    BY <1>1 DEF Line
  <2> QED
    BY <1>1, <2>1, SameLine DEF IInv
<1>4. CursorTruthful'
    BY <1>1 DEF IInv, CursorTruthful, EventsInOrder
<1>5. StartTruthful'
    BY <1>1 DEF IInv, StartTruthful
<1>6. \A t : SentFrames(t)' = SentFrames(t)
    BY <1>1 DEF SentFrames
<1>7. CursorFromSent'
    BY <1>1, <1>6 DEF IInv, CursorFromSent
<1>8. WrittenOnce'
    BY <1>1 DEF IInv, WrittenOnce, Aligned
<1>9. GotBehind'
    BY <1>1, <1>6 DEF IInv, GotBehind
<1> QED
    BY <1>2, <1>3, <1>4, <1>5, <1>7, <1>8, <1>9 DEF IInv

LEMMA ExecuteStep ==
    ASSUME IInv, Execute
    PROVE  IInv'
<1> DEFINE None == \A t \in Tile : appended[t] <= Larger(at'[t], trimmed[t])
<1>1. /\ phase = "sent" /\ at' = [t \in Tile |-> Resolved(t)]
      /\ UNCHANGED <<choices, streamVars, stored, disconnected, liveMode, base, lastIds, todo, content,
                     got, again, connections, faults, pumpVars>>
      /\ None => phase' = "blocked" /\ UNCHANGED <<reply, lost>>
      /\ ~None => \E count \in ReadCount :
              /\ phase' = "answered"
              /\ reply' = [t \in Tile |->
                    LET from == Larger(at'[t], trimmed[t]) IN
                      [from |-> from, to |-> Larger(from, IF from + count < appended[t]
                                                   THEN from + count ELSE appended[t])]]
              /\ lost' = lost \union UNION {{<<t, e>> : e \in at'[t] + 1 .. trimmed[t]} : t \in Tile}
    BY DEF Execute
<1>2. UNCHANGED <<offset, streamMode, windowOf, appended, trimmed>>
    BY <1>1 DEF choices, streamVars
<1>3. TypeOK /\ Pump!IInv /\ Numbered /\ Positions /\ phase' \in {"blocked", "answered"}
    BY <1>1 DEF IInv
<1>4. /\ appended \in [Tile -> Nat] /\ trimmed \in [Tile -> Nat] /\ base \in [Tile -> Nat]
      /\ lastIds \in [Tile -> Nat \union {Live}] /\ lost \subseteq Tile \X Nat
      /\ reply \in [Tile -> [from : Nat, to : Nat]]
      /\ \A count \in ReadCount : count \in Nat /\ count # 0
    BY <1>3, SessionAssumption DEF TypeOK
<1>5. \A t \in Tile : /\ at'[t] \in Nat /\ base[t] <= at'[t]
                      /\ lastIds[t] # Live => at'[t] = lastIds[t]
    BY <1>1, <1>3, <1>4 DEF Resolved, Positions
<1>6. at' \in [Tile -> Nat]
    BY <1>1, <1>4 DEF Resolved
\* The answer, if there is one.
<1>7. ASSUME ~None
      PROVE  /\ phase' = "answered" /\ lost \subseteq lost' /\ lost' \subseteq Tile \X Nat
             /\ reply' \in [Tile -> [from : Nat, to : Nat]]
             /\ \A t \in Tile : reply'[t].from <= reply'[t].to
             /\ \E t \in Tile : reply'[t].to > reply'[t].from
             /\ \A t \in Tile : reply'[t].to > reply'[t].from =>
                  /\ at'[t] <= reply'[t].from /\ reply'[t].to <= appended[t]
                  /\ \A e \in at'[t] + 1 .. reply'[t].from : <<t, e>> \in lost'
  <2>1. PICK count \in ReadCount :
          /\ phase' = "answered"
          /\ reply' = [t \in Tile |->
                LET from == Larger(at'[t], trimmed[t]) IN
                  [from |-> from, to |-> Larger(from, IF from + count < appended[t]
                                               THEN from + count ELSE appended[t])]]
          /\ lost' = lost \union UNION {{<<t, e>> : e \in at'[t] + 1 .. trimmed[t]} : t \in Tile}
    BY <1>1, <1>7
  <2> DEFINE from(t) == Larger(at'[t], trimmed[t])
  <2> DEFINE to(t) == Larger(from(t), IF from(t) + count < appended[t] THEN from(t) + count ELSE appended[t])
  <2>2. \A t \in Tile : reply'[t] = [from |-> from(t), to |-> to(t)]
    BY <2>1
  <2>3. \A t \in Tile : /\ from(t) \in Nat /\ at'[t] <= from(t)
                        /\ from(t) = at'[t] \/ from(t) = trimmed[t]
    BY <1>4, <1>5 DEF Larger
  <2>4. \A t \in Tile : ~(appended[t] <= from(t)) => from(t) < to(t)
    BY <1>4, <2>1, <2>3 DEF Larger
  <2>5. \A t \in Tile : /\ to(t) \in Nat /\ from(t) <= to(t)
                        /\ from(t) < to(t) => to(t) <= appended[t]
    BY <1>4, <2>1, <2>3 DEF Larger
  <2>6. \E t \in Tile : ~(appended[t] <= from(t))
    BY <1>7
  <2>7. reply' \in [Tile -> [from : Nat, to : Nat]]
    BY <2>1, <2>3, <2>5
  <2> HIDE DEF from, to
  <2>8. \A t \in Tile : \A e \in at'[t] + 1 .. from(t) : <<t, e>> \in lost'
    <3> TAKE t \in Tile
    <3> TAKE e \in at'[t] + 1 .. from(t)
    <3>1. CASE from(t) = at'[t]
        BY <1>5, <3>1
    <3>2. CASE from(t) = trimmed[t]
        BY <2>1, <3>2
    <3> QED
        BY <2>3, <3>1, <3>2
  <2>9. lost' \subseteq Tile \X Nat
    <3>1. \A t \in Tile : \A e \in at'[t] + 1 .. trimmed[t] : e \in Nat
        BY <1>4, <1>5
    <3> QED
        BY <1>4, <2>1, <3>1
  <2> QED
    BY <2>1, <2>2, <2>3, <2>4, <2>5, <2>6, <2>7, <2>8, <2>9
<1>8. ASSUME None
      PROVE  phase' = "blocked" /\ UNCHANGED <<reply, lost>>
    BY <1>1, <1>8
<1> HIDE DEF None
<1>9. lost \subseteq lost' /\ lost' \subseteq Tile \X Nat /\ reply' \in [Tile -> [from : Nat, to : Nat]]
    BY <1>4, <1>7, <1>8
<1>10. TypeOK'
  <2>1. Pump!TypeOK'
    BY <1>1, <1>3, PumpUnchanged DEF Pump!IInv
  <2> QED
    BY <1>1, <1>2, <1>3, <1>6, <1>9, <2>1 DEF TypeOK, Serving
<1>11. Numbered'
    BY <1>1, <1>3 DEF Numbered, pumpVars
<1>12. Positions'
  <2>1. CASE None
    BY <1>1, <1>2, <1>3, <1>5, <1>8, <2>1 DEF Positions
  <2>2. CASE ~None
    BY <1>1, <1>2, <1>3, <1>5, <1>7, <2>2 DEF Positions, Answers
  <2> QED
    BY <2>1, <2>2
<1>13. NothingSkipped'
    BY <1>1, <1>9, CoveredStep DEF streamVars
<1> QED
    BY <1>1, <1>3, <1>9, <1>10, <1>11, <1>12, <1>13, QuietStep

LEMMA ArriveStep ==
    ASSUME IInv, NEW t \in Tile, Arrive(t)
    PROVE  IInv'
<1> DEFINE Wakes == phase = "blocked" /\ appended[t] >= at[t]
<1>1. /\ appended[t] < MaxEntries[t] /\ appended' = [appended EXCEPT ![t] = @ + 1]
      /\ phase # "handling"
      /\ UNCHANGED <<choices, trimmed, stored, disconnected, liveMode, base, lastIds, at, todo, content,
                     got, again, connections, faults, pumpVars>>
      /\ ~Wakes => UNCHANGED <<phase, reply, lost>>
      /\ Wakes => /\ phase' = "answered"
                  /\ reply' = [NoReply EXCEPT ![t] = [from |-> appended[t], to |-> appended[t] + 1]]
                  /\ lost' = lost \union {<<t, e>> : e \in at[t] + 1 .. appended[t]}
    BY DEF Arrive
<1>2. UNCHANGED <<offset, streamMode, windowOf, queue>>
    BY <1>1 DEF choices, pumpVars
<1>3. TypeOK /\ Pump!IInv /\ Numbered /\ Positions
    BY DEF IInv
<1>4. /\ appended \in [Tile -> Nat] /\ at \in [Tile -> Nat] /\ base \in [Tile -> Nat]
      /\ lastIds \in [Tile -> Nat \union {Live}] /\ MaxEntries \in [Tile -> Nat]
      /\ \A u \in Tile : trimmed[u] <= appended[u] /\ appended[u] <= MaxEntries[u]
      /\ trimmed \in [Tile -> Nat] /\ lost \subseteq Tile \X Nat
      /\ reply \in [Tile -> [from : Nat, to : Nat]]
    BY <1>3, SessionAssumption DEF TypeOK
<1>5. /\ appended' \in [Tile -> Nat] /\ appended'[t] = appended[t] + 1
      /\ \A u \in Tile : /\ u # t => appended'[u] = appended[u]
                         /\ appended[u] <= appended'[u] /\ appended'[u] <= MaxEntries[u]
                         /\ trimmed[u] <= appended'[u]
    BY <1>1, <1>4
<1>6. ASSUME Wakes
      PROVE  /\ reply' \in [Tile -> [from : Nat, to : Nat]]
             /\ \A u \in Tile : reply'[u].from <= reply'[u].to
             /\ reply'[t].to > reply'[t].from
             /\ \A u \in Tile : reply'[u].to > reply'[u].from =>
                  /\ at[u] <= reply'[u].from /\ reply'[u].to <= appended'[u]
                  /\ \A e \in at[u] + 1 .. reply'[u].from : <<u, e>> \in lost'
             /\ lost \subseteq lost' /\ lost' \subseteq Tile \X Nat
  <2>1. /\ reply' = [u \in Tile |-> IF u = t THEN [from |-> appended[t], to |-> appended[t] + 1]
                                    ELSE [from |-> 0, to |-> 0]]
        /\ lost' = lost \union {<<t, e>> : e \in at[t] + 1 .. appended[t]}
    BY <1>1, <1>6 DEF NoReply
  <2>2. \A e \in at[t] + 1 .. appended[t] : e \in Nat
    BY <1>4
  <2>3. \A u \in Tile : /\ u = t => reply'[u].from = appended[t] /\ reply'[u].to = appended[t] + 1
                        /\ u # t => reply'[u].from = 0 /\ reply'[u].to = 0
    BY <2>1
  <2>4. reply' \in [Tile -> [from : Nat, to : Nat]]
    BY <1>4, <2>1
  <2>5. at[t] <= appended[t]
    BY <1>4, <1>6
  <2>6. appended[t] < appended[t] + 1 /\ appended[t] + 1 > appended[t] /\ ~(0 > 0) /\ 0 <= 0
        /\ appended[t] <= appended[t] + 1 /\ appended[t] + 1 <= appended[t] + 1
    BY <1>4
  <2> QED
    BY <1>4, <1>5, <2>1, <2>2, <2>3, <2>4, <2>5, <2>6
<1>7. /\ lost \subseteq lost' /\ lost' \subseteq Tile \X Nat
      /\ reply' \in [Tile -> [from : Nat, to : Nat]]
      /\ phase = "gone" <=> phase' = "gone"
      /\ phase' = "handling" <=> phase = "handling"
      /\ phase' \in Serving \union {"handling", "gone"}
    BY <1>1, <1>3, <1>4, <1>6 DEF Serving, TypeOK
<1>8. TypeOK'
  <2>1. Pump!TypeOK'
    BY <1>1, <1>3, PumpUnchanged DEF Pump!IInv
  <2> QED
    BY <1>1, <1>2, <1>3, <1>5, <1>7, <2>1 DEF TypeOK
<1>9. Numbered'
    BY <1>1, <1>3, <1>7 DEF Numbered, pumpVars
<1>10. Positions'
  <2>1. \A u \in Tile :
          IF lastIds[u] = Live THEN base[u] <= appended'[u]
          ELSE /\ base[u] <= lastIds[u]
               /\ lastIds[u] = base[u] \/ lastIds[u] <= appended'[u]
    <3> TAKE u \in Tile
    <3>1. CASE lastIds[u] = Live
      <4>1. base[u] <= appended[u] /\ appended[u] <= appended'[u]
        BY <1>3, <1>5, <3>1 DEF Positions
      <4>2. base[u] \in Nat /\ appended[u] \in Nat /\ appended'[u] \in Nat
        BY <1>4, <1>5
      <4> QED
        BY <3>1, <4>1, <4>2
    <3>2. CASE lastIds[u] # Live
      <4>1. /\ base[u] <= lastIds[u] /\ appended[u] <= appended'[u]
            /\ lastIds[u] = base[u] \/ lastIds[u] <= appended[u]
        BY <1>3, <1>5, <3>2 DEF Positions
      <4>2. lastIds[u] \in Nat /\ appended[u] \in Nat /\ appended'[u] \in Nat
        BY <1>4, <1>5, <3>2
      <4> QED
        BY <3>2, <4>1, <4>2
    <3> QED
        BY <3>1, <3>2
  <2>2. CASE Wakes
    <3>1. phase = "blocked" /\ phase' = "answered"
        BY <1>1, <2>2
    <3> HIDE DEF Wakes
    <3> QED
        BY <1>1, <1>2, <1>3, <1>6, <2>1, <2>2, <3>1 DEF Positions, Answers
  <2>3. CASE ~Wakes
    <3>1. UNCHANGED <<phase, reply, lost>>
        BY <1>1, <2>3
    <3> HIDE DEF Wakes
    <3>2. phase = "answered" => \A u \in Tile : Answers(u) =>
            /\ at[u] <= reply[u].from /\ reply[u].to <= appended'[u]
            /\ \A e \in at[u] + 1 .. reply[u].from : <<u, e>> \in lost
      <4> SUFFICES ASSUME phase = "answered", NEW u \in Tile, Answers(u)
                   PROVE  /\ at[u] <= reply[u].from /\ reply[u].to <= appended'[u]
                          /\ \A e \in at[u] + 1 .. reply[u].from : <<u, e>> \in lost
        OBVIOUS
      <4>1. /\ at[u] <= reply[u].from /\ reply[u].to <= appended[u] /\ appended[u] <= appended'[u]
            /\ \A e \in at[u] + 1 .. reply[u].from : <<u, e>> \in lost
        BY <1>3, <1>5 DEF Positions
      <4>2. reply[u].to \in Nat /\ appended[u] \in Nat /\ appended'[u] \in Nat
        BY <1>4, <1>5
      <4> QED
        BY <4>1, <4>2
    <3> QED
        BY <1>1, <1>2, <1>3, <2>1, <3>1, <3>2 DEF Positions, Answers
  <2> QED
    BY <2>2, <2>3
<1> HIDE DEF Wakes
<1>11. NothingSkipped'
  <2>1. SUFFICES ASSUME offset # Live, phase # "gone" PROVE Covered'
    BY <1>2, <1>7 DEF NothingSkipped, Covered
  <2>2. Covered /\ \A u \in Tile : lastIds[u] # Live
    BY <1>3, <2>1 DEF IInv, NothingSkipped, Positions
  <2>3. Waiting' = Waiting
    BY <1>1, <1>2 DEF Waiting, Entries, ToSet
  <2>4. ASSUME NEW u \in Tile, NEW e \in base[u] + 1 .. appended'[u], ~(e > lastIds[u])
        PROVE  <<u, e>> \in got \union lost \union Waiting
    <3>1. /\ lastIds[u] \in Nat /\ e \in Nat /\ base[u] < e /\ e <= lastIds[u]
          /\ base[u] \in Nat /\ appended[u] \in Nat
        BY <1>4, <1>5, <2>2, <2>4
    <3>2. lastIds[u] <= appended[u]
        BY <1>3, <2>2, <3>1 DEF Positions
    <3>3. e \in base[u] + 1 .. appended[u]
        BY <3>1, <3>2
    <3> QED
        BY <2>1, <2>2, <2>4, <3>3 DEF Covered, Ahead
  <2> QED
    BY <1>1, <1>7, <2>2, <2>3, <2>4 DEF Covered, Ahead
<1> QED
    BY <1>1, <1>7, <1>8, <1>9, <1>10, <1>11, QuietStep

LEMMA TrimStep ==
    ASSUME IInv, NEW t \in Tile, Trim(t)
    PROVE  IInv'
<1>1. /\ trimmed[t] < appended[t] /\ trimmed' = [trimmed EXCEPT ![t] = @ + 1]
      /\ UNCHANGED <<choices, appended, stored, phase, disconnected, readVars, todo, content, history,
                     connections, faults, pumpVars>>
    BY DEF Trim
<1>2. UNCHANGED <<offset, streamMode, windowOf, liveMode, base, lastIds, at, reply, got, again, lost>>
    BY <1>1 DEF choices, readVars, history
<1>3. TypeOK /\ Pump!IInv /\ Numbered /\ Positions
    BY DEF IInv
<1>4. trimmed' \in [Tile -> Nat] /\ \A u \in Tile : trimmed'[u] <= appended[u]
    BY <1>1, <1>3 DEF TypeOK
<1>5. TypeOK'
  <2>1. Pump!TypeOK'
    BY <1>1, <1>3, PumpUnchanged DEF Pump!IInv
  <2> QED
    BY <1>1, <1>2, <1>3, <1>4, <2>1 DEF TypeOK
<1>6. Numbered'
    BY <1>1, <1>3 DEF Numbered, pumpVars
<1>7. Positions'
    BY <1>1, <1>2, <1>3 DEF Positions, Answers
<1>8. NothingSkipped'
    BY <1>1, <1>2, CoveredStep
<1> QED
    BY <1>1, <1>2, <1>5, <1>6, <1>7, <1>8, QuietStep

\* The loop goes round, an XREAD is sent again, or the backend dies.
LEMMA PhaseStep ==
    ASSUME IInv, phase \in {"handling", "gone"} => phase' = "gone",
           phase' \in {"sent", "paused", "gone"},
           faults' \in Nat, faults' = 0 => faults = 0 /\ (phase' = "gone" => phase = "gone"),
           reply' \in {reply, NoReply},
           UNCHANGED <<choices, streamVars, stored, disconnected, liveMode, base, lastIds, at, todo,
                       content, history, connections, pumpVars>>
    PROVE  IInv'
<1>1. UNCHANGED <<offset, streamMode, windowOf, appended, trimmed, got, again, lost>>
    BY DEF choices, streamVars, history
<1>2. TypeOK /\ Pump!IInv /\ Numbered /\ Positions
    BY DEF IInv
<1>3. TypeOK'
  <2>1. Pump!TypeOK'
    BY <1>2, PumpUnchanged DEF Pump!IInv
  <2>2. reply' \in [Tile -> [from : Nat, to : Nat]]
    <3>1. NoReply \in [Tile -> [from : Nat, to : Nat]]
        BY DEF NoReply
    <3>2. reply \in [Tile -> [from : Nat, to : Nat]]
        BY <1>2 DEF TypeOK
    <3> QED
        BY <3>1, <3>2
  <2> QED
    BY <1>1, <1>2, <2>1, <2>2 DEF TypeOK, Serving
<1>4. Numbered'
    BY <1>2 DEF Numbered, pumpVars
<1>5. Positions'
    BY <1>1, <1>2 DEF Positions
<1>6. NothingSkipped'
    BY <1>1, CoveredStep DEF streamVars
<1> QED
    BY <1>1, <1>3, <1>4, <1>5, <1>6, QuietStep

\* The cursor is flushed, and with the connection's end the pump is closed.
LEMMA FlushedStep ==
    ASSUME IInv, phase \in Serving, stored' = Flushed, disconnected' \in BOOLEAN, faults' \in Nat,
           faults' = 0 => faults = 0,
           UNCHANGED <<choices, streamVars, liveMode, base, lastIds, at, todo, content, history,
                       connections>>,
           \/ UNCHANGED <<phase, reply, pumpVars>>
           \/ Pump!Close /\ phase' = "gone" /\ reply' = NoReply
    PROVE  IInv'
<1>1. UNCHANGED <<offset, streamMode, windowOf, appended, trimmed, got, again, lost>>
    BY DEF choices, streamVars, history
<1>2. TypeOK /\ Pump!IInv /\ Numbered /\ Positions /\ FramesInLine /\ phase # "gone" /\ phase # "handling"
    BY DEF IInv, Serving
<1>3. Pump!IInv' /\ UNCHANGED <<offered, sent>>
  <2>1. CASE UNCHANGED pumpVars
    <3>1. UNCHANGED <<offered, sent>>
        BY <2>1 DEF pumpVars
    <3> QED
        BY <1>2, <2>1, <3>1, PumpUnchanged
  <2>2. CASE Pump!Close
    BY <1>2, <2>2, PumpClose
  <2> QED
    BY <2>1, <2>2
<1>4. /\ Flushed \in [Tile -> Nat]
      /\ offset = 0 /\ Aligned =>
           \A t \in Tile : \A e \in 1 .. Flushed[t] : <<t, e>> \in got \union lost
      /\ UseCursor => \A t \in Tile :
           Flushed[t] <= base[t] \/ \E f \in SentFrames(t) : Flushed[t] = f.offset
      /\ UseCursor /\ faults = 0 /\ Aligned =>
           \A t \in Tile, e \in Nat : <<t, e>> \in got => e <= Flushed[t]
    BY <1>2, FlushedFacts, FlushStep
<1>5. TypeOK'
  <2>1. Pump!TypeOK'
    BY <1>3 DEF Pump!IInv
  <2>2. reply' \in [Tile -> [from : Nat, to : Nat]]
    <3>1. NoReply \in [Tile -> [from : Nat, to : Nat]]
        BY DEF NoReply
    <3>2. reply \in [Tile -> [from : Nat, to : Nat]]
        BY <1>2 DEF TypeOK
    <3> QED
        BY <3>1, <3>2
  <2>3. phase' \in Serving \union {"handling", "gone"}
    BY <1>2 DEF TypeOK
  <2> QED
    BY <1>1, <1>2, <1>4, <2>1, <2>2, <2>3 DEF TypeOK
<1>6. Numbered'
    BY <1>2, <1>3 DEF Numbered, pumpVars
<1>7. Positions'
    BY <1>1, <1>2 DEF Positions, Answers
<1>8. FramesInLine'
  <2>1. Line' = Line
    BY DEF Line
  <2> QED
    BY <1>1, <1>2, <2>1, SameLine
<1>9. NothingSkipped'
  <2>1. CASE phase' = "gone"
    BY <2>1 DEF NothingSkipped, Covered
  <2>2. CASE UNCHANGED <<phase, reply, pumpVars>>
    BY <1>1, <2>2, CoveredStep
  <2> QED
    BY <2>1, <2>2
<1>10. Aligned' <=> Aligned
    BY <1>1, SameOrder
<1>11. \A t : SentFrames(t)' = SentFrames(t)
    BY <1>3 DEF SentFrames
<1>12. CursorTruthful'
    BY <1>1, <1>4, <1>10 DEF CursorTruthful, Aligned
<1>13. StartTruthful'
    BY <1>1, <1>2, <1>10 DEF IInv, StartTruthful
<1>14. CursorFromSent'
    BY <1>4, <1>11 DEF CursorFromSent
<1>15. GotBehind'
    BY <1>1, <1>4, <1>10 DEF GotBehind
<1>16. WrittenOnce'
    BY <1>1, <1>10 DEF IInv, WrittenOnce, Aligned
<1> QED
    BY <1>3, <1>5, <1>6, <1>7, <1>8, <1>9, <1>12, <1>13, <1>14, <1>15, <1>16 DEF IInv

\* The next connection starts from the cursor, or from what was asked for.
LEMMA OpenStep ==
    ASSUME IInv, Open
    PROVE  IInv'
<1> DEFINE start == [t \in Tile |-> IF UseCursor /\ stored[t] # 0 THEN stored[t] ELSE offset]
<1>1. /\ phase = "gone" /\ lastIds' = start
      /\ base' = [t \in Tile |-> IF start[t] = Live THEN appended[t] ELSE start[t]]
      /\ phase' = "sent" /\ disconnected' = FALSE /\ todo' = <<>> /\ content' = <<>>
      /\ queue' = <<>> /\ waitingDrain' = FALSE /\ closed' = FALSE
      /\ offered' = 0 /\ sent' = <<>> /\ dropped' = {} /\ refused' = {}
      /\ UNCHANGED <<choices, streamVars, stored, at, reply, history, faults>>
    BY DEF Open
<1>2. UNCHANGED <<offset, streamMode, windowOf, appended, trimmed, got, again, lost>>
    BY <1>1 DEF choices, streamVars, history
<1>3. TypeOK
    BY DEF IInv
<1>4. stored \in [Tile -> Nat] /\ appended \in [Tile -> Nat] /\ offset \in Nat \union {Live}
    BY <1>3, SessionAssumption DEF TypeOK
<1>5. \A t \in Tile :
        /\ start[t] = IF UseCursor /\ stored[t] # 0 THEN stored[t] ELSE offset
        /\ start[t] \in Nat \union {Live}
        /\ base'[t] = IF start[t] = Live THEN appended[t] ELSE start[t]
        /\ base'[t] \in Nat
    BY <1>1, <1>4
<1>6. base' \in [Tile -> Nat] /\ lastIds' \in [Tile -> Nat \union {Live}]
    BY <1>1, <1>4, <1>5
<1> HIDE DEF start
<1>7. Pump!IInv'
    BY <1>1, PumpEmpty
<1>8. TypeOK'
  <2>1. Pump!TypeOK' /\ <<>> \in Seq(Frame)
    BY <1>7 DEF Pump!IInv
  <2> QED
    BY <1>1, <1>2, <1>3, <1>6, <2>1 DEF TypeOK, Serving
<1>9. Numbered'
    BY <1>1 DEF Numbered
<1>10. Positions'
  <2>1. \A t \in Tile :
          IF lastIds'[t] = Live THEN base'[t] <= appended[t]
          ELSE base'[t] <= lastIds'[t] /\ lastIds'[t] = base'[t]
    BY <1>1, <1>4, <1>5
  <2>2. offset # Live => \A t \in Tile : lastIds'[t] # Live
    BY <1>1, <1>4, <1>5 DEF Live
  <2> QED
    BY <1>1, <1>2, <2>1, <2>2 DEF Positions
<1>11. FramesInLine'
  <2>1. DOMAIN Line' = {}
    BY <1>1 DEF Line
  <2> QED
    BY <2>1 DEF FramesInLine, Ordered
<1>12. NothingSkipped'
  <2>1. ASSUME NEW t \in Tile, NEW e \in base'[t] + 1 .. appended[t]
        PROVE  lastIds'[t] # Live /\ e > lastIds'[t]
    <3>1. CASE start[t] = Live
        BY <1>4, <1>5, <2>1, <3>1
    <3>2. CASE start[t] # Live
        BY <1>1, <1>4, <1>5, <2>1, <3>2
    <3> QED
        BY <3>1, <3>2
  <2> QED
    BY <1>2, <2>1 DEF NothingSkipped, Covered, Ahead
<1>13. CursorTruthful'
    BY <1>1, <1>2 DEF IInv, CursorTruthful, EventsInOrder
<1>14. StartTruthful'
  <2>1. SUFFICES ASSUME offset = 0, Aligned, NEW t \in Tile, NEW e \in 1 .. base'[t]
                 PROVE  <<t, e>> \in got \union lost
    BY <1>2, SameOrder DEF StartTruthful
  <2>2. base'[t] = stored[t]
    <3>1. start[t] # Live /\ base'[t] = start[t]
        BY <1>4, <1>5, <2>1 DEF Live
    <3>2. stored[t] # 0
        BY <1>5, <2>1, <3>1
    <3>3. \/ start[t] = stored[t]
          \/ start[t] = 0
        BY <1>5, <2>1
    <3>4. base'[t] # 0
        BY <2>1
    <3> QED
        BY <3>1, <3>3, <3>4
  <2> QED
    BY <2>1, <2>2 DEF IInv, CursorTruthful, Aligned
<1>15. CursorFromSent'
  <2>1. ASSUME UseCursor, NEW t \in Tile PROVE stored[t] <= base'[t]
    <3>1. stored[t] \in Nat /\ base'[t] \in Nat
        BY <1>4, <1>5
    <3>2. CASE stored[t] = 0
        BY <3>1, <3>2
    <3>3. CASE stored[t] # 0
        BY <1>4, <1>5, <2>1, <3>3 DEF Live
    <3> QED
        BY <3>2, <3>3
  <2> QED
    BY <1>1, <2>1 DEF CursorFromSent
<1>16. GotBehind'
  <2>1. UseCursor /\ faults = 0 /\ Aligned =>
          \A t \in Tile, e \in Nat : <<t, e>> \in got => e <= stored[t]
    BY <1>1 DEF IInv, GotBehind
  <2> QED
    BY <1>1, <1>2, <2>1, SameOrder DEF GotBehind
<1>17. WrittenOnce'
    BY <1>1, <1>2 DEF IInv, WrittenOnce, EventsInOrder
<1> QED
    BY <1>7, <1>8, <1>9, <1>10, <1>11, <1>12, <1>13, <1>14, <1>15, <1>16, <1>17 DEF IInv

-----------------------------------------------------------------------------
\* The invariant.

LEMMA InitStep == Init => IInv
<1> SUFFICES ASSUME Init PROVE IInv
    OBVIOUS
<1>1. /\ offset \in Offsets /\ streamMode \in Modes
      /\ windowOf \in IF streamMode = "aggregate" THEN Windows ELSE {<<>>}
      /\ appended = [t \in Tile |-> 0] /\ trimmed = [t \in Tile |-> 0]
      /\ stored = [t \in Tile |-> 0]
      /\ phase = "gone" /\ disconnected = FALSE
      /\ base = [t \in Tile |-> 0] /\ lastIds = [t \in Tile |-> 0] /\ at = [t \in Tile |-> 0]
      /\ reply = NoReply /\ todo = <<>> /\ content = <<>>
      /\ got = {} /\ again = {} /\ lost = {} /\ faults = 0
    BY DEF Init
<1>2. Pump!IInv /\ offered = 0
    BY PumpInit DEF Init, Pump!Init
<1>3. MaxEntries \in [Tile -> Nat]
    BY SessionAssumption
<1>4. TypeOK
  <2>1. Pump!TypeOK /\ <<>> \in Seq(Frame)
    BY <1>2 DEF Pump!IInv
  <2>2. /\ appended \in [Tile -> Nat] /\ trimmed \in [Tile -> Nat] /\ stored \in [Tile -> Nat]
        /\ \A t \in Tile : trimmed[t] <= appended[t] /\ appended[t] <= MaxEntries[t]
        /\ base \in [Tile -> Nat] /\ at \in [Tile -> Nat]
        /\ lastIds \in [Tile -> Nat \union {Live}]
    BY <1>1, <1>3
  <2>3. reply \in [Tile -> [from : Nat, to : Nat]]
    BY <1>1 DEF NoReply
  <2>4. streamMode = "aggregate" => windowOf \in Windows
    BY <1>1
  <2> QED
    BY <1>1, <2>1, <2>2, <2>3, <2>4 DEF TypeOK
<1>5. Numbered
    BY <1>1, <1>2 DEF Numbered
<1>6. Positions
    BY <1>1 DEF Positions, Live
<1>7. FramesInLine
  <2>1. DOMAIN Line = {}
    BY <1>1 DEF Line
  <2> QED
    BY <2>1 DEF FramesInLine, Ordered
<1>8. NothingSkipped /\ StartTruthful /\ CursorFromSent
    BY <1>1 DEF NothingSkipped, Covered, StartTruthful, CursorFromSent
<1>9. CursorTruthful
    BY <1>1 DEF CursorTruthful
<1>10. GotBehind /\ WrittenOnce
    BY <1>1 DEF GotBehind, WrittenOnce
<1> QED
    BY <1>2, <1>4, <1>5, <1>6, <1>7, <1>8, <1>9, <1>10 DEF IInv

LEMMA StutterStep ==
    ASSUME IInv, UNCHANGED vars
    PROVE  IInv'
<1>1. /\ UNCHANGED <<choices, stored, base, lastIds, todo, content, got, again, lost, pumpVars>>
      /\ UNCHANGED <<appended, trimmed, disconnected, phase, at, reply, faults>>
    BY DEF vars, streamVars, readVars, history
<1>2. UNCHANGED <<offset, streamMode, windowOf>>
    BY <1>1 DEF choices
<1>3. TypeOK'
  <2>1. Pump!TypeOK'
    BY <1>1, PumpUnchanged DEF IInv, Pump!IInv
  <2> QED
    BY <1>1, <1>2, <2>1 DEF IInv, TypeOK
<1>4. Numbered'
    BY <1>1 DEF IInv, Numbered, pumpVars
<1>5. Positions'
    BY <1>1, <1>2 DEF IInv, Positions, Answers
<1>6. NothingSkipped'
    BY <1>1, CoveredStep
<1> QED
    BY <1>1, <1>3, <1>4, <1>5, <1>6, QuietStep

LEMMA NextStep == IInv /\ [Next]_vars => IInv'
<1> SUFFICES ASSUME IInv, [Next]_vars PROVE IInv'
    OBVIOUS
<1>0. faults \in Nat /\ NoReply = NoReply /\ disconnected \in BOOLEAN
    BY DEF IInv, TypeOK
<1>1. CASE Open
    BY <1>1, OpenStep
<1>2. CASE Execute
    BY <1>2, ExecuteStep
<1>3. CASE BlockTimeout
  <2>1. phase = "blocked" /\ phase' \in {"sent", "paused"}
    BY <1>3 DEF BlockTimeout, LoopTop
  <2>2. UNCHANGED <<choices, streamVars, stored, disconnected, liveMode, base, lastIds, at, reply,
                    todo, content, history, connections, faults, pumpVars>>
    BY <1>3 DEF BlockTimeout, readVars
  <2> QED
    BY <1>0, <2>1, <2>2, PhaseStep
<1>4. CASE Handle
    BY <1>4, HandleStep
<1>5. CASE EnqueueNext
    BY <1>5, EnqueueStep
<1>6. CASE Wake
  <2>1. phase = "paused" /\ phase' = "sent"
    BY <1>6 DEF Wake
  <2>2. UNCHANGED <<choices, streamVars, stored, disconnected, liveMode, base, lastIds, at, reply,
                    todo, content, history, connections, faults, pumpVars>>
    BY <1>6 DEF Wake, readVars
  <2> QED
    BY <1>0, <2>1, <2>2, PhaseStep
<1>7. CASE Drain
    BY <1>7, DrainStep
<1>8. CASE Heartbeat
  <2>1. phase \in Serving /\ stored' = Flushed
    BY <1>8 DEF Heartbeat
  <2>2. UNCHANGED <<choices, streamVars, phase, disconnected, liveMode, base, lastIds, at, reply,
                    todo, content, history, connections, faults, pumpVars>>
    BY <1>8 DEF Heartbeat, readVars
  <2> QED
    BY <1>0, <2>1, <2>2, FlushedStep
<1>9. CASE CloseEvent
  <2>1. phase \in Serving /\ stored' = Flushed /\ disconnected' = TRUE
    BY <1>9 DEF CloseEvent
  <2>2. UNCHANGED <<choices, streamVars, phase, liveMode, base, lastIds, at, reply,
                    todo, content, history, connections, faults, pumpVars>>
    BY <1>9 DEF CloseEvent, readVars
  <2> QED
    BY <1>0, <2>1, <2>2, FlushedStep
<1>10. CASE Finish
  <2>1. /\ phase \in Serving /\ stored' = Flushed /\ Pump!Close /\ phase' = "gone" /\ reply' = NoReply
        /\ faults' = faults \/ faults' = faults + 1
        /\ UNCHANGED <<choices, streamVars, disconnected, liveMode, base, lastIds, at, todo, content,
                       history, connections>>
    BY <1>10 DEF Finish
  <2>2. faults' \in Nat /\ (faults' = 0 => faults = 0)
    BY <1>0, <2>1
  <2> QED
    BY <1>0, <2>1, <2>2, FlushedStep
<1>11. CASE Resend
  <2>1. /\ phase \in {"blocked", "answered"} /\ phase' = "sent" /\ reply' = NoReply
        /\ faults' = faults + 1
        /\ UNCHANGED <<choices, streamVars, stored, disconnected, liveMode, base, lastIds, at, todo,
                       content, history, connections, pumpVars>>
    BY <1>11 DEF Resend
  <2>2. faults' \in Nat /\ faults' # 0
    BY <1>0, <2>1
  <2> QED
    BY <2>1, <2>2, PhaseStep
<1>12. CASE Crash
  <2>1. /\ phase' = "gone" /\ reply' = NoReply /\ faults' = faults + 1
        /\ UNCHANGED <<choices, streamVars, stored, disconnected, liveMode, base, lastIds, at, todo,
                       content, history, connections, pumpVars>>
    BY <1>12 DEF Crash
  <2>2. faults' \in Nat /\ faults' # 0
    BY <1>0, <2>1
  <2> QED
    BY <2>1, <2>2, PhaseStep
<1>13. CASE \E t \in Tile : Arrive(t) \/ Trim(t)
    BY <1>13, ArriveStep, TrimStep
<1>14. CASE UNCHANGED vars
    BY <1>14, StutterStep
<1> QED
    BY <1>1, <1>2, <1>3, <1>4, <1>5, <1>6, <1>7, <1>8, <1>9, <1>10, <1>11, <1>12, <1>13, <1>14 DEF Next

\* Type correctness and all that follows, for any number of tiles, entries,
\* connections and faults: what the other theorems of this module rest on.
THEOREM Invariant == Spec => []IInv
    BY InitStep, NextStep, PTL DEF Spec

\* While a connection that asked for a position lives, no pause, batch, partial
\* answer or repeated XREAD leaves a gap between the entries it passes on.
THEOREM SkipTheorem == Spec => []NothingSkipped
<1>1. IInv => NothingSkipped
    BY DEF IInv
<1> QED
    BY <1>1, Invariant, PTL

\* A cursor stands only for entries that were written or reported lost, so the
\* next connection resumes without a gap, also after a crash.
THEOREM CursorTheorem == Spec => []CursorTruthful
<1>1. IInv => CursorTruthful
    BY DEF IInv
<1> QED
    BY <1>1, Invariant, PTL

\* Without failures, no entry is written twice across the connections of a
\* cursor.
THEOREM OnceTheorem == Spec => []WrittenOnce
<1>1. IInv => WrittenOnce
    BY DEF IInv
<1> QED
    BY <1>1, Invariant, PTL

\* Frames of a tile reach the socket in the order of its entries, whatever was
\* dropped between them.
THEOREM OrderTheorem == Spec => []InOrder
<1>1. ASSUME IInv PROVE InOrder
  <2>1. SUFFICES ASSUME NEW i \in DOMAIN sent, NEW j \in DOMAIN sent, i < j,
                        content[sent[i].id].tile = content[sent[j].id].tile,
                        NEW a \in content[sent[i].id].entries, NEW b \in content[sent[j].id].entries
                 PROVE  IF streamMode = "event" THEN a < b ELSE a # b
    BY DEF InOrder
  <2>2. sent[i] \in ToSet(sent) /\ sent[j] \in ToSet(sent)
    BY DEF ToSet
  <2>3. sent[i].id < sent[j].id
    BY <1>1, <2>1, PumpFates DEF IInv, Fates
  <2>4. Before(content[sent[i].id], content[sent[j].id])
    BY <1>1, <2>1, <2>2, <2>3, LineFacts DEF IInv
  <2>5. IF Aligned THEN a < b ELSE a # b
    BY <2>4 DEF Before
  <2>6. a \in Nat /\ b \in Nat
    <3>1. content[sent[i].id] \in Frame /\ content[sent[j].id] \in Frame
        BY <1>1, <2>2, LineFacts DEF IInv
    <3> QED
        BY <3>1 DEF Frame
  <2> QED
    BY <2>5, <2>6 DEF Aligned
<1> QED
    BY <1>1, Invariant, PTL
=============================================================================
