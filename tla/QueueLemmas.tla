----------------------------- MODULE QueueLemmas -----------------------------
(***************************************************************************)
(* Lemmas about sequences used as queues: what appending, taking and       *)
(* joining do to the kind, the elements and the order of what is in them.  *)
(* And induction over the natural numbers, stated of sets of them.         *)
(***************************************************************************)
EXTENDS Integers, Sequences, SequencesExt, SequenceTheorems, WellFoundedInduction, TLAPS

-----------------------------------------------------------------------------
(* Induction: the provers do not instantiate a theorem about an operator,  *)
(* so it is about the set of the numbers that have a property.             *)

\* A set of numbers that is not empty has a least one.
LEMMA LeastNumber ==
    ASSUME NEW T \in SUBSET Nat, T # {}
    PROVE  \E m \in T : \A y \in T : m <= y
<1> DEFINE R == OpToRel(<, Nat)
<1>1. IsWellFoundedOn(R, Nat)
    BY NatLessThanWellFounded
<1>2. PICK m \in T : \A y \in T : ~(<<y, m>> \in R)
    BY <1>1, WFMin
<1>3. \A y, n \in Nat : y < n => <<y, n>> \in R
    BY DEF OpToRel
<1> HIDE DEF R
<1>4. ASSUME NEW y \in T PROVE m <= y
    <2>1. y \in Nat /\ m \in Nat
        OBVIOUS
    <2>2. y < m => <<y, m>> \in R
        BY <1>3, <2>1
    <2>3. ~(<<y, m>> \in R)
        BY <1>2
    <2>4. ~(y < m)
        BY <2>2, <2>3
    <2> QED
        BY <2>1, <2>4
<1> QED
    BY <1>2, <1>4

\* Induction, for sets of numbers: the library's statement takes an operator, this one does not.
LEMMA Induction ==
    ASSUME NEW T \in SUBSET Nat, 0 \in T, \A n \in T : n + 1 \in T
    PROVE  T = Nat
<1> DEFINE U == Nat \ T
<1> SUFFICES ASSUME U # {} PROVE FALSE
    OBVIOUS
<1>1. PICK m \in U : \A y \in U : m <= y
    BY LeastNumber
<1>2. m \in Nat /\ m # 0 /\ m \notin T
    BY <1>1
<1>3. m - 1 \in Nat /\ (m - 1) + 1 = m /\ ~(m <= m - 1)
    BY <1>2
<1>4. m - 1 \in T
    BY <1>1, <1>3
<1> QED
    BY <1>2, <1>3, <1>4

-----------------------------------------------------------------------------
(* What the queue operations do to a queue of things of one kind.          *)

\* Length, places and kind of a queue after an operation.
LEMMA QueueOps ==
    ASSUME NEW S, NEW q \in Seq(S)
    PROVE  /\ Len(q) \in Nat
           /\ DOMAIN q = 1..Len(q)
           /\ \A i \in 1..Len(q) : q[i] \in S
           /\ \A e \in S : /\ Append(q, e) \in Seq(S)
                           /\ Append(q, e) # <<>>
                           /\ Tail(Append(q, e)) \in Seq(S)
                           /\ Len(Append(q, e)) = Len(q) + 1
                           /\ Append(q, e)[Len(q) + 1] = e
                           /\ \A i \in 1..Len(q) : Append(q, e)[i] = q[i]
           /\ q # <<>> => /\ Len(q) >= 1
                          /\ Head(q) \in S /\ Head(q) = q[1]
                          /\ Tail(q) \in Seq(S)
                          /\ Len(Tail(q)) = Len(q) - 1
                          /\ \A i \in 1..Len(Tail(q)) : Tail(q)[i] = q[i + 1]
<1>1. /\ Len(q) \in Nat /\ DOMAIN q = 1..Len(q)
      /\ \A i \in 1..Len(q) : q[i] \in S
    BY LenProperties
<1>2. ASSUME NEW e \in S
      PROVE  /\ Append(q, e) \in Seq(S) /\ Append(q, e) # <<>>
             /\ Len(Append(q, e)) = Len(q) + 1
             /\ Append(q, e)[Len(q) + 1] = e
             /\ \A i \in 1..Len(q) : Append(q, e)[i] = q[i]
    BY <1>1, AppendProperties
<1>3. ASSUME NEW e \in S PROVE Tail(Append(q, e)) \in Seq(S)
    BY <1>2, HeadTailProperties
<1>4. ASSUME q # <<>>
      PROVE  /\ Len(q) >= 1
             /\ Head(q) \in S /\ Head(q) = q[1]
             /\ Tail(q) \in Seq(S)
             /\ Len(Tail(q)) = Len(q) - 1
             /\ \A i \in 1..Len(Tail(q)) : Tail(q)[i] = q[i + 1]
    BY <1>1, <1>4, HeadTailProperties, EmptySeq
<1> QED
    BY <1>1, <1>2, <1>3, <1>4

\* A queue of one kind of thing is one of every kind that includes it.
LEMMA QueueOf ==
    ASSUME NEW S, NEW T, NEW q \in Seq(S), \A i \in 1..Len(q) : q[i] \in T
    PROVE  q \in Seq(T)
<1>1. q \in [1..Len(q) -> T] /\ Len(q) \in Nat
    BY LenProperties
<1> QED
    BY <1>1, SeqDef

-----------------------------------------------------------------------------
(* The elements of a queue, and their order.                               *)

Up(q) == \A i, j \in 1..Len(q) : i < j => q[i] < q[j]

Before(S, T) == \A x \in S, y \in T : x < y

\* What the queue operations do to the elements of a queue.
LEMMA Elements ==
    ASSUME NEW S, NEW q \in Seq(S)
    PROVE  /\ ToSet(q) \subseteq S
           /\ ToSet(<<>>) = {}
           /\ q # <<>> => /\ Head(q) \in S
                          /\ Tail(q) \in Seq(S)
                          /\ Len(Tail(q)) = Len(q) - 1
                          /\ ToSet(q) = {Head(q)} \cup ToSet(Tail(q))
           /\ \A e \in S : /\ Append(q, e) \in Seq(S)
                           /\ Len(Append(q, e)) = Len(q) + 1
                           /\ ToSet(Append(q, e)) = ToSet(q) \cup {e}
           /\ \A p \in Seq(S) : /\ q \o p \in Seq(S)
                                /\ ToSet(q \o p) = ToSet(q) \cup ToSet(p)
<1> USE DEF ToSet
<1>1. /\ Len(q) \in Nat
      /\ DOMAIN q = 1..Len(q)
      /\ \A i \in 1..Len(q) : q[i] \in S
    BY LenProperties
<1>2. ToSet(q) \subseteq S /\ ToSet(<<>>) = {}
    BY <1>1
<1>3. ASSUME q # <<>>
      PROVE  /\ Head(q) \in S
             /\ Tail(q) \in Seq(S)
             /\ Len(Tail(q)) = Len(q) - 1
             /\ ToSet(q) = {Head(q)} \cup ToSet(Tail(q))
    <2> DEFINE r == Tail(q)
    <2>1. /\ Head(q) \in S /\ Head(q) = q[1]
          /\ r \in Seq(S)
          /\ Len(r) = Len(q) - 1
          /\ \A i \in 1..Len(r) : r[i] = q[i + 1]
        BY <1>3, HeadTailProperties
    <2>2. DOMAIN r = 1..Len(r) /\ Len(q) >= 1
        BY <1>1, <1>3, <2>1, EmptySeq, LenProperties
    <2> HIDE DEF r
    <2>3. ASSUME NEW x \in ToSet(q) PROVE x = q[1] \/ x \in ToSet(r)
        <3>1. PICK i \in 1..Len(q) : x = q[i]
            BY <1>1
        <3>2. CASE i = 1
            BY <3>1, <3>2
        <3>3. CASE i # 1
            <4>1. i - 1 \in 1..Len(r) /\ r[i - 1] = q[i]
                BY <1>1, <2>1, <3>1, <3>3
            <4> QED
                BY <2>2, <3>1, <4>1
        <3> QED
            BY <3>2, <3>3
    <2>4. ASSUME NEW x \in ToSet(r) PROVE x \in ToSet(q)
        <3>1. PICK i \in 1..Len(r) : x = r[i]
            BY <2>2
        <3>2. i + 1 \in 1..Len(q) /\ r[i] = q[i + 1]
            BY <1>1, <2>1, <3>1
        <3> QED
            BY <1>1, <3>1, <3>2
    <2>5. q[1] \in ToSet(q)
        BY <1>1, <2>2
    <2>6. ToSet(q) = {Head(q)} \cup ToSet(r)
        BY <2>1, <2>3, <2>4, <2>5
    <2> QED
        BY <2>1, <2>6 DEF r
<1>4. ASSUME NEW e \in S
      PROVE  /\ Append(q, e) \in Seq(S)
             /\ Len(Append(q, e)) = Len(q) + 1
             /\ ToSet(Append(q, e)) = ToSet(q) \cup {e}
    <2> DEFINE r == Append(q, e)
    <2>1. /\ r \in Seq(S)
          /\ Len(r) = Len(q) + 1
          /\ \A i \in 1..Len(q) : r[i] = q[i]
          /\ r[Len(r)] = e
          /\ DOMAIN r = 1..Len(r)
        BY AppendProperties, LenProperties
    <2> HIDE DEF r
    <2>2. \A x \in ToSet(r) : x \in ToSet(q) \cup {e}
        BY <1>1, <2>1
    <2>3. \A x \in ToSet(q) \cup {e} : x \in ToSet(r)
        BY <1>1, <2>1
    <2> QED
        BY <2>1, <2>2, <2>3 DEF r
<1>5. ASSUME NEW p \in Seq(S)
      PROVE  q \o p \in Seq(S) /\ ToSet(q \o p) = ToSet(q) \cup ToSet(p)
    <2> DEFINE r == q \o p
    <2>1. /\ r \in Seq(S)
          /\ Len(r) = Len(q) + Len(p)
          /\ \A i \in 1..Len(r) : r[i] = IF i <= Len(q) THEN q[i] ELSE p[i - Len(q)]
          /\ DOMAIN r = 1..Len(r)
          /\ Len(p) \in Nat /\ DOMAIN p = 1..Len(p)
        BY ConcatProperties, LenProperties
    <2> HIDE DEF r
    <2>2. ASSUME NEW x \in ToSet(r) PROVE x \in ToSet(q) \cup ToSet(p)
        <3>1. PICK i \in 1..Len(r) : x = r[i]
            BY <2>1
        <3>2. CASE i <= Len(q)
            <4>1. i \in 1..Len(q) /\ r[i] = q[i]
                BY <1>1, <2>1, <3>1, <3>2
            <4> QED
                BY <1>1, <3>1, <4>1
        <3>3. CASE i > Len(q)
            <4>1. i - Len(q) \in 1..Len(p) /\ r[i] = p[i - Len(q)]
                BY <1>1, <2>1, <3>1, <3>3
            <4> QED
                BY <2>1, <3>1, <4>1
        <3> QED
            BY <1>1, <3>1, <3>2, <3>3
    <2>3. ASSUME NEW x \in ToSet(q) PROVE x \in ToSet(r)
        BY <1>1, <2>1
    <2>4. ASSUME NEW x \in ToSet(p) PROVE x \in ToSet(r)
        <3>1. PICK i \in 1..Len(p) : x = p[i]
            BY <2>1
        <3>2. i + Len(q) \in 1..Len(r) /\ ~(i + Len(q) <= Len(q)) /\ (i + Len(q)) - Len(q) = i
            BY <1>1, <2>1, <3>1
        <3> QED
            BY <2>1, <3>1, <3>2
    <2> QED
        BY <2>1, <2>2, <2>3, <2>4 DEF r
<1> QED
    BY <1>2, <1>3, <1>4, <1>5

\* What the queue operations do to the order of a queue of numbers.
LEMMA Order ==
    ASSUME NEW S, S \subseteq Nat, NEW q \in Seq(S)
    PROVE  /\ Up(<<>>)
           /\ q # <<>> => (Up(q) <=> Up(Tail(q)) /\ Before({Head(q)}, ToSet(Tail(q))))
           /\ \A e \in S : Up(Append(q, e)) <=> Up(q) /\ Before(ToSet(q), {e})
           /\ \A p \in Seq(S) :
                 Up(q \o p) <=> Up(q) /\ Up(p) /\ Before(ToSet(q), ToSet(p))
<1> USE DEF ToSet, Before
<1>1. Len(q) \in Nat /\ DOMAIN q = 1..Len(q) /\ (\A i \in 1..Len(q) : q[i] \in S)
    BY LenProperties
<1>2. Up(<<>>)
    BY DEF Up
<1>3. ASSUME q # <<>>
      PROVE  Up(q) <=> Up(Tail(q)) /\ Before({Head(q)}, ToSet(Tail(q)))
    <2> DEFINE r == Tail(q)
    <2>1. /\ Head(q) = q[1]
          /\ r \in Seq(S)
          /\ Len(r) = Len(q) - 1
          /\ \A i \in 1..Len(r) : r[i] = q[i + 1]
          /\ DOMAIN r = 1..Len(r)
          /\ Len(q) >= 1
        BY <1>1, <1>3, HeadTailProperties, EmptySeq, LenProperties
    <2> HIDE DEF r
    <2>2. ASSUME Up(q) PROVE Up(r)
        <3>1. ASSUME NEW i \in 1..Len(r), NEW j \in 1..Len(r), i < j PROVE r[i] < r[j]
            <4>1. i + 1 \in 1..Len(q) /\ j + 1 \in 1..Len(q) /\ i + 1 < j + 1
                BY <1>1, <2>1, <3>1
            <4> QED
                BY <2>1, <2>2, <4>1 DEF Up
        <3> QED
            BY <3>1 DEF Up
    <2>3. ASSUME Up(q) PROVE Before({Head(q)}, ToSet(r))
        <3>1. ASSUME NEW i \in 1..Len(r) PROVE q[1] < r[i]
            <4>1. i + 1 \in 1..Len(q) /\ 1 \in 1..Len(q) /\ 1 < i + 1
                BY <1>1, <2>1
            <4> QED
                BY <2>1, <2>3, <4>1 DEF Up
        <3> QED
            BY <2>1, <3>1
    <2>4. ASSUME Up(r), Before({Head(q)}, ToSet(r)),
                 NEW i \in 1..Len(q), NEW j \in 1..Len(q), i < j
          PROVE  q[i] < q[j]
        <3>1. j - 1 \in 1..Len(r) /\ r[j - 1] = q[j]
            BY <1>1, <2>1, <2>4
        <3>2. CASE i = 1
            BY <2>1, <2>4, <3>1, <3>2
        <3>3. CASE i # 1
            <4>1. i - 1 \in 1..Len(r) /\ r[i - 1] = q[i] /\ i - 1 < j - 1
                BY <1>1, <2>1, <2>4, <3>3
            <4> QED
                BY <2>4, <3>1, <4>1 DEF Up
        <3> QED
            BY <3>2, <3>3
    <2>5. ASSUME Up(r), Before({Head(q)}, ToSet(r)) PROVE Up(q)
        BY <2>4, <2>5 DEF Up
    <2>6. Up(q) <=> Up(r) /\ Before({Head(q)}, ToSet(r))
        BY <2>2, <2>3, <2>5
    <2> QED
        BY <2>6 DEF r
<1>4. ASSUME NEW p \in Seq(S)
      PROVE  Up(q \o p) <=> Up(q) /\ Up(p) /\ Before(ToSet(q), ToSet(p))
    <2> DEFINE r == q \o p
    <2>1. /\ Len(r) = Len(q) + Len(p)
          /\ \A i \in 1..Len(r) : r[i] = IF i <= Len(q) THEN q[i] ELSE p[i - Len(q)]
          /\ Len(p) \in Nat /\ DOMAIN p = 1..Len(p)
        BY ConcatProperties, LenProperties
    <2> HIDE DEF r
    <2>2. \A i \in 1..Len(q) : i \in 1..Len(r) /\ r[i] = q[i]
        BY <1>1, <2>1
    <2>3. \A i \in 1..Len(p) : i + Len(q) \in 1..Len(r) /\ r[i + Len(q)] = p[i]
        <3>1. ASSUME NEW i \in 1..Len(p)
              PROVE  i + Len(q) \in 1..Len(r) /\ ~(i + Len(q) <= Len(q)) /\ (i + Len(q)) - Len(q) = i
            BY <1>1, <2>1
        <3> QED
            BY <2>1, <3>1
    <2>4. ASSUME Up(r) PROVE Up(q)
        BY <2>2, <2>4 DEF Up
    <2>5. ASSUME Up(r) PROVE Up(p)
        <3>1. ASSUME NEW i \in 1..Len(p), NEW j \in 1..Len(p), i < j PROVE p[i] < p[j]
            <4>1. i + Len(q) < j + Len(q)
                BY <1>1, <2>1, <3>1
            <4> QED
                BY <2>3, <2>5, <4>1 DEF Up
        <3> QED
            BY <3>1 DEF Up
    <2>6. ASSUME Up(r) PROVE Before(ToSet(q), ToSet(p))
        <3>1. ASSUME NEW i \in 1..Len(q), NEW j \in 1..Len(p) PROVE q[i] < p[j]
            <4>1. i < j + Len(q)
                BY <1>1, <2>1
            <4> QED
                BY <2>2, <2>3, <2>6, <4>1 DEF Up
        <3> QED
            BY <1>1, <2>1, <3>1
    <2>7. ASSUME Up(q), Up(p), Before(ToSet(q), ToSet(p)),
                 NEW i \in 1..Len(r), NEW j \in 1..Len(r), i < j
          PROVE  r[i] < r[j]
        <3>1. CASE j <= Len(q)
            <4>1. i \in 1..Len(q) /\ j \in 1..Len(q)
                BY <1>1, <2>1, <2>7, <3>1
            <4> QED
                BY <2>2, <2>7, <4>1 DEF Up
        <3>2. CASE i > Len(q)
            <4>1. i - Len(q) \in 1..Len(p) /\ j - Len(q) \in 1..Len(p) /\ i - Len(q) < j - Len(q)
                BY <1>1, <2>1, <2>7, <3>2
            <4>2. r[i] = p[i - Len(q)] /\ r[j] = p[j - Len(q)]
                BY <1>1, <2>1, <2>7, <3>2
            <4> QED
                BY <2>7, <4>1, <4>2 DEF Up
        <3>3. CASE i <= Len(q) /\ j > Len(q)
            <4>1. i \in 1..Len(q) /\ j - Len(q) \in 1..Len(p)
                BY <1>1, <2>1, <3>3
            <4>2. r[i] = q[i] /\ r[j] = p[j - Len(q)]
                BY <1>1, <2>1, <3>3
            <4> QED
                BY <1>1, <2>1, <2>7, <4>1, <4>2
        <3> QED
            BY <1>1, <2>1, <3>1, <3>2, <3>3
    <2>8. ASSUME Up(q), Up(p), Before(ToSet(q), ToSet(p)) PROVE Up(r)
        BY <2>7, <2>8 DEF Up
    <2>9. Up(r) <=> Up(q) /\ Up(p) /\ Before(ToSet(q), ToSet(p))
        BY <2>4, <2>5, <2>6, <2>8
    <2> QED
        BY <2>9 DEF r
<1>5. ASSUME NEW e \in S PROVE Up(Append(q, e)) <=> Up(q) /\ Before(ToSet(q), {e})
    <2>1. PICK p \in Seq(S) : p = <<e>>
        <3>1. <<e>> \in Seq(S)
            OBVIOUS
        <3> QED
            BY <3>1, Zenon
    <2>2. Append(q, e) = q \o p
        BY <2>1, AppendIsConcat
    <2>3. Up(p) /\ ToSet(p) = {e}
        BY <2>1 DEF Up
    <2> HIDE DEF ToSet, Before
    <2>4. Up(q \o p) <=> Up(q) /\ Up(p) /\ Before(ToSet(q), ToSet(p))
        BY <1>4
    <2> QED
        BY <2>2, <2>3, <2>4
<1> QED
    BY <1>2, <1>3, <1>4, <1>5
-----------------------------------------------------------------------------
(* A queue of queues, flattened.                                           *)

\* What FlattenSeq's function is at a place, given what it is before it.
FlatAt(h, q, i) == IF i = 1 THEN q[i] ELSE h[i-1] \o q[i]

IsFlat(h, q, n) == h = [i \in 1..n |-> FlatAt(h, q, i)]

\* The function that FlattenSeq chooses, the i-th value of which joins the first i parts, exists.
LEMMA FlatExists ==
    ASSUME NEW q, NEW n \in Nat
    PROVE  \E h : IsFlat(h, q, n)
<1> DEFINE T == {m \in Nat : \E h : IsFlat(h, q, m)}
<1>1. 0 \in T
    <2> DEFINE v == [i \in 1..0 |-> q]
    <2>1. v = [i \in 1..0 |-> FlatAt(v, q, i)]
        OBVIOUS
    <2> QED
        BY <2>1 DEF IsFlat
<1>2. ASSUME NEW m \in T PROVE m + 1 \in T
    <2>1. m \in Nat
        OBVIOUS
    <2>2. PICK h : IsFlat(h, q, m)
        OBVIOUS
    <2> DEFINE v == [i \in 1..m+1 |-> IF i = m + 1 THEN FlatAt(h, q, i) ELSE h[i]]
    <2>3. ASSUME NEW i \in 1..m+1 PROVE v[i] = FlatAt(v, q, i)
        <3>1. i = 1 \/ v[i-1] = h[i-1]
            <4>1. i # 1 => i - 1 \in 1..m+1 /\ i - 1 # m + 1
                BY <2>1
            <4> QED
                BY <4>1
        <3>2. FlatAt(v, q, i) = FlatAt(h, q, i)
            BY <3>1 DEF FlatAt
        <3>3. CASE i = m + 1
            BY <3>2, <3>3
        <3>4. CASE i # m + 1
            <4>1. i \in 1..m
                BY <2>1, <3>4
            <4>2. h[i] = FlatAt(h, q, i)
                BY <2>2, <4>1 DEF IsFlat
            <4> QED
                BY <3>2, <3>4, <4>2
        <3> QED
            BY <3>3, <3>4
    <2>4. v = [i \in 1..m+1 |-> v[i]]
        OBVIOUS
    <2> HIDE DEF v
    <2>5. IsFlat(v, q, m + 1)
        BY <2>3, <2>4 DEF IsFlat
    <2> QED
        BY <2>1, <2>5
<1>3. T = Nat
    <2>1. T \in SUBSET Nat
        OBVIOUS
    <2> HIDE DEF T
    <2> QED
        BY <1>1, <1>2, <2>1, Induction
<1> QED
    BY <1>3

\* Where two queues agree, so do their functions.
LEMMA FlatAgree ==
    ASSUME NEW q, NEW r, NEW n \in Nat, NEW m \in Nat, n <= m, NEW g, NEW h,
           IsFlat(g, q, n), IsFlat(h, r, m), \A i \in 1..n : q[i] = r[i]
    PROVE  \A i \in 1..n : g[i] = h[i]
<1> DEFINE T == {i \in Nat : i \in 1..n => g[i] = h[i]}
<1>1. 0 \in T
    OBVIOUS
<1>2. ASSUME NEW i \in T PROVE i + 1 \in T
    <2> SUFFICES ASSUME i + 1 \in 1..n PROVE g[i+1] = h[i+1]
        OBVIOUS
    <2>1. i \in Nat /\ i + 1 \in 1..m /\ (i + 1) - 1 = i
        OBVIOUS
    <2>2. g[i+1] = FlatAt(g, q, i + 1) /\ h[i+1] = FlatAt(h, r, i + 1)
        BY <2>1 DEF IsFlat
    <2>3. i + 1 = 1 \/ g[i] = h[i]
        <3>1. i = 0 \/ i \in 1..n
            BY <2>1
        <3> QED
            BY <2>1, <3>1
    <2>4. q[i+1] = r[i+1]
        OBVIOUS
    <2> HIDE DEF T
    <2> QED
        BY <2>1, <2>2, <2>3, <2>4 DEF FlatAt
<1>3. T = Nat
    <2>1. T \in SUBSET Nat
        OBVIOUS
    <2> HIDE DEF T
    <2> QED
        BY <1>1, <1>2, <2>1, Induction
<1> QED
    BY <1>3

\* FlattenSeq joins all parts by such a function.
LEMMA FlatIs ==
    ASSUME NEW q, Len(q) \in Nat
    PROVE  IF Len(q) = 0 THEN FlattenSeq(q) = q
           ELSE \E h : IsFlat(h, q, Len(q)) /\ FlattenSeq(q) = h[Len(q)]
<1>1. CASE Len(q) = 0
    BY <1>1 DEF FlattenSeq
<1>2. CASE Len(q) # 0
    <2> DEFINE f == CHOOSE f : f = [i \in 1..Len(q) |-> IF i = 1 THEN q[i] ELSE f[i-1] \o q[i]]
    <2>1. \E h : h = [i \in 1..Len(q) |-> IF i = 1 THEN q[i] ELSE h[i-1] \o q[i]]
        BY FlatExists DEF IsFlat, FlatAt
    <2>2. f = [i \in 1..Len(q) |-> IF i = 1 THEN q[i] ELSE f[i-1] \o q[i]]
        BY <2>1, Zenon
    <2>3. FlattenSeq(q) = f[Len(q)]
        BY <1>2 DEF FlattenSeq
    <2> HIDE DEF f
    <2>4. IsFlat(f, q, Len(q))
        BY <2>2 DEF IsFlat, FlatAt
    <2> QED
        BY <1>2, <2>3, <2>4
<1> QED
    BY <1>1, <1>2

\* A queue more at the end is so much more at the end.
LEMMA FlattenOne ==
    ASSUME NEW S, NEW q \in Seq(S), NEW t \in S
    PROVE  FlattenSeq(Append(q, t)) = IF q = <<>> THEN t ELSE FlattenSeq(q) \o t
<1> DEFINE r == Append(q, t)
<1>1. /\ Len(q) \in Nat /\ Len(r) = Len(q) + 1 /\ r[Len(q) + 1] = t
      /\ \A i \in 1..Len(q) : r[i] = q[i]
    BY QueueOps
<1> HIDE DEF r
<1>2. PICK g : IsFlat(g, r, Len(r)) /\ FlattenSeq(r) = g[Len(r)]
    <2>1. Len(r) \in Nat /\ Len(r) # 0
        BY <1>1
    <2> QED
        BY <2>1, FlatIs
<1>3. g[Len(r)] = FlatAt(g, r, Len(r))
    <2>1. Len(r) \in 1..Len(r)
        BY <1>1
    <2> QED
        BY <1>2, <2>1 DEF IsFlat
<1>4. CASE Len(q) = 0
    <2>1. q = <<>>
        BY <1>4, EmptySeq
    <2>2. FlattenSeq(r) = t
        BY <1>1, <1>2, <1>3, <1>4 DEF FlatAt
    <2> QED
        BY <2>1, <2>2 DEF r
<1>5. CASE Len(q) # 0
    <2>1. PICK h : IsFlat(h, q, Len(q)) /\ FlattenSeq(q) = h[Len(q)]
        BY <1>1, <1>5, FlatIs
    <2>2. Len(q) <= Len(r) /\ Len(r) \in Nat /\ Len(q) \in 1..Len(q) /\ Len(r) - 1 = Len(q) /\ Len(r) # 1
        BY <1>1, <1>5
    <2>3. h[Len(q)] = g[Len(q)]
        <3>1. \A i \in 1..Len(q) : q[i] = r[i]
            BY <1>1
        <3>2. \A i \in 1..Len(q) : h[i] = g[i]
            BY <1>1, <1>2, <2>1, <2>2, <3>1, FlatAgree
        <3> QED
            BY <2>2, <3>2
    <2>4. FlattenSeq(r) = g[Len(q)] \o t
        BY <1>1, <1>2, <1>3, <2>2 DEF FlatAt
    <2>5. q # <<>>
        BY <1>5, EmptySeq
    <2> QED
        BY <2>1, <2>3, <2>4, <2>5 DEF r
<1> QED
    BY <1>4, <1>5

\* Nothing joined is nothing.
LEMMA FlattenEmpty == FlattenSeq(<<>>) = <<>>
BY FlatIs, EmptySeq

\* A queue more at the end is so much more at the end.
LEMMA FlattenAppend ==
    ASSUME NEW S, NEW q \in Seq(Seq(S)), NEW t \in Seq(S)
    PROVE  FlattenSeq(Append(q, t)) = FlattenSeq(q) \o t
<1>1. FlattenSeq(Append(q, t)) = IF q = <<>> THEN t ELSE FlattenSeq(q) \o t
    BY FlattenOne
<1>2. <<>> \o t = t
    BY ConcatEmptySeq
<1> QED
    BY <1>1, <1>2, FlattenEmpty

\* The parts of queues of one kind are of that kind.
LEMMA FlattenKind ==
    ASSUME NEW S, NEW q \in Seq(Seq(S))
    PROVE  FlattenSeq(q) \in Seq(S)
<1> DEFINE T == {n \in Nat : \A p \in Seq(Seq(S)) : Len(p) = n => FlattenSeq(p) \in Seq(S)}
<1>1. 0 \in T
    <2>1. \A p \in Seq(Seq(S)) : Len(p) = 0 => p = <<>>
        BY EmptySeq
    <2> QED
        BY <2>1, FlattenEmpty, EmptySeq
<1>2. ASSUME NEW n \in T PROVE n + 1 \in T
    <2>1. n \in Nat
        OBVIOUS
    <2>2. ASSUME NEW p \in Seq(Seq(S)), Len(p) = n + 1 PROVE FlattenSeq(p) \in Seq(S)
        <3>1. p # <<>>
            BY <2>1, <2>2, EmptySeq
        <3>2. PICK r \in Seq(Seq(S)), t \in Seq(S) : p = Append(r, t)
            BY <3>1, SequenceEmptyOrAppend
        <3>3. Len(r) = n
            <4>1. Len(p) = Len(r) + 1 /\ Len(r) \in Nat
                BY <3>2, QueueOps
            <4> QED
                BY <2>1, <2>2, <4>1
        <3>4. FlattenSeq(r) \in Seq(S)
            BY <3>3
        <3>5. FlattenSeq(r) \o t \in Seq(S)
            BY <3>4, ConcatProperties
        <3> QED
            BY <3>2, <3>5, FlattenAppend
    <2> QED
        BY <2>1, <2>2
<1>3. T = Nat
    <2>1. T \in SUBSET Nat
        OBVIOUS
    <2> HIDE DEF T
    <2> QED
        BY <1>1, <1>2, <2>1, Induction
<1> QED
    BY <1>3, LenProperties

\* Three queues joined, from either end.
LEMMA JoinedInOrder ==
    ASSUME NEW S
    PROVE  \A a, b, c \in Seq(S) : (a \o b) \o c = a \o (b \o c)
BY ConcatAssociative

\* A queue at the end leaves the first one where it was.
LEMMA FirstStaysFirst ==
    ASSUME NEW S, NEW r \in Seq(Seq(S)), NEW t \in Seq(S),
           r = <<>> \/ FlattenSeq(r) = Head(r) \o FlattenSeq(Tail(r)),
           NEW p, p = Append(r, t)
    PROVE  FlattenSeq(p) = Head(p) \o FlattenSeq(Tail(p))
<1>1. CASE r = <<>>
    <2>1. Head(p) = t /\ Tail(p) = <<>>
        BY <1>1, HeadTailAppend
    <2>2. t \o <<>> = t
        BY ConcatEmptySeq
    <2>3. FlattenSeq(p) = t
        BY <1>1, FlattenOne
    <2> QED
        BY <2>1, <2>2, <2>3, FlattenEmpty
<1>2. CASE r # <<>>
    <2>1. Head(p) = Head(r) /\ Tail(p) = Append(Tail(r), t)
        BY <1>2, HeadTailAppend
    <2>2. Head(r) \in Seq(S) /\ Tail(r) \in Seq(Seq(S))
        BY <1>2, QueueOps
    <2>3. FlattenSeq(p) = FlattenSeq(r) \o t /\ FlattenSeq(Tail(p)) = FlattenSeq(Tail(r)) \o t
        BY <2>1, <2>2, FlattenAppend
    <2>4. FlattenSeq(Tail(r)) \in Seq(S)
        BY <2>2, FlattenKind
    <2> DEFINE a == Head(r)
               b == FlattenSeq(Tail(r))
    <2>5. (a \o b) \o t = a \o (b \o t)
        <3>1. a \in Seq(S) /\ b \in Seq(S)
            BY <2>2, <2>4
        <3> HIDE DEF a, b
        <3> QED
            BY <3>1, JoinedInOrder
    <2> QED
        BY <1>2, <2>1, <2>3, <2>5, Zenon
<1> QED
    BY <1>1, <1>2

\* The first queue comes first.
LEMMA FlattenHead ==
    ASSUME NEW S, NEW q \in Seq(Seq(S)), q # <<>>
    PROVE  FlattenSeq(q) = Head(q) \o FlattenSeq(Tail(q))
<1> DEFINE T == {n \in Nat : \A p \in Seq(Seq(S)) : Len(p) = n =>
                   p = <<>> \/ FlattenSeq(p) = Head(p) \o FlattenSeq(Tail(p))}
<1>1. 0 \in T
    <2>1. \A p \in Seq(Seq(S)) : Len(p) = 0 => p = <<>>
        BY EmptySeq
    <2> QED
        BY <2>1
<1>2. ASSUME NEW n \in T PROVE n + 1 \in T
    <2>1. n \in Nat
        OBVIOUS
    <2>2. ASSUME NEW p \in Seq(Seq(S)), Len(p) = n + 1
          PROVE  FlattenSeq(p) = Head(p) \o FlattenSeq(Tail(p))
        <3>1. p # <<>>
            BY <2>1, <2>2, EmptySeq
        <3>2. PICK r \in Seq(Seq(S)), t \in Seq(S) : p = Append(r, t)
            BY <3>1, SequenceEmptyOrAppend
        <3>3. Len(r) = n
            <4>1. Len(p) = Len(r) + 1 /\ Len(r) \in Nat
                BY <3>2, QueueOps
            <4> QED
                BY <2>1, <2>2, <4>1
        <3>4. r = <<>> \/ FlattenSeq(r) = Head(r) \o FlattenSeq(Tail(r))
            BY <3>3
        <3> QED
            BY <3>2, <3>4, FirstStaysFirst
    <2> QED
        BY <2>1, <2>2
<1>3. T = Nat
    <2>1. T \in SUBSET Nat
        OBVIOUS
    <2> HIDE DEF T
    <2> QED
        BY <1>1, <1>2, <2>1, Induction
<1> QED
    BY <1>3, LenProperties

\* m, of the things of one kind to those of another; and what it makes of a queue.
Maps(S, T) == [S -> T]

Mapped(q, m) == [i \in DOMAIN q |-> m[q[i]]]

\* A queue mapped element by element.
LEMMA MappedQueue ==
    ASSUME NEW S, NEW T, NEW m \in Maps(S, T), NEW q \in Seq(S)
    PROVE  /\ Mapped(q, m) \in Seq(T) /\ Len(Mapped(q, m)) = Len(q)
           /\ \A i \in 1..Len(q) : Mapped(q, m)[i] = m[q[i]]
<1>1. Len(q) \in Nat /\ DOMAIN q = 1..Len(q) /\ \A i \in 1..Len(q) : q[i] \in S
    BY QueueOps
<1>2. Mapped(q, m) = [i \in 1..Len(q) |-> m[q[i]]]
    BY <1>1 DEF Mapped
<1>3. Mapped(q, m) \in [1..Len(q) -> T]
    BY <1>1, <1>2 DEF Maps
<1>4. Mapped(q, m) \in Seq(T)
    BY <1>1, <1>3, SeqDef
<1>5. Len(Mapped(q, m)) = Len(q)
    BY <1>1, <1>3, <1>4, LenProperties
<1> QED
    BY <1>2, <1>4, <1>5

\* Mapping goes with the queue, at either end.
LEMMA MappedAppend ==
    ASSUME NEW S, NEW T, NEW m \in Maps(S, T), NEW q \in Seq(S), NEW e \in S
    PROVE  Mapped(Append(q, e), m) = Append(Mapped(q, m), m[e])
<1> DEFINE r == Append(q, e)
           s == Append(Mapped(q, m), m[e])
<1>1. /\ r \in Seq(S) /\ Len(q) \in Nat /\ Len(r) = Len(q) + 1 /\ r[Len(q) + 1] = e
      /\ \A i \in 1..Len(q) : r[i] = q[i]
    BY QueueOps
<1>2. /\ Mapped(q, m) \in Seq(T) /\ Len(Mapped(q, m)) = Len(q)
      /\ \A i \in 1..Len(q) : Mapped(q, m)[i] = m[q[i]]
    BY MappedQueue
<1>3. /\ s \in Seq(T) /\ Len(s) = Len(q) + 1 /\ s[Len(q) + 1] = m[e]
      /\ \A i \in 1..Len(q) : s[i] = Mapped(q, m)[i]
    <2>1. m[e] \in T
        BY DEF Maps
    <2> QED
        BY <1>2, <2>1, QueueOps
<1> HIDE DEF r, s
<1>4. /\ Mapped(r, m) \in Seq(T) /\ Len(Mapped(r, m)) = Len(r)
      /\ \A i \in 1..Len(r) : Mapped(r, m)[i] = m[r[i]]
    BY <1>1, MappedQueue
<1>5. ASSUME NEW i \in 1..Len(r) PROVE Mapped(r, m)[i] = s[i]
    <2>1. i = Len(q) + 1 \/ i \in 1..Len(q)
        BY <1>1
    <2> QED
        BY <1>1, <1>2, <1>3, <1>4, <2>1
<1>6. Mapped(r, m) = s
    BY <1>1, <1>3, <1>4, <1>5, SeqEqual
<1> QED
    BY <1>6 DEF r, s

\* Taking the first element and mapping may be exchanged.
LEMMA MappedTail ==
    ASSUME NEW S, NEW T, NEW m \in Maps(S, T), NEW q \in Seq(S), q # <<>>
    PROVE  /\ Mapped(q, m) # <<>> /\ Head(Mapped(q, m)) = m[Head(q)]
           /\ Tail(Mapped(q, m)) = Mapped(Tail(q), m)
<1> DEFINE p == Mapped(q, m)
<1>1. /\ Head(q) = q[1] /\ Tail(q) \in Seq(S) /\ Len(Tail(q)) = Len(q) - 1
      /\ (\A i \in 1..Len(Tail(q)) : Tail(q)[i] = q[i + 1]) /\ Len(q) \in Nat /\ Len(q) >= 1
    BY QueueOps
<1>2. p \in Seq(T) /\ Len(p) = Len(q) /\ \A i \in 1..Len(q) : p[i] = m[q[i]]
    BY MappedQueue
<1>3. /\ Mapped(Tail(q), m) \in Seq(T) /\ Len(Mapped(Tail(q), m)) = Len(q) - 1
      /\ \A i \in 1..Len(q) - 1 : Mapped(Tail(q), m)[i] = m[Tail(q)[i]]
    <2>1. /\ Mapped(Tail(q), m) \in Seq(T) /\ Len(Mapped(Tail(q), m)) = Len(Tail(q))
          /\ \A i \in 1..Len(Tail(q)) : Mapped(Tail(q), m)[i] = m[Tail(q)[i]]
        <3>1. \A r \in Seq(S) :
                 /\ Mapped(r, m) \in Seq(T) /\ Len(Mapped(r, m)) = Len(r)
                 /\ \A i \in 1..Len(r) : Mapped(r, m)[i] = m[r[i]]
            BY MappedQueue
        <3> QED
            BY <1>1, <3>1, Zenon
    <2> QED
        BY <1>1, <2>1
<1> HIDE DEF p
<1>4. p # <<>>
    <2>1. Len(p) # 0
        BY <1>1, <1>2
    <2> QED
        BY <1>2, <2>1, EmptySeq
<1>5. /\ Head(p) = p[1] /\ Tail(p) \in Seq(T) /\ Len(Tail(p)) = Len(q) - 1
      /\ \A i \in 1..Len(q) - 1 : Tail(p)[i] = p[i + 1]
    BY <1>2, <1>4, QueueOps
<1>6. Head(p) = m[Head(q)]
    BY <1>1, <1>2, <1>5
<1>7. ASSUME NEW i \in 1..Len(q) - 1 PROVE Tail(p)[i] = Mapped(Tail(q), m)[i]
    <2>1. i + 1 \in 1..Len(q) /\ Tail(q)[i] = q[i + 1]
        BY <1>1
    <2>2. Tail(p)[i] = m[q[i + 1]]
        BY <1>2, <1>5, <2>1
    <2> QED
        BY <1>3, <2>1, <2>2
<1>8. Tail(p) = Mapped(Tail(q), m)
    BY <1>3, <1>5, <1>7, SeqEqual
<1> QED
    BY <1>4, <1>6, <1>8 DEF p

\* What is in increasing order is there once, and so is what is in two queues apart.
LEMMA Injective ==
    ASSUME NEW S, NEW q \in Seq(S), NEW p \in Seq(S)
    PROVE  /\ S \subseteq Nat /\ Up(q) => IsInjective(q)
           /\ IsInjective(q) /\ IsInjective(p) /\ ToSet(q) \cap ToSet(p) = {} => IsInjective(q \o p)
<1>1. /\ Len(q) \in Nat /\ DOMAIN q = 1..Len(q) /\ \A i \in 1..Len(q) : q[i] \in S
      /\ Len(p) \in Nat /\ DOMAIN p = 1..Len(p)
    BY LenProperties
<1>2. ASSUME S \subseteq Nat, Up(q) PROVE IsInjective(q)
    <2>1. ASSUME NEW i \in 1..Len(q), NEW j \in 1..Len(q), i < j PROVE q[i] # q[j]
        <3>1. q[i] < q[j] /\ q[i] \in Nat /\ q[j] \in Nat
            BY <1>1, <1>2, <2>1 DEF Up
        <3> QED
            BY <3>1
    <2>2. \A i, j \in 1..Len(q) : i # j => i < j \/ j < i
        BY <1>1
    <2> QED
        BY <1>1, <2>1, <2>2 DEF IsInjective
<1>3. ASSUME IsInjective(q), IsInjective(p), ToSet(q) \cap ToSet(p) = {} PROVE IsInjective(q \o p)
    <2> DEFINE r == q \o p
    <2>1. /\ DOMAIN r = 1..Len(q) + Len(p)
          /\ \A i \in 1..Len(q) : r[i] = q[i]
          /\ \A i \in 1..Len(q) + Len(p) : i \notin 1..Len(q) => i - Len(q) \in 1..Len(p) /\ r[i] = p[i - Len(q)]
        <3>1. /\ r \in Seq(S) /\ Len(r) = Len(q) + Len(p)
              /\ \A i \in 1..Len(q) + Len(p) : r[i] = IF i <= Len(q) THEN q[i] ELSE p[i - Len(q)]
            BY ConcatProperties
        <3>2. DOMAIN r = 1..Len(r)
            BY <3>1, LenProperties
        <3> QED
            BY <1>1, <3>1, <3>2
    <2> HIDE DEF r
    <2>2. ASSUME NEW i \in DOMAIN r, NEW j \in DOMAIN r, r[i] = r[j] PROVE i = j
        <3>1. i \in 1..Len(q) + Len(p) /\ j \in 1..Len(q) + Len(p)
            BY <2>1
        <3>2. CASE i \in 1..Len(q) /\ j \in 1..Len(q)
            BY <1>1, <1>3, <2>1, <2>2, <3>2 DEF IsInjective
        <3>3. CASE i \in 1..Len(q) /\ j \notin 1..Len(q)
            <4>1. r[i] \in ToSet(q) /\ r[j] \in ToSet(p)
                BY <1>1, <2>1, <3>1, <3>3 DEF ToSet
            <4> QED
                BY <1>3, <2>2, <4>1
        <3>4. CASE i \notin 1..Len(q) /\ j \in 1..Len(q)
            <4>1. r[i] \in ToSet(p) /\ r[j] \in ToSet(q)
                BY <1>1, <2>1, <3>1, <3>4 DEF ToSet
            <4> QED
                BY <1>3, <2>2, <4>1
        <3>5. CASE i \notin 1..Len(q) /\ j \notin 1..Len(q)
            <4>1. /\ i - Len(q) \in DOMAIN p /\ j - Len(q) \in DOMAIN p
                  /\ p[i - Len(q)] = p[j - Len(q)]
                BY <1>1, <2>1, <2>2, <3>1, <3>5
            <4>2. i - Len(q) = j - Len(q)
                BY <1>3, <4>1 DEF IsInjective
            <4>3. i \in Int /\ j \in Int
                BY <3>1
            <4> QED
                BY <1>1, <4>2, <4>3
        <3> QED
            BY <3>2, <3>3, <3>4, <3>5
    <2> QED
        BY <2>2 DEF IsInjective, r
<1> QED
    BY <1>2, <1>3

\* What the lemmas above say of queues of numbers, one operation at a time.
LEMMA NumberQueue ==
    ASSUME NEW q \in Seq(Nat)
    PROVE  /\ ToSet(q) \subseteq Nat
           /\ q # <<>> => /\ Head(q) \in Nat /\ Tail(q) \in Seq(Nat)
                          /\ ToSet(q) = {Head(q)} \cup ToSet(Tail(q))
                          /\ Up(q) <=> Up(Tail(q)) /\ Before({Head(q)}, ToSet(Tail(q)))
<1>1. /\ ToSet(q) \subseteq Nat
      /\ q # <<>> => /\ Head(q) \in Nat /\ Tail(q) \in Seq(Nat)
                     /\ ToSet(q) = {Head(q)} \cup ToSet(Tail(q))
    BY Elements, Zenon
<1>2. q # <<>> => (Up(q) <=> Up(Tail(q)) /\ Before({Head(q)}, ToSet(Tail(q))))
    BY Order
<1> QED
    BY <1>1, <1>2

\* The empty queue of numbers is in order.
LEMMA NoNumber == <<>> \in Seq(Nat) /\ ToSet(<<>>) = {} /\ Up(<<>>)
<1>1. <<>> \in Seq(Nat)
    OBVIOUS
<1> QED
    BY <1>1, Elements, Order

\* A number appended keeps a queue in order if it is above all in it.
LEMMA NumberAdded ==
    ASSUME NEW q \in Seq(Nat), NEW e \in Nat, NEW p, p = Append(q, e)
    PROVE  /\ p \in Seq(Nat) /\ ToSet(p) = ToSet(q) \cup {e}
           /\ Up(p) <=> Up(q) /\ Before(ToSet(q), {e})
<1>1. p \in Seq(Nat) /\ ToSet(p) = ToSet(q) \cup {e}
    BY Elements
<1>2. Up(p) <=> Up(q) /\ Before(ToSet(q), {e})
    BY Order
<1> QED
    BY <1>1, <1>2

\* A single number is in order and occurs once.
LEMMA OneNumber ==
    ASSUME NEW e \in Nat
    PROVE  <<e>> \in Seq(Nat) /\ ToSet(<<e>>) = {e} /\ Up(<<e>>) /\ IsInjective(<<e>>)
<1>1. <<e>> = Append(<<>>, e)
    OBVIOUS
<1>2. <<e>> \in Seq(Nat) /\ ToSet(<<e>>) = {e} /\ Up(<<e>>)
    <2>1. /\ <<e>> \in Seq(Nat) /\ ToSet(<<e>>) = ToSet(<<>>) \cup {e}
          /\ Up(<<e>>) <=> Up(<<>>) /\ Before(ToSet(<<>>), {e})
        BY <1>1, NoNumber, NumberAdded
    <2> QED
        BY <2>1, NoNumber DEF Before
<1>3. IsInjective(<<e>>)
    BY <1>2, Injective
<1> QED
    BY <1>2, <1>3

\* Two queues of numbers joined: what they hold, when they are in order, and when no number
\* occurs twice.
LEMMA NumbersJoined ==
    ASSUME NEW q \in Seq(Nat), NEW p \in Seq(Nat), NEW r, r = q \o p
    PROVE  /\ r \in Seq(Nat) /\ ToSet(r) = ToSet(q) \cup ToSet(p)
           /\ Up(r) <=> Up(q) /\ Up(p) /\ Before(ToSet(q), ToSet(p))
           /\ IsInjective(q) /\ IsInjective(p) /\ ToSet(q) \cap ToSet(p) = {} => IsInjective(r)
<1>1. r \in Seq(Nat) /\ ToSet(r) = ToSet(q) \cup ToSet(p)
    BY Elements
<1>2. Up(r) <=> Up(q) /\ Up(p) /\ Before(ToSet(q), ToSet(p))
    BY Order
<1>3. IsInjective(q) /\ IsInjective(p) /\ ToSet(q) \cap ToSet(p) = {} => IsInjective(r)
    BY Injective
<1> QED
    BY <1>1, <1>2, <1>3

\* A number more at the end, or in front, joined as a queue of one.
LEMMA OneJoined ==
    ASSUME NEW q \in Seq(Nat), NEW e \in Nat
    PROVE  /\ q \o <<e>> \in Seq(Nat) /\ ToSet(q \o <<e>>) = ToSet(q) \cup {e}
           /\ Up(q \o <<e>>) <=> Up(q) /\ Before(ToSet(q), {e})
           /\ IsInjective(q) /\ e \notin ToSet(q) => IsInjective(q \o <<e>>)
           /\ <<e>> \o q \in Seq(Nat) /\ ToSet(<<e>> \o q) = {e} \cup ToSet(q)
           /\ Up(<<e>> \o q) <=> Up(q) /\ Before({e}, ToSet(q))
<1> DEFINE o == <<e>>
<1>1. o \in Seq(Nat) /\ ToSet(o) = {e} /\ Up(o) /\ IsInjective(o)
    BY OneNumber
<1> HIDE DEF o
<1>2. /\ q \o o \in Seq(Nat) /\ ToSet(q \o o) = ToSet(q) \cup ToSet(o)
      /\ Up(q \o o) <=> Up(q) /\ Up(o) /\ Before(ToSet(q), ToSet(o))
      /\ IsInjective(q) /\ IsInjective(o) /\ ToSet(q) \cap ToSet(o) = {} => IsInjective(q \o o)
    BY <1>1, NumbersJoined
<1>3. /\ o \o q \in Seq(Nat) /\ ToSet(o \o q) = ToSet(o) \cup ToSet(q)
      /\ Up(o \o q) <=> Up(o) /\ Up(q) /\ Before(ToSet(o), ToSet(q))
    BY <1>1, NumbersJoined
<1>4. /\ q \o o \in Seq(Nat) /\ ToSet(q \o o) = ToSet(q) \cup {e}
      /\ Up(q \o o) <=> Up(q) /\ Before(ToSet(q), {e})
      /\ IsInjective(q) /\ e \notin ToSet(q) => IsInjective(q \o o)
    BY <1>1, <1>2
<1>5. /\ o \o q \in Seq(Nat) /\ ToSet(o \o q) = {e} \cup ToSet(q)
      /\ Up(o \o q) <=> Up(q) /\ Before({e}, ToSet(q))
    BY <1>1, <1>3
<1> QED
    BY <1>4, <1>5 DEF o

\* A number more has its place among numbers in order.
LEMMA PlaceInOrder ==
    ASSUME NEW p \in Seq(Nat), Up(p), NEW e \in Nat, e \notin ToSet(p)
    PROVE  \E q \in Seq(Nat) : Len(q) = Len(p) + 1 /\ Up(q) /\ ToSet(q) = ToSet(p) \cup {e}
<1>1. Len(p) \in Nat /\ DOMAIN p = 1..Len(p) /\ \A i \in 1..Len(p) : p[i] \in Nat /\ p[i] # e
    BY QueueOps DEF ToSet
<1>2. PICK k \in 0..Len(p) : /\ \A i \in 1..Len(p) : i <= k => p[i] < e
                             /\ \A i \in 1..Len(p) : i > k => p[i] > e
    <2> DEFINE M == {i \in 1..Len(p) : p[i] > e}
    <2>1. CASE M = {}
        <3>1. \A i \in 1..Len(p) : p[i] < e
            BY <1>1, <2>1
        <3>2. Len(p) \in 0..Len(p) /\ \A i \in 1..Len(p) : i <= Len(p) /\ ~(i > Len(p))
            BY <1>1
        <3> QED
            BY <3>1, <3>2
    <2>2. CASE M # {}
        <3>1. M \in SUBSET Nat
            BY <1>1
        <3>2. PICK m \in M : \A y \in M : m <= y
            BY <2>2, <3>1, LeastNumber
        <3>3. m \in 1..Len(p) /\ p[m] > e
            BY <3>2
        <3>4. \A i \in 1..Len(p) : i <= m - 1 => p[i] < e
            <4> SUFFICES ASSUME NEW i \in 1..Len(p), i <= m - 1 PROVE p[i] < e
                OBVIOUS
            <4>1. i \notin M
                <5>1. ~(m <= i)
                    BY <1>1, <3>3
                <5> QED
                    BY <3>2, <5>1
            <4> QED
                BY <1>1, <4>1
        <3>5. \A i \in 1..Len(p) : i > m - 1 => p[i] > e
            <4> SUFFICES ASSUME NEW i \in 1..Len(p), i > m - 1 PROVE p[i] > e
                OBVIOUS
            <4>1. i = m \/ m < i
                BY <1>1, <3>3
            <4>2. m < i => p[m] < p[i]
                BY <1>1, <3>3 DEF Up
            <4>3. p[m] \in Nat /\ p[i] \in Nat
                BY <1>1, <3>3
            <4> QED
                BY <3>3, <4>1, <4>2, <4>3
        <3>6. m - 1 \in 0..Len(p)
            BY <1>1, <3>3
        <3> QED
            BY <3>4, <3>5, <3>6
    <2> QED
        BY <2>1, <2>2
<1> DEFINE n == Len(p) + 1
           q == [i \in 1..n |-> IF i <= k THEN p[i] ELSE IF i = k + 1 THEN e ELSE p[i-1]]
<1>3. \A i \in 1..n : i <= k \/ i = k + 1 \/ (i > k + 1 /\ i - 1 \in 1..Len(p) /\ i - 1 > k)
    BY <1>1
<1>4. \A i \in 1..n : i <= k => i \in 1..Len(p)
    BY <1>1
<1>5. \A i \in 1..n : q[i] \in Nat
    BY <1>1, <1>3, <1>4
<1>6. n \in Nat /\ DOMAIN q = 1..n
    BY <1>1
<1>7. ASSUME NEW i \in 1..n, NEW j \in 1..n, i < j PROVE q[i] < q[j]
    <2>1. CASE j <= k
        <3>1. i <= k /\ i \in 1..Len(p) /\ j \in 1..Len(p)
            BY <1>1, <1>7, <2>1
        <3> QED
            BY <1>7, <2>1, <3>1 DEF Up
    <2>2. CASE j = k + 1
        <3>1. i <= k /\ i \in 1..Len(p) /\ ~(j <= k)
            BY <1>1, <1>7, <2>2
        <3> QED
            BY <1>2, <2>2, <3>1
    <2>3. CASE j > k + 1
        <3>1. j - 1 \in 1..Len(p) /\ j - 1 > k /\ ~(j <= k) /\ j # k + 1
            BY <1>1, <2>3
        <3>2. q[j] = p[j-1] /\ p[j-1] > e /\ p[j-1] \in Nat
            BY <1>1, <1>2, <3>1
        <3>3. CASE i <= k
            <4>1. q[i] = p[i] /\ p[i] < e /\ p[i] \in Nat
                BY <1>1, <1>2, <1>4, <3>3
            <4> QED
                BY <3>2, <4>1
        <3>4. CASE i = k + 1
            <4>1. q[i] = e
                BY <3>4
            <4> QED
                BY <3>2, <4>1
        <3>5. CASE i > k + 1
            <4>1. i - 1 \in 1..Len(p) /\ i - 1 < j - 1 /\ ~(i <= k) /\ i # k + 1
                BY <1>1, <1>7, <3>5
            <4>2. q[i] = p[i-1] /\ p[i-1] < p[j-1]
                BY <3>1, <4>1 DEF Up
            <4> QED
                BY <3>2, <4>2
        <3> QED
            BY <3>3, <3>4, <3>5
    <2> QED
        BY <1>1, <2>1, <2>2, <2>3
<1>8. ToSet(q) = ToSet(p) \cup {e}
    <2>1. \A i \in 1..n : q[i] \in ToSet(p) \cup {e}
        <3>1. \A i \in 1..Len(p) : p[i] \in ToSet(p)
            BY <1>1 DEF ToSet
        <3> QED
            BY <1>3, <1>4, <3>1
    <2>2. k + 1 \in 1..n /\ q[k+1] = e
        BY <1>1
    <2>3. ASSUME NEW i \in 1..Len(p) PROVE \E j \in 1..n : q[j] = p[i]
        <3>1. CASE i <= k
            <4>1. i \in 1..n /\ q[i] = p[i]
                BY <1>1, <3>1
            <4> QED
                BY <4>1
        <3>2. CASE i > k
            <4>1. i + 1 \in 1..n /\ ~(i + 1 <= k) /\ i + 1 # k + 1 /\ (i + 1) - 1 = i
                BY <1>1, <3>2
            <4>2. q[i+1] = p[i]
                BY <4>1
            <4> QED
                BY <4>1, <4>2
        <3> QED
            BY <1>1, <3>1, <3>2
    <2> HIDE DEF q, n
    <2>4. ToSet(q) = {q[j] : j \in 1..n} /\ ToSet(p) = {p[i] : i \in 1..Len(p)}
        BY <1>1, <1>6 DEF ToSet
    <2> QED
        BY <2>1, <2>2, <2>3, <2>4
<1>9. q \in Seq(Nat) /\ Len(q) = n
    <2> q = [i \in 1..n |-> q[i]]
        OBVIOUS
    <2> HIDE DEF q, n
    <2>1. q \in [1..n -> Nat]
        BY <1>5
    <2>2. q \in Seq(Nat)
        BY <1>6, <2>1, SeqDef
    <2> QED
        BY <1>6, <2>1, <2>2, LenProperties
<1>10. Up(q)
    BY <1>7, <1>9 DEF Up
<1> QED
    BY <1>8, <1>9, <1>10

-----------------------------------------------------------------------------
(* A line of messages that is kept in several queues, one after the other. *)

\* A queue is its first element and the others.
LEMMA FirstAndOthers ==
    ASSUME NEW S, NEW q \in Seq(S), q # <<>>
    PROVE  /\ Head(q) \in S /\ Tail(q) \in Seq(S)
           /\ q = <<Head(q)>> \o Tail(q)
           /\ SubSeq(q, 1, 1) = <<Head(q)>>
           /\ SubSeq(q, 2, Len(q)) = Tail(q)
<1>1. /\ Len(q) \in Nat /\ Len(q) >= 1
      /\ Head(q) \in S /\ Tail(q) \in Seq(S) /\ Head(q) = q[1]
    BY QueueOps
<1>2. Tail(q) = SubSeq(q, 2, Len(q))
    BY TailIsSubSeq
<1>3. 1 \in 1..Len(q) /\ Len(q) \in 1..Len(q)
    BY <1>1
<1>a. 1 + 1 = 2
    OBVIOUS
<1>4. SubSeq(q, 1, Len(q)) = <<q[1]>> \o SubSeq(q, 2, Len(q))
    BY <1>3, <1>a, SubSeqRecursiveFirst
<1>5. SubSeq(q, 1, 1) = <<q[1]>> \o SubSeq(q, 2, 1)
    BY <1>3, <1>a, SubSeqRecursiveFirst
<1>6. SubSeq(q, 2, 1) = <<>>
    BY SubSeqEmpty
<1>7. <<q[1]>> \in Seq(S)
    BY <1>1
<1>8. <<q[1]>> \o <<>> = <<q[1]>>
    BY <1>7, ConcatEmptySeq
<1>9. SubSeq(q, 1, Len(q)) = q
    BY SubSeqFull
<1> QED
    BY <1>1, <1>2, <1>4, <1>5, <1>6, <1>8, <1>9, Zenon

\* What is appended to the last queue comes last in the line.
LEMMA JoinLast ==
    ASSUME NEW S, NEW b \in Seq(S), NEW c \in Seq(S), NEW e \in S
    PROVE  b \o Append(c, e) = Append(b \o c, e)
<1>1. <<e>> \in Seq(S) /\ b \o c \in Seq(S)
    BY ConcatProperties
<1>2. Append(c, e) = c \o <<e>> /\ Append(b \o c, e) = (b \o c) \o <<e>>
    BY <1>1, AppendIsConcat
<1> QED
    BY <1>1, <1>2, ConcatAssociative

\* Moving the first of one queue to the end of the one before leaves the line.
LEMMA JoinMove ==
    ASSUME NEW S, NEW b \in Seq(S), NEW c \in Seq(S), c # <<>>
    PROVE  /\ Append(b, Head(c)) \in Seq(S) /\ Tail(c) \in Seq(S)
           /\ Append(b, Head(c)) # <<>>
           /\ Append(b, Head(c)) \o Tail(c) = b \o c
<1>1. /\ Head(c) \in S /\ Tail(c) \in Seq(S)
      /\ c = <<Head(c)>> \o Tail(c)
    BY FirstAndOthers
<1>2. PICK e \in S, t \in Seq(S) : e = Head(c) /\ t = Tail(c)
    BY <1>1
<1>3. <<e>> \in Seq(S)
    OBVIOUS
<1>4. (b \o <<e>>) \o t = b \o (<<e>> \o t)
    BY <1>3, ConcatAssociative
<1>5. Append(b, e) = b \o <<e>> /\ Append(b, e) \in Seq(S) /\ Append(b, e) # <<>>
    BY AppendIsConcat, AppendProperties
<1> QED
    BY <1>1, <1>2, <1>4, <1>5

\* The first of the line is the first of its first queue ...
LEMMA JoinFirst ==
    ASSUME NEW S, NEW b \in Seq(S), NEW c \in Seq(S), b # <<>>
    PROVE  /\ b \o c \in Seq(S) /\ b \o c # <<>>
           /\ Head(b \o c) = Head(b)
           /\ Tail(b \o c) = Tail(b) \o c
<1>1. PICK x \in S, t \in Seq(S) :
        /\ x = Head(b) /\ t = Tail(b) /\ Len(t) = Len(b) - 1
        /\ \A i \in 1..Len(t) : t[i] = b[i + 1]
        /\ x = b[1]
    BY QueueOps
<1> DEFINE d == b \o c
           u == t \o c
<1>2. /\ d \in Seq(S)
      /\ Len(d) = Len(b) + Len(c)
      /\ \A i \in 1..Len(b) + Len(c) : d[i] = IF i <= Len(b) THEN b[i] ELSE c[i - Len(b)]
    BY ConcatProperties
<1>7. /\ u \in Seq(S)
      /\ Len(u) = Len(t) + Len(c)
      /\ \A i \in 1..Len(t) + Len(c) : u[i] = IF i <= Len(t) THEN t[i] ELSE c[i - Len(t)]
    BY ConcatProperties
<1> HIDE DEF d, u
<1>3. Len(b) \in Nat /\ Len(b) >= 1 /\ Len(c) \in Nat
    BY QueueOps
<1>4. d # <<>>
    BY <1>2, <1>3, EmptySeq
<1>5. /\ Head(d) = d[1] /\ Tail(d) \in Seq(S) /\ Len(Tail(d)) = Len(d) - 1
      /\ \A i \in 1..Len(Tail(d)) : Tail(d)[i] = d[i + 1]
    BY <1>2, <1>4, QueueOps
<1>6. d[1] = b[1]
    BY <1>2, <1>3
<1>8. Len(Tail(d)) = Len(u)
    BY <1>1, <1>2, <1>3, <1>5, <1>7
<1>9. ASSUME NEW i \in 1..Len(u) PROVE Tail(d)[i] = u[i]
    <2>1. i \in 1..Len(Tail(d)) /\ i + 1 \in 1..Len(b) + Len(c) /\ i \in 1..Len(t) + Len(c)
        BY <1>1, <1>2, <1>3, <1>5, <1>7, <1>8
    <2>2. Tail(d)[i] = d[i + 1]
        BY <1>5, <2>1
    <2>3. CASE i <= Len(t)
        <3>1. i \in 1..Len(t) /\ i + 1 <= Len(b)
            BY <1>1, <1>3, <2>3
        <3> QED
            BY <1>1, <1>2, <1>7, <2>1, <2>2, <2>3, <3>1
    <2>4. CASE ~(i <= Len(t))
        <3>1. ~(i + 1 <= Len(b)) /\ i + 1 - Len(b) = i - Len(t)
            BY <1>1, <1>3, <2>4
        <3>2. d[i + 1] = c[i + 1 - Len(b)]
            BY <1>2, <2>1, <3>1
        <3>3. u[i] = c[i - Len(t)]
            BY <1>7, <2>1, <2>4
        <3> QED
            BY <2>2, <3>1, <3>2, <3>3
    <2> QED
        BY <2>3, <2>4
<1>10. Tail(d) = u
    BY <1>5, <1>7, <1>8, <1>9, SeqEqual
<1> QED
    BY <1>1, <1>2, <1>4, <1>5, <1>6, <1>10 DEF d, u

\* ... and as many of the line as its first queue has are that queue.
LEMMA JoinPrefix ==
    ASSUME NEW S, NEW b \in Seq(S), NEW c \in Seq(S), b # <<>>
    PROVE  /\ Len(b) \in 1..Len(b \o c)
           /\ SubSeq(b \o c, 1, Len(b)) = b
           /\ SubSeq(b \o c, Len(b) + 1, Len(b \o c)) = c
<1>1. Len(b) \in Nat /\ Len(b) >= 1 /\ Len(c) \in Nat
    BY QueueOps
<1>2. b \o c \in Seq(S) /\ Len(b \o c) = Len(b) + Len(c)
    BY ConcatProperties
<1>3. 1 \in 1..Len(b) /\ Len(b) \in 1..Len(b)
    BY <1>1
<1>4. SubSeq(b \o c, 1, Len(b)) = b
    BY <1>3, SubSeqOfConcat1, SubSeqFull
<1>5. CASE c = <<>>
    <2>1. Len(c) = 0
        BY <1>5, EmptySeq
    <2>2. Len(b \o c) < Len(b) + 1 /\ Len(b \o c) \in Int /\ Len(b) + 1 \in Int
        BY <1>1, <1>2, <2>1
    <2>3. SubSeq(b \o c, Len(b) + 1, Len(b \o c)) = <<>>
        BY <2>2, SubSeqEmpty
    <2> QED
        BY <1>1, <1>2, <1>4, <1>5, <2>3
<1>6. CASE c # <<>>
    <2>1. Len(c) >= 1
        BY <1>6, QueueOps
    <2>2. /\ Len(b) + 1 \in Len(b) + 1..Len(b) + Len(c)
          /\ Len(b) + Len(c) \in Len(b) + 1..Len(b) + Len(c)
          /\ Len(b) + 1 - Len(b) = 1 /\ Len(b) + Len(c) - Len(b) = Len(c)
        BY <1>1, <2>1
    <2>3. SubSeq(b \o c, Len(b) + 1, Len(b) + Len(c))
            = SubSeq(c, Len(b) + 1 - Len(b), Len(b) + Len(c) - Len(b))
        BY <2>2, SubSeqOfConcat2
    <2>4. SubSeq(c, 1, Len(c)) = c
        BY SubSeqFull
    <2> QED
        BY <1>1, <1>2, <1>4, <2>2, <2>3, <2>4
<1> QED
    BY <1>5, <1>6
=============================================================================
