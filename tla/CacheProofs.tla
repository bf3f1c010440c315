---------------------------- MODULE CacheProofs ----------------------------
(***************************************************************************)
(* Proofs about CacheManager and CachePersistence, for any number of slots *)
(* and any keys.  The invariant says which sequences the links spell: the  *)
(* free slots, the busy slots and the chain of each bucket.  Each list     *)
(* operation is shown to turn the sequence it works on into the sequence   *)
(* with a slot added or taken out, and to leave the others alone; from     *)
(* that the lists stay whole, insert finds room, the busy slots are the    *)
(* entries of the map in AbstractCache, and load gives back what save      *)
(* wrote.  What the recursive Walk and ReplacedTimes return is shown by a  *)
(* least counterexample.                                                   *)
(***************************************************************************)
EXTENDS CachePersistence, FiniteSetTheorems, SequenceTheorems, FunctionTheorems,
        WellFoundedInduction, TLAPS

LEMMA LeastElement ==
  ASSUME NEW T, T \subseteq Nat, T # {}
  PROVE  \E k \in T : \A j \in T : k <= j
<1>1. PICK k \in T : \A j \in T : ~(<<j, k>> \in OpToRel(<, Nat))
  BY WFMin, NatLessThanWellFounded
<1>2. \A j \in T : ~(<<j, k>> \in {ss \in Nat \X Nat : ss[1] < ss[2]})
  BY <1>1, Zenon DEF OpToRel
<1>3. \A j \in T : ~(j < k)
  BY <1>2
<1> QED BY <1>3


(* The element at a position, Nil before the first and after the last. *)
At(s, k) == IF k \in 1 .. Len(s) THEN s[k] ELSE Nil

Lists == {s \in Seq(Slots) : IsInjective(s)}

LEMMA NilNoSlot == Nil \notin Slots /\ \A p \in Slots : p \in Int /\ p # Nil
  BY CacheSizeAssumption DEF Nil, Slots

(* What is known of a list. *)
LEMMA ListFacts ==
  ASSUME NEW s \in Lists
  PROVE  /\ s \in Seq(Slots) /\ Len(s) \in Nat /\ DOMAIN s = 1 .. Len(s)
         /\ \A k \in 1 .. Len(s) : s[k] \in Slots
         /\ \A k, j \in 1 .. Len(s) : s[k] = s[j] => k = j
         /\ Range(s) = {s[k] : k \in 1 .. Len(s)}
         /\ Range(s) \subseteq Slots
<1>1. s \in Seq(Slots) /\ IsInjective(s)
  BY DEF Lists
<1>2. /\ Len(s) \in Nat /\ DOMAIN s = 1 .. Len(s)
      /\ \A k \in 1 .. Len(s) : s[k] \in Slots
  BY <1>1
<1>3. \A k, j \in 1 .. Len(s) : s[k] = s[j] => k = j
  BY <1>1, <1>2 DEF IsInjective
<1>4. Range(s) = {s[k] : k \in 1 .. Len(s)}
  BY <1>2, Zenon DEF Range
<1>5. Range(s) \subseteq Slots
  BY <1>2, <1>4
<1> QED BY <1>1, <1>2, <1>3, <1>4, <1>5

(* A list of slots is no longer than the cache. *)
LEMMA ListFits ==
  ASSUME NEW s \in Lists
  PROVE  Len(s) = Cardinality(Range(s)) /\ Len(s) <= Size
<1>0. Len(s) \in Nat /\ Size \in Nat
  BY ListFacts, CacheSizeAssumption
<1> DEFINE f == [k \in 1 .. Len(s) |-> s[k]]
<1>1. f \in Bijection(1 .. Len(s), Range(s))
  <2>1. f \in [1 .. Len(s) -> Range(s)]
    BY ListFacts
  <2>2. \A i, j \in 1 .. Len(s) : f[i] = f[j] => i = j
    BY ListFacts
  <2>3. \A y \in Range(s) : \E i \in 1 .. Len(s) : f[i] = y
    BY ListFacts
  <2> QED BY <2>1, <2>2, <2>3, Fun_IsBij
<1>2. ExistsBijection(1 .. Len(s), Range(s))
  BY <1>1 DEF ExistsBijection
<1>3. IsFiniteSet(1 .. Len(s)) /\ Cardinality(1 .. Len(s)) = Len(s)
  BY SMTT(30), <1>0, FS_Interval
<1>4. Len(s) = Cardinality(Range(s))
  BY <1>2, <1>3, FS_Bijection
<1>5. IsFiniteSet(Slots) /\ Cardinality(Slots) = Size
  <2>1. 0 \in Int /\ Size - 1 \in Int /\ ~(0 > Size - 1) /\ Size - 1 - 0 + 1 = Size
    BY CacheSizeAssumption
  <2>2. /\ IsFiniteSet(0 .. Size - 1)
        /\ Cardinality(0 .. Size - 1) = IF 0 > Size - 1 THEN 0 ELSE Size - 1 - 0 + 1
    BY <2>1, FS_Interval, Zenon
  <2> QED BY <2>1, <2>2 DEF Slots
<1>6. Cardinality(Range(s)) <= Cardinality(Slots)
  BY <1>5, FS_Subset, ListFacts
<1> QED BY <1>4, <1>5, <1>6

(* next leads through s, and then to Nil. *)
Spells(next, s) == \A k \in 1 .. Len(s) : next[s[k]] = At(s, k + 1)

IsFrom(f, next, n) ==
    f = [k \in 0 .. n |-> [p \in Slots \cup {Nil} |->
            IF p = Nil \/ k = 0 THEN <<>> ELSE <<p>> \o f[k - 1][next[p]]]]

LEMMA FromExists ==
  ASSUME NEW next, NEW n \in Nat
  PROVE  \E f : IsFrom(f, next, n)
<1> DEFINE Bad == {k \in Nat : ~\E f : IsFrom(f, next, k)}
<1>1. SUFFICES ASSUME Bad # {} PROVE FALSE
  OBVIOUS
<1>2. PICK k \in Bad : \A j \in Bad : k <= j
  BY <1>1, LeastElement
<1>3. CASE k = 0
  <2> DEFINE f == [i \in 0 .. 0 |-> [p \in Slots \cup {Nil} |-> <<>>]]
  <2>1. f = [i \in 0 .. 0 |-> [p \in Slots \cup {Nil} |->
                IF p = Nil \/ i = 0 THEN <<>> ELSE <<p>> \o f[i - 1][next[p]]]]
    OBVIOUS
  <2>2. IsFrom(f, next, 0)
    BY <2>1, Zenon DEF IsFrom
  <2> QED BY <1>2, <1>3, <2>2
<1>4. CASE k # 0
  <2>1. PICK j \in Nat : k = j + 1
    BY <1>2, <1>4
  <2>2. PICK f : IsFrom(f, next, j)
    BY <1>2, <2>1
  <2> DEFINE g == [i \in 0 .. j + 1 |->
                     IF i = j + 1
                     THEN [p \in Slots \cup {Nil} |->
                              IF p = Nil THEN <<>> ELSE <<p>> \o f[j][next[p]]]
                     ELSE f[i]]
  <2> DEFINE h == [i \in 0 .. j + 1 |-> [p \in Slots \cup {Nil} |->
                     IF p = Nil \/ i = 0 THEN <<>> ELSE <<p>> \o g[i - 1][next[p]]]]
  <2>3. ASSUME NEW i \in 0 .. j + 1 PROVE g[i] = h[i]
    <3>1. CASE i = j + 1
      <4>1. i # 0 /\ i - 1 = j /\ j \in 0 .. j + 1 /\ j # j + 1
        BY <2>1, <3>1
      <4>2. g[i - 1] = f[j]
        BY <4>1
      <4>3. h[i] = [p \in Slots \cup {Nil} |->
                      IF p = Nil THEN <<>> ELSE <<p>> \o f[j][next[p]]]
        BY <4>1, <4>2
      <4> QED BY <3>1, <4>3
    <3>2. CASE i # j + 1
      <4>1. i \in 0 .. j /\ (i # 0 => i - 1 \in 0 .. j + 1 /\ i - 1 # j + 1)
        BY <2>1, <3>2
      <4>2. g[i] = f[i] /\ (i # 0 => g[i - 1] = f[i - 1])
        BY <3>2, <4>1
      <4>3. f[i] = [p \in Slots \cup {Nil} |->
                      IF p = Nil \/ i = 0 THEN <<>> ELSE <<p>> \o f[i - 1][next[p]]]
        BY <2>2, <4>1 DEF IsFrom
      <4>4. h[i] = [p \in Slots \cup {Nil} |->
                      IF p = Nil \/ i = 0 THEN <<>> ELSE <<p>> \o f[i - 1][next[p]]]
        BY <4>2
      <4> QED BY <4>2, <4>3, <4>4, Zenon
    <3> QED BY <3>1, <3>2
  <2>4. g = h
    BY <2>3, Zenon
  <2>5. IsFrom(g, next, j + 1)
    BY <2>4, Zenon DEF IsFrom
  <2> QED BY <1>2, <2>1, <2>5
<1> QED BY <1>3, <1>4

(* The last d elements of a sequence. *)
Ending(s, d) == [i \in 1 .. d |-> s[Len(s) - d + i]]

LEMMA EndingGrows ==
  ASSUME NEW S, NEW s \in Seq(S), NEW d \in Nat, d < Len(s)
  PROVE  /\ Ending(s, d) \in Seq(S)
         /\ <<s[Len(s) - d]>> \o Ending(s, d) = Ending(s, d + 1)
<1> DEFINE x == s[Len(s) - d]
<1>1. Len(s) \in Nat /\ \A k \in 1 .. Len(s) : s[k] \in S
  OBVIOUS
<1>2. Ending(s, d) \in Seq(S) /\ Len(Ending(s, d)) = d
  BY <1>1 DEF Ending
<1>3. x \in S
  BY <1>1
<1> HIDE DEF x
<1>4. /\ <<x>> \o Ending(s, d) \in Seq(S)
      /\ Len(<<x>> \o Ending(s, d)) = d + 1
      /\ (<<x>> \o Ending(s, d))[1] = x
      /\ \A k \in 1 .. d : (<<x>> \o Ending(s, d))[k + 1] = Ending(s, d)[k]
  BY <1>2, <1>3
<1>5. Ending(s, d + 1) \in Seq(S) /\ Len(Ending(s, d + 1)) = d + 1
  BY <1>1 DEF Ending
<1>6. ASSUME NEW k \in 1 .. d + 1
      PROVE  (<<x>> \o Ending(s, d))[k] = Ending(s, d + 1)[k]
  <2>1. CASE k = 1
    BY <1>1, <1>4, <2>1 DEF Ending, x
  <2>2. CASE k # 1
    <3>1. k - 1 \in 1 .. d /\ (k - 1) + 1 = k
      BY <2>2
    <3>2. (<<x>> \o Ending(s, d))[k] = Ending(s, d)[k - 1]
      BY <1>4, <3>1
    <3> QED BY <1>1, <3>1, <3>2 DEF Ending
  <2> QED BY <2>1, <2>2
<1>7. <<x>> \o Ending(s, d) = Ending(s, d + 1)
  BY <1>4, <1>5, <1>6
<1> QED BY <1>2, <1>7 DEF x

(* A walk along next is the sequence that next spells. *)
LEMMA WalkIs ==
  ASSUME NEW next, NEW s \in Lists, Spells(next, s)
  PROVE  Walk(next, At(s, 1)) = s
<1>1. /\ s \in Seq(Slots) /\ Len(s) \in Nat /\ Len(s) <= Size /\ Size \in Nat
      /\ \A k \in 1 .. Len(s) : s[k] \in Slots
  BY ListFacts, ListFits, CacheSizeAssumption
<1>2. PICK f : IsFrom(f, next, Size + 1) /\ Walk(next, At(s, 1)) = f[Size + 1][At(s, 1)]
  <2>1. Size + 1 \in Nat
    BY <1>1
  <2>2. \E f : IsFrom(f, next, Size + 1)
    BY <2>1, FromExists, Zenon
  <2>3. Walk(next, At(s, 1)) = (CHOOSE f : IsFrom(f, next, Size + 1))[Size + 1][At(s, 1)]
    BY Zenon DEF Walk, IsFrom
  <2> QED BY <2>2, <2>3, Zenon
<1> DEFINE Ends(d) == \A n \in 0 .. Size + 1 :
                         d <= n => f[n][At(s, Len(s) - d + 1)] = Ending(s, d)
           Bad == {d \in 0 .. Len(s) : ~Ends(d)}
<1>3. ASSUME Bad # {} PROVE FALSE
  <2>1. Bad \subseteq Nat
    BY <1>1
  <2>2. PICK d \in Bad : \A j \in Bad : d <= j
    BY <1>3, <2>1, LeastElement
  <2>3. d \in 0 .. Len(s) /\ ~Ends(d)
    OBVIOUS
  <2>4. PICK n \in 0 .. Size + 1 : /\ d <= n
                                   /\ f[n][At(s, Len(s) - d + 1)] # Ending(s, d)
    BY <2>3
  <2>5. CASE d = 0
    <3>1. At(s, Len(s) - d + 1) = Nil
      BY <1>1, <2>5 DEF At
    <3>2. f[n][Nil] = <<>>
      BY <1>2, <2>4 DEF IsFrom
    <3>3. Ending(s, 0) = <<>>
      BY DEF Ending
    <3> QED BY <2>4, <2>5, <3>1, <3>2, <3>3
  <2>6. CASE d # 0
    <3>1. PICK e \in Nat : d = e + 1
      BY <2>3, <2>6
    <3>2. e \in 0 .. Len(s) /\ e < Len(s) /\ n # 0 /\ n - 1 \in 0 .. Size + 1 /\ e <= n - 1
      BY <1>1, <2>3, <2>4, <3>1
    <3>3. Ends(e)
      <4>1. e \notin Bad
        BY <2>2, <3>1
      <4> QED BY <3>2, <4>1
    <3> DEFINE p == s[Len(s) - e]
    <3>4. /\ Len(s) - e \in 1 .. Len(s) /\ p \in Slots
          /\ At(s, Len(s) - d + 1) = p
          /\ next[p] = At(s, Len(s) - e + 1)
      <4>1. Len(s) - e \in 1 .. Len(s) /\ Len(s) - d + 1 = Len(s) - e
        BY <1>1, <3>1, <3>2
      <4> QED BY <1>1, <4>1 DEF Spells, At
    <3> HIDE DEF p
    <3>5. f[n][p] = <<p>> \o f[n - 1][next[p]]
      <4>1. f[n] = [q \in Slots \cup {Nil} |->
                      IF q = Nil \/ n = 0 THEN <<>> ELSE <<q>> \o f[n - 1][next[q]]]
        BY <1>2, <2>4, Zenon DEF IsFrom
      <4>2. p \in Slots \cup {Nil} /\ p # Nil /\ n # 0
        BY <3>2, <3>4, NilNoSlot
      <4> QED BY <4>1, <4>2, Zenon
    <3>6. f[n - 1][next[p]] = Ending(s, e)
      BY <3>2, <3>3, <3>4
    <3>7. <<p>> \o Ending(s, e) = Ending(s, d)
      BY <1>1, <3>1, <3>2, EndingGrows DEF p
    <3> QED BY <2>4, <3>4, <3>5, <3>6, <3>7
  <2> QED BY <2>5, <2>6
<1>4. Ends(Len(s))
  BY <1>1, <1>3
<1>5. f[Size + 1][At(s, 1)] = Ending(s, Len(s))
  <2>1. Len(s) - Len(s) + 1 = 1 /\ Size + 1 \in 0 .. Size + 1 /\ Len(s) <= Size + 1
    BY <1>1
  <2> QED BY <1>4, <2>1
<1>6. Ending(s, Len(s)) = s
  BY <1>1 DEF Ending
<1> QED BY <1>2, <1>5, <1>6
-----------------------------------------------------------------------------
(* Lists with an element more and an element less. *)
Without(s, k) == [i \in 1 .. Len(s) - 1 |-> IF i < k THEN s[i] ELSE s[i + 1]]

Pushed(x, s) == <<x>> \o s

LEMMA AtFacts ==
  ASSUME NEW s \in Lists
  PROVE  /\ \A k \in Int : At(s, k) \in Slots \cup {Nil}
         /\ \A k \in 1 .. Len(s) : At(s, k) = s[k] /\ At(s, k) # Nil
         /\ \A k \in Int : k \notin 1 .. Len(s) => At(s, k) = Nil
  BY ListFacts, NilNoSlot DEF At

LEMMA IsList ==
  ASSUME NEW s \in Seq(Slots), \A k, j \in 1 .. Len(s) : s[k] = s[j] => k = j
  PROVE  s \in Lists
<1>1. DOMAIN s = 1 .. Len(s)
  OBVIOUS
<1>2. IsInjective(s)
  BY <1>1 DEF IsInjective
<1> QED BY <1>2 DEF Lists

LEMMA AppendList ==
  ASSUME NEW s \in Lists, NEW x \in Slots, x \notin Range(s)
  PROVE  /\ Append(s, x) \in Lists
         /\ Len(Append(s, x)) = Len(s) + 1
         /\ \A k \in 1 .. Len(s) : Append(s, x)[k] = s[k]
         /\ Append(s, x)[Len(s) + 1] = x
         /\ Range(Append(s, x)) = Range(s) \cup {x}
<1> DEFINE t == Append(s, x)
<1>1. /\ s \in Seq(Slots) /\ Len(s) \in Nat
      /\ \A k \in 1 .. Len(s) : s[k] \in Slots /\ s[k] \in Range(s)
      /\ \A k, j \in 1 .. Len(s) : s[k] = s[j] => k = j
  BY ListFacts
<1>2. /\ t \in Seq(Slots) /\ Len(t) = Len(s) + 1
      /\ \A k \in 1 .. Len(s) : t[k] = s[k]
      /\ t[Len(s) + 1] = x
  BY <1>1
<1> HIDE DEF t
<1>3. \A k, j \in 1 .. Len(t) : t[k] = t[j] => k = j
  <2> SUFFICES ASSUME NEW k \in 1 .. Len(t), NEW j \in 1 .. Len(t), t[k] = t[j]
               PROVE  k = j
    OBVIOUS
  <2>1. (k \in 1 .. Len(s) \/ k = Len(s) + 1) /\ (j \in 1 .. Len(s) \/ j = Len(s) + 1)
    BY <1>1, <1>2
  <2> QED BY <1>1, <1>2, <2>1
<1>4. t \in Lists
  BY <1>2, <1>3, IsList
<1>5. Range(t) = Range(s) \cup {x}
  <2>1. Range(t) = {t[k] : k \in 1 .. Len(s) + 1} /\ Range(s) = {s[k] : k \in 1 .. Len(s)}
    BY <1>2, <1>4, ListFacts
  <2>2. 1 .. Len(s) + 1 = (1 .. Len(s)) \cup {Len(s) + 1}
    BY <1>1
  <2> QED BY <1>2, <2>1, <2>2
<1> QED BY <1>2, <1>4, <1>5 DEF t

LEMMA PushList ==
  ASSUME NEW s \in Lists, NEW x \in Slots, x \notin Range(s)
  PROVE  /\ Pushed(x, s) \in Lists
         /\ Len(Pushed(x, s)) = Len(s) + 1
         /\ Pushed(x, s)[1] = x
         /\ \A k \in 1 .. Len(s) : Pushed(x, s)[k + 1] = s[k]
         /\ Range(Pushed(x, s)) = Range(s) \cup {x}
<1> DEFINE t == Pushed(x, s)
<1>1. /\ s \in Seq(Slots) /\ Len(s) \in Nat
      /\ \A k \in 1 .. Len(s) : s[k] \in Slots /\ s[k] \in Range(s)
      /\ \A k, j \in 1 .. Len(s) : s[k] = s[j] => k = j
  BY ListFacts
<1>2. /\ t \in Seq(Slots) /\ Len(t) = Len(s) + 1
      /\ t[1] = x
      /\ \A k \in 1 .. Len(s) : t[k + 1] = s[k]
  BY <1>1 DEF Pushed
<1> HIDE DEF t
<1>0. \A k \in 1 .. Len(t) : k = 1 \/ (k - 1 \in 1 .. Len(s) /\ t[k] = s[k - 1])
  <2> SUFFICES ASSUME NEW k \in 1 .. Len(t), k # 1
               PROVE  k - 1 \in 1 .. Len(s) /\ t[k] = s[k - 1]
    OBVIOUS
  <2>1. k - 1 \in 1 .. Len(s) /\ (k - 1) + 1 = k
    BY <1>1, <1>2
  <2> QED BY <1>2, <2>1
<1>3. \A k, j \in 1 .. Len(t) : t[k] = t[j] => k = j
  <2> SUFFICES ASSUME NEW k \in 1 .. Len(t), NEW j \in 1 .. Len(t), t[k] = t[j]
               PROVE  k = j
    OBVIOUS
  <2>1. k = 1 \/ (k - 1 \in 1 .. Len(s) /\ t[k] = s[k - 1])
    BY <1>0
  <2>2. j = 1 \/ (j - 1 \in 1 .. Len(s) /\ t[j] = s[j - 1])
    BY <1>0
  <2> QED BY <1>1, <1>2, <2>1, <2>2
<1>4. t \in Lists
  BY <1>2, <1>3, IsList
<1>5. Range(t) = Range(s) \cup {x}
  <2>1. Range(t) = {t[k] : k \in 1 .. Len(t)} /\ Range(s) = {s[k] : k \in 1 .. Len(s)}
    BY <1>2, <1>4, ListFacts
  <2>2. \A k \in 1 .. Len(t) : t[k] \in Range(s) \cup {x}
    BY <1>0, <1>2, <2>1
  <2>3. \A k \in 1 .. Len(s) : k + 1 \in 1 .. Len(t)
    BY <1>1, <1>2
  <2>4. 1 \in 1 .. Len(t)
    BY <1>1, <1>2
  <2>5. \A k \in 1 .. Len(s) : t[k + 1] = s[k]
    BY <1>0, <1>2, <2>3
  <2>6. t[1] = x
    BY <1>2, <2>4
  <2>7. \A k \in 1 .. Len(s) : s[k] \in Range(t)
    BY <2>1, <2>3, <2>5
  <2>8. x \in Range(t)
    BY <2>1, <2>4, <2>6
  <2> HIDE DEF t
  <2> QED BY <2>1, <2>2, <2>7, <2>8
<1> QED BY <1>2, <1>4, <1>5 DEF t

LEMMA WithoutList ==
  ASSUME NEW s \in Lists, NEW n \in 1 .. Len(s)
  PROVE  /\ Without(s, n) \in Lists
         /\ Len(Without(s, n)) = Len(s) - 1
         /\ \A k \in 1 .. Len(s) - 1 : Without(s, n)[k] = IF k < n THEN s[k] ELSE s[k + 1]
         /\ Range(Without(s, n)) = Range(s) \ {s[n]}
<1> DEFINE t == Without(s, n)
<1>1. /\ s \in Seq(Slots) /\ Len(s) \in Nat
      /\ \A k \in 1 .. Len(s) : s[k] \in Slots /\ s[k] \in Range(s)
      /\ \A k, j \in 1 .. Len(s) : s[k] = s[j] => k = j
  BY ListFacts
<1>2. /\ t \in Seq(Slots) /\ Len(t) = Len(s) - 1
      /\ \A k \in 1 .. Len(s) - 1 : t[k] = IF k < n THEN s[k] ELSE s[k + 1]
  <2>1. \A k \in 1 .. Len(s) - 1 : k \in 1 .. Len(s) /\ k + 1 \in 1 .. Len(s)
    BY <1>1
  <2>2. Len(s) - 1 \in Nat
    BY <1>1
  <2>3. t \in [1 .. Len(s) - 1 -> Slots]
    BY <1>1, <2>1 DEF Without
  <2> QED BY <2>2, <2>3 DEF Without
<1> HIDE DEF t
<1>3. \A k, j \in 1 .. Len(t) : t[k] = t[j] => k = j
  <2> SUFFICES ASSUME NEW k \in 1 .. Len(t), NEW j \in 1 .. Len(t), t[k] = t[j]
               PROVE  k = j
    OBVIOUS
  <2>1. /\ k \in 1 .. Len(s) /\ k + 1 \in 1 .. Len(s)
        /\ j \in 1 .. Len(s) /\ j + 1 \in 1 .. Len(s)
    BY <1>1, <1>2
  <2>2. /\ t[k] = IF k < n THEN s[k] ELSE s[k + 1]
        /\ t[j] = IF j < n THEN s[j] ELSE s[j + 1]
    BY <1>2
  <2>3. CASE k < n /\ j < n
    BY <1>1, <2>1, <2>2, <2>3
  <2>4. CASE k < n /\ ~(j < n)
    <3>1. s[k] = s[j + 1]
      BY <2>2, <2>4
    <3>2. k = j + 1
      BY <1>1, <2>1, <3>1
    <3> QED BY <1>1, <2>4, <3>2
  <2>5. CASE ~(k < n) /\ j < n
    <3>1. s[k + 1] = s[j]
      BY <2>2, <2>5
    <3>2. k + 1 = j
      BY <1>1, <2>1, <3>1
    <3> QED BY <1>1, <2>5, <3>2
  <2>6. CASE ~(k < n) /\ ~(j < n)
    <3>1. s[k + 1] = s[j + 1]
      BY <2>2, <2>6
    <3>2. k + 1 = j + 1
      BY <1>1, <2>1, <3>1
    <3> QED BY <1>1, <3>2
  <2> QED BY <2>3, <2>4, <2>5, <2>6
<1>4. t \in Lists
  BY <1>2, <1>3, IsList
<1>5. Range(t) = Range(s) \ {s[n]}
  <2>1. Range(t) = {t[k] : k \in 1 .. Len(t)} /\ Range(s) = {s[k] : k \in 1 .. Len(s)}
    BY <1>2, <1>4, ListFacts
  <2>2. ASSUME NEW k \in 1 .. Len(t) PROVE t[k] \in Range(s) \ {s[n]}
    <3>1. k \in 1 .. Len(s) /\ k + 1 \in 1 .. Len(s) /\ k \in 1 .. Len(s) - 1
      BY <1>1, <1>2
    <3>2. CASE k < n
      BY <1>1, <1>2, <3>1, <3>2
    <3>3. CASE ~(k < n)
      <4>1. k + 1 # n
        BY <3>1, <3>3
      <4> QED BY <1>1, <1>2, <3>1, <3>3, <4>1
    <3> QED BY <3>2, <3>3
  <2>3. ASSUME NEW k \in 1 .. Len(s), k # n PROVE s[k] \in Range(t)
    <3>1. CASE k < n
      <4>1. k \in 1 .. Len(t)
        BY <1>1, <1>2, <3>1
      <4>2. t[k] = s[k]
        BY <1>2, <3>1, <4>1
      <4> QED BY <2>1, <4>1, <4>2
    <3>2. CASE ~(k < n)
      <4>1. k - 1 \in 1 .. Len(t) /\ ~(k - 1 < n) /\ (k - 1) + 1 = k
        BY <1>1, <1>2, <2>3, <3>2
      <4>2. t[k - 1] = s[k]
        BY <1>2, <4>1
      <4> QED BY <2>1, <4>1, <4>2
    <3> QED BY <3>1, <3>2
  <2>4. Range(t) \subseteq Range(s) \ {s[n]}
    BY <2>1, <2>2
  <2>5. Range(s) \ {s[n]} \subseteq Range(t)
    BY <2>1, <2>3
  <2> QED BY <2>4, <2>5
<1> QED BY <1>2, <1>4, <1>5 DEF t

(* What the operations on links do to each link. *)
Links == [next : Slots \cup {Nil}, prev : Slots \cup {Nil}]

LEMMA AppendedLinks ==
  ASSUME NEW L \in [Slots -> Links], NEW k \in Slots \cup {Nil}, NEW p \in Slots, p # k
  PROVE  /\ Appended(L, k, p) \in [Slots -> Links]
         /\ \A q \in Slots :
              /\ Appended(L, k, p)[q].next =
                    IF q = p THEN Nil ELSE IF q = k THEN p ELSE L[q].next
              /\ Appended(L, k, p)[q].prev = IF q = p THEN k ELSE L[q].prev
<1>1. CASE k = Nil
  BY <1>1, NilNoSlot DEF Appended, Link, Links
<1>2. CASE k # Nil
  BY <1>2, NilNoSlot DEF Appended, Link, Links
<1> QED BY <1>1, <1>2

LEMMA UnlinkedLinks ==
  ASSUME NEW L \in [Slots -> Links], NEW p \in Slots
  PROVE  /\ Unlinked(L, p) \in [Slots -> Links]
         /\ \A q \in Slots :
              /\ Unlinked(L, p)[q].next = IF q = L[p].prev THEN L[p].next ELSE L[q].next
              /\ Unlinked(L, p)[q].prev = IF q = L[p].next THEN L[p].prev ELSE L[q].prev
<1> DEFINE l == L[p]
           F == IF l.prev = Nil THEN L ELSE [L EXCEPT ![l.prev].next = l.next]
           G == IF l.next = Nil THEN F ELSE [F EXCEPT ![l.next].prev = l.prev]
<1>1. Unlinked(L, p) = G
  BY DEF Unlinked
<1>2. l \in Links /\ l.prev \in Slots \cup {Nil} /\ l.next \in Slots \cup {Nil}
  BY DEF Links
<1> HIDE DEF l
<1>3. /\ F \in [Slots -> Links]
      /\ \A q \in Slots : /\ F[q].next = IF q = l.prev THEN l.next ELSE L[q].next
                          /\ F[q].prev = L[q].prev
  BY <1>2, NilNoSlot DEF Links
<1> HIDE DEF F
<1>4. /\ G \in [Slots -> Links]
      /\ \A q \in Slots : /\ G[q].prev = IF q = l.next THEN l.prev ELSE F[q].prev
                          /\ G[q].next = F[q].next
  BY <1>2, <1>3, NilNoSlot DEF Links
<1> HIDE DEF G
<1> QED BY <1>1, <1>3, <1>4 DEF l

(* The links of the elements of s are those of a list. *)
Listed(L, s) ==
    \A k \in 1 .. Len(s) : /\ L[s[k]].next = At(s, k + 1)
                           /\ L[s[k]].prev = At(s, k - 1)

(* A list whose elements' links have not changed is listed still. *)
LEMMA StillListed ==
  ASSUME NEW L, NEW K, NEW s \in Lists, Listed(L, s),
         \A q \in Range(s) : K[q].next = L[q].next /\ K[q].prev = L[q].prev
  PROVE  Listed(K, s)
<1>1. \A k \in 1 .. Len(s) : s[k] \in Range(s)
  BY ListFacts
<1> QED BY <1>1 DEF Listed

LEMMA AppendListed ==
  ASSUME NEW L \in [Slots -> Links], NEW s \in Lists, Listed(L, s),
         NEW p \in Slots, p \notin Range(s)
  PROVE  /\ Appended(L, At(s, Len(s)), p) \in [Slots -> Links]
         /\ Listed(Appended(L, At(s, Len(s)), p), Append(s, p))
         /\ \A q \in Slots \ (Range(s) \cup {p}) :
              /\ Appended(L, At(s, Len(s)), p)[q].next = L[q].next
              /\ Appended(L, At(s, Len(s)), p)[q].prev = L[q].prev
<1> DEFINE e == At(s, Len(s))
           K == Appended(L, e, p)
           t == Append(s, p)
<1>1. /\ Len(s) \in Nat
      /\ \A k \in 1 .. Len(s) : s[k] \in Slots /\ s[k] \in Range(s)
      /\ \A k, j \in 1 .. Len(s) : s[k] = s[j] => k = j
  BY ListFacts
<1>2. /\ t \in Lists /\ Len(t) = Len(s) + 1
      /\ \A k \in 1 .. Len(s) : t[k] = s[k]
      /\ t[Len(s) + 1] = p
  BY AppendList
<1>3. e \in Slots \cup {Nil} /\ e # p /\ (e # Nil => e = s[Len(s)] /\ Len(s) \in 1 .. Len(s))
  BY <1>1, NilNoSlot DEF At
<1> HIDE DEF e
<1>4. /\ K \in [Slots -> Links]
      /\ \A q \in Slots : /\ K[q].next = IF q = p THEN Nil ELSE IF q = e THEN p ELSE L[q].next
                          /\ K[q].prev = IF q = p THEN e ELSE L[q].prev
  BY <1>3, AppendedLinks
<1> HIDE DEF K, t
<1>5. ASSUME NEW k \in 1 .. Len(s)
      PROVE  K[t[k]].next = At(t, k + 1) /\ K[t[k]].prev = At(t, k - 1)
  <2>1. /\ t[k] = s[k] /\ s[k] \in Slots /\ s[k] # p
        /\ L[s[k]].next = At(s, k + 1) /\ L[s[k]].prev = At(s, k - 1)
    BY <1>1, <1>2 DEF Listed
  <2>2. K[t[k]].prev = At(t, k - 1)
    <3>1. K[t[k]].prev = At(s, k - 1)
      BY <1>4, <2>1
    <3>2. At(t, k - 1) = At(s, k - 1)
      BY <1>1, <1>2 DEF At
    <3> QED BY <3>1, <3>2
  <2>3. K[t[k]].next = At(t, k + 1)
    <3>1. CASE k = Len(s)
      <4>1. s[k] = e
        BY <1>1, <3>1 DEF At, e
      <4>2. At(t, k + 1) = p
        BY <1>1, <1>2, <3>1 DEF At
      <4> QED BY <1>4, <2>1, <4>1, <4>2
    <3>2. CASE k # Len(s)
      <4>1. s[k] # e
        BY <1>1, <1>3, <3>2, NilNoSlot
      <4>2. k + 1 \in 1 .. Len(s) /\ k + 1 \in 1 .. Len(t)
        BY <1>1, <1>2, <3>2
      <4>3. At(t, k + 1) = At(s, k + 1)
        BY <1>2, <4>2 DEF At
      <4> QED BY <1>4, <2>1, <4>1, <4>3
    <3> QED BY <3>1, <3>2
  <2> QED BY <2>2, <2>3
<1>6. K[t[Len(s) + 1]].next = At(t, Len(s) + 1 + 1) /\ K[t[Len(s) + 1]].prev = At(t, Len(s))
  <2>1. At(t, Len(s) + 1 + 1) = Nil
    BY <1>1, <1>2 DEF At
  <2>2. At(t, Len(s)) = e
    BY <1>1, <1>2 DEF At, e
  <2> QED BY <1>2, <1>4, <2>1, <2>2
<1>7. Listed(K, t)
  <2>1. \A k \in 1 .. Len(t) : k \in 1 .. Len(s) \/ k = Len(s) + 1
    BY <1>1, <1>2
  <2>2. Len(s) + 1 - 1 = Len(s)
    BY <1>1
  <2> QED BY <1>5, <1>6, <2>1, <2>2 DEF Listed
<1>8. \A q \in Slots \ (Range(s) \cup {p}) : q # p /\ q # e
  BY <1>1, <1>3, NilNoSlot
<1> QED BY <1>4, <1>7, <1>8 DEF K, t, e

LEMMA UnlinkListed ==
  ASSUME NEW L \in [Slots -> Links], NEW s \in Lists, Listed(L, s), NEW n \in 1 .. Len(s)
  PROVE  /\ Unlinked(L, s[n]) \in [Slots -> Links]
         /\ Listed(Unlinked(L, s[n]), Without(s, n))
         /\ \A q \in Slots \ Range(s) : /\ Unlinked(L, s[n])[q].next = L[q].next
                                       /\ Unlinked(L, s[n])[q].prev = L[q].prev
<1> DEFINE K == Unlinked(L, s[n])
           t == Without(s, n)
           before == At(s, n - 1)
           after == At(s, n + 1)
<1>1. /\ Len(s) \in Nat /\ n \in Int
      /\ \A k \in 1 .. Len(s) : s[k] \in Slots /\ s[k] \in Range(s)
      /\ \A k, j \in 1 .. Len(s) : s[k] = s[j] => k = j
  BY ListFacts
<1>2. /\ t \in Lists /\ Len(t) = Len(s) - 1
      /\ \A k \in 1 .. Len(s) - 1 : t[k] = IF k < n THEN s[k] ELSE s[k + 1]
  BY WithoutList
<1>3. L[s[n]].next = after /\ L[s[n]].prev = before
  BY DEF Listed
<1>4. /\ K \in [Slots -> Links]
      /\ \A q \in Slots : /\ K[q].next = IF q = before THEN after ELSE L[q].next
                          /\ K[q].prev = IF q = after THEN before ELSE L[q].prev
  BY <1>1, <1>3, UnlinkedLinks
<1>5. /\ before = IF n > 1 THEN s[n - 1] ELSE Nil
      /\ after = IF n < Len(s) THEN s[n + 1] ELSE Nil
  BY <1>1 DEF At
<1> HIDE DEF K, t, before, after
<1>6. ASSUME NEW k \in 1 .. Len(t)
      PROVE  K[t[k]].next = At(t, k + 1) /\ K[t[k]].prev = At(t, k - 1)
  <2>1. k \in Int /\ k \in 1 .. Len(s) /\ k + 1 \in 1 .. Len(s) /\ k \in 1 .. Len(s) - 1
    BY <1>1, <1>2
  <2>2. /\ s[k] \in Slots /\ s[k + 1] \in Slots
        /\ L[s[k]].next = At(s, k + 1) /\ L[s[k]].prev = At(s, k - 1)
        /\ L[s[k + 1]].next = At(s, k + 1 + 1) /\ L[s[k + 1]].prev = At(s, k + 1 - 1)
    BY <1>1, <2>1 DEF Listed
  <2>3. \A j \in 1 .. Len(s) : (s[j] = before) <=> (j = n - 1)
    <3> SUFFICES ASSUME NEW j \in 1 .. Len(s) PROVE (s[j] = before) <=> (j = n - 1)
      OBVIOUS
    <3>1. CASE n > 1
      <4>1. n - 1 \in 1 .. Len(s) /\ before = s[n - 1]
        BY <1>1, <1>5, <3>1
      <4> QED BY <1>1, <4>1
    <3>2. CASE ~(n > 1)
      <4>1. before = Nil /\ j # n - 1
        BY <1>1, <1>5, <3>2
      <4> QED BY <1>1, <4>1, NilNoSlot
    <3> QED BY <3>1, <3>2
  <2>4. \A j \in 1 .. Len(s) : (s[j] = after) <=> (j = n + 1)
    <3> SUFFICES ASSUME NEW j \in 1 .. Len(s) PROVE (s[j] = after) <=> (j = n + 1)
      OBVIOUS
    <3>1. CASE n < Len(s)
      <4>1. n + 1 \in 1 .. Len(s) /\ after = s[n + 1]
        BY <1>1, <1>5, <3>1
      <4> QED BY <1>1, <4>1
    <3>2. CASE ~(n < Len(s))
      <4>1. after = Nil /\ j # n + 1
        BY <1>1, <1>5, <3>2
      <4> QED BY <1>1, <4>1, NilNoSlot
    <3> QED BY <3>1, <3>2
  <2>5. \A j \in Int : At(t, j) = IF j < n THEN IF j < Len(s) THEN At(s, j) ELSE Nil
                                 ELSE IF j < 1 THEN Nil ELSE At(s, j + 1)
    <3> SUFFICES ASSUME NEW j \in Int
                 PROVE  At(t, j) = IF j < n THEN IF j < Len(s) THEN At(s, j) ELSE Nil
                                   ELSE IF j < 1 THEN Nil ELSE At(s, j + 1)
      OBVIOUS
    <3>1. CASE j \in 1 .. Len(s) - 1
      <4>1. At(t, j) = t[j] /\ At(s, j) = s[j] /\ At(s, j + 1) = s[j + 1]
        BY <1>1, <1>2, <3>1 DEF At
      <4>2. t[j] = IF j < n THEN s[j] ELSE s[j + 1]
        BY <1>2, <3>1
      <4> QED BY <1>1, <3>1, <4>1, <4>2
    <3>2. CASE j \notin 1 .. Len(s) - 1
      BY <1>1, <1>2, <3>2 DEF At
    <3> QED BY <3>1, <3>2
  <2>6. k + 1 \in Int /\ k - 1 \in Int /\ k + 1 - 1 = k /\ k - 1 + 1 = k
    BY <2>1
  <2>7. CASE k < n
    <3>1. t[k] = s[k]
      BY <1>2, <2>1, <2>7
    <3>2. K[s[k]].next = IF k = n - 1 THEN after ELSE At(s, k + 1)
      BY <1>4, <2>1, <2>2, <2>3
    <3>3. K[s[k]].prev = At(s, k - 1)
      <4>1. s[k] # after
        BY <1>1, <2>1, <2>4, <2>7
      <4> QED BY <1>4, <2>1, <2>2, <4>1
    <3>4. At(t, k + 1) = IF k = n - 1 THEN after ELSE At(s, k + 1)
      <4>1. CASE k = n - 1
        <5>1. At(t, k + 1) = At(s, n + 1)
          BY <1>1, <2>5, <2>6, <4>1
        <5> QED BY <4>1, <5>1 DEF after
      <4>2. CASE k # n - 1
        <5>1. k + 1 < n /\ k + 1 < Len(s)
          BY <1>1, <2>1, <2>7, <4>2
        <5> QED BY <2>5, <2>6, <4>2, <5>1
      <4> QED BY <4>1, <4>2
    <3>5. At(t, k - 1) = At(s, k - 1)
      <4>1. k - 1 < n /\ k - 1 < Len(s)
        BY <1>1, <2>1, <2>7
      <4> QED BY <2>5, <2>6, <4>1
    <3> QED BY <3>1, <3>2, <3>3, <3>4, <3>5
  <2>8. CASE ~(k < n)
    <3>1. t[k] = s[k + 1]
      BY <1>2, <2>1, <2>8
    <3>2. K[s[k + 1]].next = At(s, k + 1 + 1)
      <4>1. s[k + 1] # before
        BY <1>1, <2>1, <2>3, <2>8
      <4> QED BY <1>4, <2>1, <2>2, <4>1
    <3>3. K[s[k + 1]].prev = IF k = n THEN before ELSE At(s, k)
      <4>1. (s[k + 1] = after) <=> (k = n)
        BY <1>1, <2>1, <2>4
      <4> QED BY <1>4, <2>1, <2>2, <2>6, <4>1
    <3>4. At(t, k + 1) = At(s, k + 1 + 1)
      <4>1. ~(k + 1 < n) /\ ~(k + 1 < 1)
        BY <1>1, <2>1, <2>8
      <4> QED BY <2>5, <2>6, <4>1
    <3>5. At(t, k - 1) = IF k = n THEN before ELSE At(s, k)
      <4>1. CASE k = n
        <5>1. k - 1 < n /\ k - 1 < Len(s)
          BY <1>1, <2>1, <4>1
        <5>2. At(t, k - 1) = At(s, k - 1)
          BY <2>5, <2>6, <5>1
        <5> QED BY <4>1, <5>2 DEF before
      <4>2. CASE k # n
        <5>1. ~(k - 1 < n) /\ ~(k - 1 < 1)
          BY <1>1, <2>1, <2>8, <4>2
        <5>2. At(t, k - 1) = At(s, k - 1 + 1)
          BY <2>5, <2>6, <5>1
        <5> QED BY <2>6, <4>2, <5>2
      <4> QED BY <4>1, <4>2
    <3> QED BY <3>1, <3>2, <3>3, <3>4, <3>5
  <2> QED BY <2>7, <2>8
<1>7. Listed(K, t)
  BY <1>6 DEF Listed
<1>8. \A q \in Slots \ Range(s) : q # before /\ q # after
  <2>1. n > 1 => n - 1 \in 1 .. Len(s)
    BY <1>1
  <2>2. n < Len(s) => n + 1 \in 1 .. Len(s)
    BY <1>1
  <2> QED BY <1>1, <1>5, <2>1, <2>2, NilNoSlot
<1> QED BY <1>4, <1>7, <1>8 DEF K, t

(* The links when p is put before the list whose first slot is top. *)
Headed(L, top, p) ==
    IF top = Nil THEN [L EXCEPT ![p] = Link(top, Nil)]
    ELSE [[L EXCEPT ![p] = Link(top, Nil)] EXCEPT ![top].prev = p]

LEMMA PushListed ==
  ASSUME NEW L \in [Slots -> Links], NEW s \in Lists, Listed(L, s),
         NEW p \in Slots, p \notin Range(s)
  PROVE  /\ Headed(L, At(s, 1), p) \in [Slots -> Links]
         /\ Listed(Headed(L, At(s, 1), p), Pushed(p, s))
         /\ \A q \in Slots \ (Range(s) \cup {p}) :
              /\ Headed(L, At(s, 1), p)[q].next = L[q].next
              /\ Headed(L, At(s, 1), p)[q].prev = L[q].prev
<1> DEFINE e == At(s, 1)
           K == Headed(L, e, p)
           t == Pushed(p, s)
<1>1. /\ Len(s) \in Nat
      /\ \A k \in 1 .. Len(s) : s[k] \in Slots /\ s[k] \in Range(s)
      /\ \A k, j \in 1 .. Len(s) : s[k] = s[j] => k = j
  BY ListFacts
<1>2. /\ t \in Lists /\ Len(t) = Len(s) + 1
      /\ \A k \in 1 .. Len(s) : t[k + 1] = s[k]
      /\ t[1] = p
  BY PushList
<1>3. /\ e \in Slots \cup {Nil} /\ e # p
      /\ e = IF Len(s) > 0 THEN s[1] ELSE Nil
  BY <1>1, NilNoSlot DEF At
<1> HIDE DEF e
<1>4. /\ K \in [Slots -> Links]
      /\ \A q \in Slots : /\ K[q].next = IF q = p THEN e ELSE L[q].next
                          /\ K[q].prev = IF q = p THEN Nil ELSE IF q = e THEN p ELSE L[q].prev
  <2>1. CASE e = Nil
    BY <1>3, <2>1, NilNoSlot DEF Headed, Link, Links
  <2>2. CASE e # Nil
    BY <1>3, <2>2, NilNoSlot DEF Headed, Link, Links
  <2> QED BY <2>1, <2>2
<1> HIDE DEF K, t
<1>5. \A j \in Int : At(t, j + 1) = IF j = 0 THEN p ELSE At(s, j)
  <2> SUFFICES ASSUME NEW j \in Int PROVE At(t, j + 1) = IF j = 0 THEN p ELSE At(s, j)
    OBVIOUS
  <2>1. CASE j \in 1 .. Len(s)
    BY <1>1, <1>2, <2>1 DEF At
  <2>2. CASE j \notin 1 .. Len(s)
    BY <1>1, <1>2, <2>2 DEF At
  <2> QED BY <2>1, <2>2
<1>6. ASSUME NEW k \in 1 .. Len(s)
      PROVE  K[t[k + 1]].next = At(t, k + 1 + 1) /\ K[t[k + 1]].prev = At(t, k + 1 - 1)
  <2>1. /\ t[k + 1] = s[k] /\ s[k] \in Slots /\ s[k] # p
        /\ L[s[k]].next = At(s, k + 1) /\ L[s[k]].prev = At(s, k - 1)
    BY <1>1, <1>2 DEF Listed
  <2>2. k + 1 \in Int /\ k + 1 # 0 /\ k - 1 \in Int /\ k - 1 + 1 = k /\ k + 1 - 1 = k
    BY <1>1
  <2>3. At(t, k + 1 + 1) = At(s, k + 1)
    BY <1>5, <2>2
  <2>4. At(t, k) = IF k - 1 = 0 THEN p ELSE At(s, k - 1)
    BY <1>5, <2>2
  <2>5. (s[k] = e) <=> (k - 1 = 0)
    BY <1>1, <1>3
  <2> QED BY <1>4, <2>1, <2>2, <2>3, <2>4, <2>5
<1>7. K[t[1]].next = At(t, 1 + 1) /\ K[t[1]].prev = At(t, 1 - 1)
  <2>1. At(t, 1 + 1) = At(s, 1)
    BY <1>5
  <2>2. At(t, 1 - 1) = Nil
    BY <1>2 DEF At
  <2> QED BY <1>2, <1>4, <2>1, <2>2 DEF e
<1>8. Listed(K, t)
  <2> SUFFICES ASSUME NEW k \in 1 .. Len(t)
               PROVE  K[t[k]].next = At(t, k + 1) /\ K[t[k]].prev = At(t, k - 1)
    BY DEF Listed
  <2>1. CASE k = 1
    BY <1>7, <2>1
  <2>2. CASE k # 1
    <3>1. k - 1 \in 1 .. Len(s) /\ k - 1 + 1 = k
      BY <1>1, <1>2, <2>2
    <3> QED BY <1>6, <3>1
  <2> QED BY <2>1, <2>2
<1>9. \A q \in Slots \ (Range(s) \cup {p}) : q # p /\ q # e
  <2>1. Len(s) > 0 => 1 \in 1 .. Len(s)
    BY <1>1
  <2> QED BY <1>1, <1>3, <2>1, NilNoSlot
<1> QED BY <1>4, <1>8, <1>9 DEF K, t, e
-----------------------------------------------------------------------------
(* The object and its lists. *)
Typed(c) ==
    c \in [pidx : [Slots -> Slots \cup {Nil}],
          sign : [Slots -> Signs \cup {NoSign}],
          value : [Slots -> Values \cup {NoValue}],
          hashlink : [Slots -> Links],
          link : [Slots -> Links],
          free_list : Links,
          busy_list : Links,
          free_list_size : Int]

Ends(s) == Link(At(s, 1), At(s, Len(s)))

(* free and busy are what the links and the heads of c say. *)
LinkPart(c, free, busy) ==
    /\ free \in Lists /\ busy \in Lists /\ Range(free) \cap Range(busy) = {}
    /\ Listed(c.link, free) /\ Listed(c.link, busy)
    /\ c.free_list = Ends(free) /\ c.busy_list = Ends(busy)
    /\ c.free_list_size = Len(free)

(* The fields that the operations on the lists leave alone. *)
SameHash(c, d) == /\ d.pidx = c.pidx /\ d.hashlink = c.hashlink
                  /\ d.sign = c.sign /\ d.value = c.value

LEMMA EndsFacts ==
  ASSUME NEW s \in Lists
  PROVE  /\ Ends(s) \in Links
         /\ Ends(s).next = At(s, 1) /\ Ends(s).prev = At(s, Len(s))
         /\ At(s, Len(s)) = Nil <=> Len(s) = 0
         /\ At(s, 1) = Nil <=> Len(s) = 0
<1>1. Len(s) \in Nat
  BY ListFacts
<1>2. At(s, 1) \in Slots \cup {Nil} /\ At(s, Len(s)) \in Slots \cup {Nil}
  BY <1>1, AtFacts
<1>3. (At(s, Len(s)) = Nil <=> Len(s) = 0) /\ (At(s, 1) = Nil <=> Len(s) = 0)
  <2>1. CASE Len(s) = 0
    BY <2>1 DEF At
  <2>2. CASE Len(s) # 0
    <3>1. 1 \in 1 .. Len(s) /\ Len(s) \in 1 .. Len(s)
      BY <1>1, <2>2
    <3> QED BY <2>2, <3>1, AtFacts
  <2> QED BY <2>1, <2>2
<1> QED BY <1>2, <1>3 DEF Ends, Link, Links

LEMMA TypedFree ==
  ASSUME NEW c, Typed(c), NEW f \in Links, NEW l \in [Slots -> Links], NEW n \in Int
  PROVE  Typed([c EXCEPT !.free_list = f, !.link = l, !.free_list_size = n])
  BY DEF Typed

LEMMA TypedBusy ==
  ASSUME NEW c, Typed(c), NEW b \in Links, NEW l \in [Slots -> Links]
  PROVE  Typed([c EXCEPT !.busy_list = b, !.link = l])
  BY DEF Typed

(* A list with p put last, and what becomes of its ends and of other lists. *)
LEMMA PutLast ==
  ASSUME NEW L \in [Slots -> Links], NEW s \in Lists, Listed(L, s),
         NEW p \in Slots, p \notin Range(s)
  PROVE  LET k == Ends(s).prev
             K == Appended(L, k, p)
         IN  /\ K \in [Slots -> Links]
             /\ Append(s, p) \in Lists
             /\ Len(Append(s, p)) = Len(s) + 1
             /\ Range(Append(s, p)) = Range(s) \cup {p}
             /\ Listed(K, Append(s, p))
             /\ Ends(Append(s, p)) = Link(IF k = Nil THEN p ELSE Ends(s).next, p)
             /\ \A u \in Lists : /\ Listed(L, u) /\ Range(u) \cap Range(s) = {}
                                 /\ p \notin Range(u)
                                 => Listed(K, u)
<1> DEFINE k == Ends(s).prev
           K == Appended(L, k, p)
           t == Append(s, p)
<1>1. k = At(s, Len(s)) /\ (k = Nil <=> Len(s) = 0) /\ Len(s) \in Nat
      /\ Ends(s).next = At(s, 1)
  BY EndsFacts, ListFacts
<1>2. /\ t \in Lists /\ Len(t) = Len(s) + 1 /\ Range(t) = Range(s) \cup {p}
      /\ \A j \in 1 .. Len(s) : t[j] = s[j]
      /\ t[Len(s) + 1] = p
  BY AppendList
<1>3. /\ K \in [Slots -> Links]
      /\ Listed(K, t)
      /\ \A q \in Slots \ (Range(s) \cup {p}) : K[q].next = L[q].next /\ K[q].prev = L[q].prev
  BY <1>1, AppendListed
<1>4. ASSUME NEW u \in Lists, Listed(L, u), Range(u) \cap Range(s) = {}, p \notin Range(u)
      PROVE  Listed(K, u)
  <2>1. \A q \in Range(u) : q \in Slots \ (Range(s) \cup {p})
    BY <1>4, ListFacts
  <2> QED BY <1>3, <1>4, <2>1, StillListed
<1>5. Ends(t) = Link(IF k = Nil THEN p ELSE Ends(s).next, p)
  <2>1. At(t, Len(t)) = p
    BY <1>1, <1>2 DEF At
  <2>2. At(t, 1) = IF k = Nil THEN p ELSE At(s, 1)
    <3>1. CASE Len(s) = 0
      BY <1>1, <1>2, <3>1 DEF At
    <3>2. CASE Len(s) # 0
      <4>1. 1 \in 1 .. Len(s) /\ 1 \in 1 .. Len(t)
        BY <1>1, <1>2, <3>2
      <4> QED BY <1>1, <1>2, <3>2, <4>1 DEF At
    <3> QED BY <3>1, <3>2
  <2> QED BY <1>1, <2>1, <2>2 DEF Ends
<1> HIDE DEF k, K, t
<1>6. /\ K \in [Slots -> Links] /\ t \in Lists /\ Len(t) = Len(s) + 1
      /\ Range(t) = Range(s) \cup {p} /\ Listed(K, t)
      /\ Ends(t) = Link(IF k = Nil THEN p ELSE Ends(s).next, p)
  BY <1>2, <1>3, <1>5
<1> QED BY <1>4, <1>6, Zenon DEF k, K, t

(* A list with its n-th element taken out. *)
LEMMA TakeOut ==
  ASSUME NEW L \in [Slots -> Links], NEW s \in Lists, Listed(L, s), NEW n \in 1 .. Len(s)
  PROVE  LET l == L[s[n]]
             K == Unlinked(L, s[n])
         IN  /\ K \in [Slots -> Links]
             /\ Without(s, n) \in Lists
             /\ Len(Without(s, n)) = Len(s) - 1
             /\ Range(Without(s, n)) = Range(s) \ {s[n]}
             /\ Listed(K, Without(s, n))
             /\ Ends(Without(s, n)) = Link(IF l.prev = Nil THEN l.next ELSE Ends(s).next,
                                           IF l.next = Nil THEN l.prev ELSE Ends(s).prev)
             /\ \A u \in Lists : Listed(L, u) /\ Range(u) \cap Range(s) = {} => Listed(K, u)
<1> DEFINE l == L[s[n]]
           K == Unlinked(L, s[n])
           t == Without(s, n)
<1>0. Len(s) \in Nat /\ Len(s) >= 1 /\ n \in Int
  BY ListFacts
<1>1. /\ Len(s) \in Nat /\ n \in Int
      /\ Ends(s).next = At(s, 1) /\ Ends(s).prev = At(s, Len(s))
      /\ l.next = At(s, n + 1) /\ l.prev = At(s, n - 1)
      /\ \A k \in 1 .. Len(s) : At(s, k) = s[k] /\ At(s, k) # Nil
      /\ \A k \in Int : k \notin 1 .. Len(s) => At(s, k) = Nil
  BY AtFacts, EndsFacts, ListFacts DEF Listed
<1>2. /\ t \in Lists /\ Len(t) = Len(s) - 1 /\ Range(t) = Range(s) \ {s[n]}
      /\ \A k \in 1 .. Len(s) - 1 : t[k] = IF k < n THEN s[k] ELSE s[k + 1]
  BY WithoutList
<1>3. /\ K \in [Slots -> Links]
      /\ Listed(K, t)
      /\ \A q \in Slots \ Range(s) : K[q].next = L[q].next /\ K[q].prev = L[q].prev
  BY UnlinkListed
<1>4. ASSUME NEW u \in Lists, Listed(L, u), Range(u) \cap Range(s) = {}
      PROVE  Listed(K, u)
  <2>1. \A q \in Range(u) : q \in Slots \ Range(s)
    BY <1>4, ListFacts
  <2> QED BY <1>3, <1>4, <2>1, StillListed
<1> HIDE DEF l, K, t
<1>5. At(t, 1) = IF l.prev = Nil THEN l.next ELSE At(s, 1)
  <2>1. CASE Len(s) = 1
    <3>1. n = 1 /\ l.prev = Nil /\ l.next = Nil
      BY <1>1, <2>1
    <3> QED BY <1>2, <2>1, <3>1 DEF At
  <2>2. CASE Len(s) # 1
    <3>1. 1 \in 1 .. Len(s) - 1 /\ 1 \in 1 .. Len(s) /\ 1 + 1 \in 1 .. Len(s)
      BY <1>0, <2>2
    <3>2. At(t, 1) = IF 1 < n THEN s[1] ELSE s[1 + 1]
      BY <1>2, <3>1 DEF At
    <3>3. CASE n = 1
      BY <1>1, <3>1, <3>2, <3>3
    <3>4. CASE n # 1
      <4>1. n - 1 \in 1 .. Len(s) /\ 1 < n
        BY <1>1, <3>4
      <4> QED BY <1>1, <3>1, <3>2, <4>1
    <3> QED BY <3>3, <3>4
  <2> QED BY <2>1, <2>2
<1>6. At(t, Len(t)) = IF l.next = Nil THEN l.prev ELSE At(s, Len(s))
  <2>1. CASE Len(s) = 1
    <3>1. n = 1 /\ l.prev = Nil /\ l.next = Nil
      BY <1>1, <2>1
    <3> QED BY <1>2, <2>1, <3>1 DEF At
  <2>2. CASE Len(s) # 1
    <3>0. Len(s) \in Int /\ Len(s) >= 2
      BY <1>0, <2>2
    <3>1. /\ Len(s) - 1 \in 1 .. Len(s) - 1 /\ Len(s) \in 1 .. Len(s)
          /\ Len(s) - 1 + 1 = Len(s) /\ Len(s) - 1 \in 1 .. Len(s)
      BY <3>0
    <3>2. At(t, Len(t)) = IF Len(s) - 1 < n THEN s[Len(s) - 1] ELSE s[Len(s)]
      BY <1>2, <3>1 DEF At
    <3>3. CASE n = Len(s)
      <4>1. n + 1 \notin 1 .. Len(s) /\ n + 1 \in Int /\ n - 1 = Len(s) - 1 /\ Len(s) - 1 < n
        BY <1>1, <3>3
      <4> QED BY <1>1, <3>1, <3>2, <4>1
    <3>4. CASE n # Len(s)
      <4>1. n + 1 \in 1 .. Len(s) /\ ~(Len(s) - 1 < n)
        BY <1>1, <3>4
      <4> QED BY <1>1, <3>1, <3>2, <4>1
    <3> QED BY <3>3, <3>4
  <2> QED BY <2>1, <2>2
<1>7. Ends(t) = Link(IF l.prev = Nil THEN l.next ELSE Ends(s).next,
                     IF l.next = Nil THEN l.prev ELSE Ends(s).prev)
  BY <1>1, <1>5, <1>6 DEF Ends
<1>8. /\ K \in [Slots -> Links] /\ t \in Lists /\ Len(t) = Len(s) - 1
      /\ Range(t) = Range(s) \ {s[n]} /\ Listed(K, t)
  BY <1>2, <1>3
<1> QED BY <1>4, <1>7, <1>8, Zenon DEF l, K, t

(* The two insertions at the end of a list and the two deletions. *)
LEMMA PutFree ==
  ASSUME NEW c, Typed(c), NEW free, NEW busy, LinkPart(c, free, busy),
         NEW p \in Slots, p \notin Range(free), p \notin Range(busy)
  PROVE  LET d == insert_into_free_list(c, p)
         IN  Typed(d) /\ LinkPart(d, Append(free, p), busy) /\ SameHash(c, d)
<1> DEFINE d == insert_into_free_list(c, p)
           k == c.free_list.prev
           f == Link(IF k = Nil THEN p ELSE c.free_list.next, p)
           K == Appended(c.link, k, p)
           t == Append(free, p)
<1>0. /\ free \in Lists /\ busy \in Lists /\ c.link \in [Slots -> Links]
      /\ c.free_list = Ends(free) /\ c.free_list_size = Len(free) /\ Len(free) \in Nat
      /\ Range(free) \cap Range(busy) = {} /\ Listed(c.link, free) /\ Listed(c.link, busy)
  BY ListFacts DEF LinkPart, Typed
<1>1. /\ K \in [Slots -> Links] /\ t \in Lists /\ Len(t) = Len(free) + 1
      /\ Range(t) = Range(free) \cup {p}
      /\ Listed(K, t) /\ Listed(K, busy) /\ f = Ends(t)
  BY <1>0, PutLast
<1>2. /\ d.free_list = f /\ d.link = K /\ d.free_list_size = c.free_list_size + 1
      /\ d.busy_list = c.busy_list /\ SameHash(c, d)
  BY DEF insert_into_free_list, Typed, SameHash
<1>3. Typed(d)
  <2>1. f \in Links /\ c.free_list_size + 1 \in Int
    BY <1>0, <1>1, EndsFacts
  <2> QED BY <1>1, <2>1, Zenon, TypedFree DEF insert_into_free_list
<1> HIDE DEF d, k, f, K, t
<1>4. LinkPart(d, t, busy)
  <2>1. Range(t) \cap Range(busy) = {}
    BY <1>0, <1>1
  <2> QED BY <1>0, <1>1, <1>2, <2>1 DEF LinkPart
<1> QED BY <1>2, <1>3, <1>4 DEF d, t

LEMMA PutBusy ==
  ASSUME NEW c, Typed(c), NEW free, NEW busy, LinkPart(c, free, busy),
         NEW p \in Slots, p \notin Range(free), p \notin Range(busy)
  PROVE  LET d == insert_into_busy_list(c, p)
         IN  Typed(d) /\ LinkPart(d, free, Append(busy, p)) /\ SameHash(c, d)
<1> DEFINE d == insert_into_busy_list(c, p)
           k == c.busy_list.prev
           f == Link(IF k = Nil THEN p ELSE c.busy_list.next, p)
           K == Appended(c.link, k, p)
           t == Append(busy, p)
<1>0. /\ free \in Lists /\ busy \in Lists /\ c.link \in [Slots -> Links]
      /\ c.busy_list = Ends(busy)
      /\ Range(free) \cap Range(busy) = {} /\ Listed(c.link, free) /\ Listed(c.link, busy)
  BY ListFacts DEF LinkPart, Typed
<1>1. /\ K \in [Slots -> Links] /\ t \in Lists /\ Range(t) = Range(busy) \cup {p}
      /\ Listed(K, t) /\ Listed(K, free) /\ f = Ends(t)
  BY <1>0, PutLast
<1>2. /\ d.busy_list = f /\ d.link = K /\ d.free_list_size = c.free_list_size
      /\ d.free_list = c.free_list /\ SameHash(c, d)
  BY DEF insert_into_busy_list, Typed, SameHash
<1>3. Typed(d)
  <2>1. f \in Links
    BY <1>1, EndsFacts
  <2> QED BY <1>1, <2>1, Zenon, TypedBusy DEF insert_into_busy_list
<1> HIDE DEF d, k, f, K, t
<1>4. LinkPart(d, free, t)
  <2>1. Range(free) \cap Range(t) = {}
    BY <1>0, <1>1
  <2> QED BY <1>0, <1>1, <1>2, <2>1 DEF LinkPart
<1> QED BY <1>2, <1>3, <1>4 DEF d, t

LEMMA DelBusy ==
  ASSUME NEW c, Typed(c), NEW free, NEW busy, LinkPart(c, free, busy),
         NEW n \in 1 .. Len(busy)
  PROVE  LET d == del_from_busy_list(c, busy[n])
         IN  Typed(d) /\ LinkPart(d, free, Without(busy, n)) /\ SameHash(c, d)
<1> DEFINE d == del_from_busy_list(c, busy[n])
           l == c.link[busy[n]]
           f == Link(IF l.prev = Nil THEN l.next ELSE c.busy_list.next,
                     IF l.next = Nil THEN l.prev ELSE c.busy_list.prev)
           K == Unlinked(c.link, busy[n])
           t == Without(busy, n)
<1>0. /\ free \in Lists /\ busy \in Lists /\ c.link \in [Slots -> Links]
      /\ c.busy_list = Ends(busy)
      /\ Range(free) \cap Range(busy) = {} /\ Listed(c.link, free) /\ Listed(c.link, busy)
  BY ListFacts DEF LinkPart, Typed
<1>1. /\ K \in [Slots -> Links] /\ t \in Lists /\ Range(t) = Range(busy) \ {busy[n]}
      /\ Listed(K, t) /\ Listed(K, free) /\ f = Ends(t)
  BY <1>0, TakeOut, Zenon
<1>2. /\ d.busy_list = f /\ d.link = K /\ d.free_list_size = c.free_list_size
      /\ d.free_list = c.free_list /\ SameHash(c, d)
  BY DEF del_from_busy_list, Typed, SameHash
<1>3. Typed(d)
  <2>1. f \in Links
    BY <1>1, EndsFacts
  <2> QED BY <1>1, <2>1, Zenon, TypedBusy DEF del_from_busy_list
<1> HIDE DEF d, l, f, K, t
<1>4. LinkPart(d, free, t)
  <2>1. Range(free) \cap Range(t) = {}
    BY <1>0, <1>1
  <2> QED BY <1>0, <1>1, <1>2, <2>1 DEF LinkPart
<1> QED BY <1>2, <1>3, <1>4 DEF d, t

LEMMA TakeFree ==
  ASSUME NEW c, Typed(c), NEW free, NEW busy, LinkPart(c, free, busy), Len(free) > 0
  PROVE  LET d == get_from_free_list(c)
         IN  Typed(d) /\ LinkPart(d, Without(free, 1), busy) /\ SameHash(c, d)
<1> DEFINE d == get_from_free_list(c)
           l == c.link[free[1]]
           nxt == c.link[c.free_list.next].next
           f == Link(nxt, IF nxt = Nil THEN Nil ELSE c.free_list.prev)
           K == IF nxt = Nil THEN c.link ELSE [c.link EXCEPT ![nxt].prev = Nil]
           t == Without(free, 1)
<1>0. /\ free \in Lists /\ busy \in Lists /\ c.link \in [Slots -> Links]
      /\ c.free_list = Ends(free) /\ c.free_list_size = Len(free) /\ Len(free) \in Nat
      /\ Range(free) \cap Range(busy) = {} /\ Listed(c.link, free) /\ Listed(c.link, busy)
      /\ 1 \in 1 .. Len(free)
  BY ListFacts DEF LinkPart, Typed
<1>1. c.free_list.next = free[1] /\ l.prev = Nil /\ nxt = l.next
  <2>1. c.free_list.next = free[1]
    BY <1>0, EndsFacts, AtFacts
  <2>2. l.prev = At(free, 1 - 1)
    BY <1>0 DEF Listed
  <2>3. At(free, 1 - 1) = Nil
    BY DEF At
  <2> QED BY <2>1, <2>2, <2>3
<1>2. K = Unlinked(c.link, free[1])
  BY <1>1 DEF Unlinked
<1>3. f = Link(IF l.prev = Nil THEN l.next ELSE c.free_list.next,
               IF l.next = Nil THEN l.prev ELSE c.free_list.prev)
  BY <1>1
<1>4. /\ K \in [Slots -> Links] /\ t \in Lists /\ Len(t) = Len(free) - 1
      /\ Range(t) = Range(free) \ {free[1]}
      /\ Listed(K, t) /\ Listed(K, busy) /\ f = Ends(t)
  <2> HIDE DEF K, f
  <2> QED BY <1>0, <1>2, <1>3, TakeOut
<1>5. /\ d.free_list = f /\ d.link = K /\ d.free_list_size = c.free_list_size - 1
      /\ d.busy_list = c.busy_list /\ SameHash(c, d)
  BY DEF get_from_free_list, Typed, SameHash
<1>6. Typed(d)
  <2>1. f \in Links
    <3> HIDE DEF f
    <3> QED BY <1>4, EndsFacts
  <2>2. c.free_list_size - 1 \in Int
    BY <1>0
  <2> QED BY <1>4, <2>1, <2>2, Zenon, TypedFree DEF get_from_free_list
<1> HIDE DEF d, l, nxt, f, K, t
<1>7. LinkPart(d, t, busy)
  <2>1. Range(t) \cap Range(busy) = {}
    BY <1>0, <1>4
  <2> QED BY <1>0, <1>4, <1>5, <2>1 DEF LinkPart
<1> QED BY <1>5, <1>6, <1>7 DEF d, t
-----------------------------------------------------------------------------
(* chain[b] is what the hash links and pidx[b] say of bucket b. *)
ChainPart(c, chain) ==
    /\ chain \in [Slots -> Lists]
    /\ \A b \in Slots : Listed(c.hashlink, chain[b]) /\ c.pidx[b] = At(chain[b], 1)

(* The busy slots are those of the chains, each on the chain of its bucket. *)
Member(c, busy, chain) ==
    /\ \A p \in Range(busy) : c.sign[p] \in Signs
    /\ \A b \in Slots : Range(chain[b]) = {p \in Range(busy) : index(c.sign[p]) = b}

Layout(c, free, busy, chain) ==
    Typed(c) /\ LinkPart(c, free, busy) /\ ChainPart(c, chain) /\ Member(c, busy, chain)

SameLists(c, d) == /\ d.link = c.link /\ d.free_list = c.free_list
                   /\ d.busy_list = c.busy_list /\ d.free_list_size = c.free_list_size

LEMMA IndexSlot ==
  ASSUME NEW sign \in Signs
  PROVE  index(sign) \in Slots
<1>1. sign \in Nat \X Nat
  BY SignsAssumption
<1>2. sign[1] + sign[2] \in Nat
  BY <1>1
<1>3. \A a \in Nat, n \in Nat \ {0} : a % n \in 0 .. n - 1
  OBVIOUS
<1> QED BY <1>2, <1>3, CacheSizeAssumption DEF index, Slots

LEMMA ChainsApart ==
  ASSUME NEW c, NEW busy, NEW chain, Member(c, busy, chain),
         NEW a \in Slots, NEW b \in Slots, a # b
  PROVE  Range(chain[a]) \cap Range(chain[b]) = {}
  BY DEF Member

LEMMA TypedHash ==
  ASSUME NEW c, Typed(c), NEW x \in [Slots -> Slots \cup {Nil}], NEW l \in [Slots -> Links]
  PROVE  Typed([c EXCEPT !.pidx = x, !.hashlink = l])
  BY DEF Typed

LEMMA Unchain ==
  ASSUME NEW c, Typed(c), NEW chain, ChainPart(c, chain),
         NEW b \in Slots, NEW k \in 1 .. Len(chain[b]),
         \A a \in Slots : a # b => Range(chain[a]) \cap Range(chain[b]) = {}
  PROVE  LET d == Unchained(c, b, chain[b][k])
         IN  /\ Typed(d) /\ ChainPart(d, [chain EXCEPT ![b] = Without(chain[b], k)])
             /\ SameLists(c, d) /\ d.sign = c.sign /\ d.value = c.value
<1> DEFINE s == chain[b]
           d == Unchained(c, b, s[k])
           h == c.hashlink[s[k]]
           x == IF h.prev = Nil THEN [c.pidx EXCEPT ![b] = h.next] ELSE c.pidx
           K == Unlinked(c.hashlink, s[k])
           t == Without(s, k)
           other == [chain EXCEPT ![b] = t]
<1>0. /\ s \in Lists /\ c.hashlink \in [Slots -> Links] /\ Listed(c.hashlink, s)
      /\ c.pidx \in [Slots -> Slots \cup {Nil}] /\ c.pidx[b] = At(s, 1)
      /\ s[k] \in Slots /\ h \in Links /\ k \in 1 .. Len(s)
  <2>1. /\ s \in Lists /\ c.hashlink \in [Slots -> Links] /\ Listed(c.hashlink, s)
        /\ c.pidx \in [Slots -> Slots \cup {Nil}] /\ c.pidx[b] = At(s, 1)
    BY DEF ChainPart, Typed
  <2>2. s[k] \in Slots
    BY <2>1, ListFacts
  <2> QED BY <2>1, <2>2
<1>1. /\ K \in [Slots -> Links] /\ t \in Lists /\ Listed(K, t)
      /\ Ends(t) = Link(IF h.prev = Nil THEN h.next ELSE Ends(s).next,
                        IF h.next = Nil THEN h.prev ELSE Ends(s).prev)
      /\ \A u \in Lists : Listed(c.hashlink, u) /\ Range(u) \cap Range(s) = {} => Listed(K, u)
  <2> HIDE DEF s
  <2> QED BY <1>0, TakeOut
<1>2. d.pidx = x /\ d.hashlink = K /\ SameLists(c, d) /\ d.sign = c.sign /\ d.value = c.value
  BY DEF Unchained, Typed, SameLists
<1>3. x \in [Slots -> Slots \cup {Nil}]
  BY <1>0 DEF Links
<1>4. Typed(d)
  BY <1>1, <1>3, Zenon, TypedHash DEF Unchained
<1>5. x[b] = At(t, 1) /\ \A a \in Slots : a # b => x[a] = c.pidx[a]
  <2>1. At(t, 1) = IF h.prev = Nil THEN h.next ELSE At(s, 1)
    <3> HIDE DEF s, t, h
    <3>1. Ends(t).next = At(t, 1) /\ Ends(s).next = At(s, 1)
      BY <1>0, <1>1, EndsFacts
    <3> QED BY <1>1, <3>1 DEF Link
  <2> QED BY <1>0, <2>1
<1>6. ChainPart(d, other)
  <2>0. chain \in [Slots -> Lists]
    BY DEF ChainPart
  <2>1. other \in [Slots -> Lists] /\ other[b] = t /\ \A a \in Slots : a # b => other[a] = chain[a]
    <3> HIDE DEF t
    <3> QED BY <1>1, <2>0
  <2>2. ASSUME NEW a \in Slots
        PROVE  Listed(d.hashlink, other[a]) /\ d.pidx[a] = At(other[a], 1)
    <3> HIDE DEF d, x, K, t, h, other
    <3>1. CASE a = b
      BY <1>1, <1>2, <1>5, <2>1, <3>1
    <3>2. CASE a # b
      <4>1. Listed(c.hashlink, chain[a]) /\ c.pidx[a] = At(chain[a], 1) /\ chain[a] \in Lists
        BY DEF ChainPart
      <4>2. Range(chain[a]) \cap Range(s) = {}
        BY <3>2
      <4>3. Listed(K, chain[a])
        BY <1>1, <4>1, <4>2
      <4> QED BY <1>2, <1>5, <2>1, <3>2, <4>1, <4>3
    <3> QED BY <3>1, <3>2
  <2> HIDE DEF d, other
  <2> QED BY <2>1, <2>2 DEF ChainPart
<1> QED BY <1>2, <1>4, <1>6, Zenon DEF d, other

(* A slot that leaves the busy list leaves its chain. *)
LEMMA MemberLeft ==
  ASSUME NEW c, NEW busy \in Lists, NEW chain \in [Slots -> Lists], Member(c, busy, chain),
         NEW n \in 1 .. Len(busy)
  PROVE  LET b == index(c.sign[busy[n]])
         IN  /\ b \in Slots
             /\ \E k \in 1 .. Len(chain[b]) :
                  /\ chain[b][k] = busy[n]
                  /\ Member(c, Without(busy, n), [chain EXCEPT ![b] = Without(chain[b], k)])
<1> DEFINE p == busy[n]
           b == index(c.sign[p])
<1>1. p \in Range(busy) /\ p \in Slots
  BY ListFacts
<1>2. b \in Slots
  BY <1>1, IndexSlot DEF Member
<1>3. p \in Range(chain[b])
  BY <1>1, <1>2 DEF Member
<1>4. PICK k \in 1 .. Len(chain[b]) : chain[b][k] = p
  <2> HIDE DEF b, p
  <2>1. chain[b] \in Lists
    BY <1>2
  <2>2. Range(chain[b]) = {chain[b][k] : k \in 1 .. Len(chain[b])}
    BY <2>1, ListFacts
  <2> QED BY <1>3, <2>2
<1> DEFINE other == [chain EXCEPT ![b] = Without(chain[b], k)]
<1>5. Range(Without(busy, n)) = Range(busy) \ {p}
  BY WithoutList
<1>6. Range(Without(chain[b], k)) = Range(chain[b]) \ {p}
  <2> HIDE DEF b, p
  <2>1. chain[b] \in Lists
    BY <1>2
  <2> QED BY <1>4, <2>1, WithoutList
<1>7. Member(c, Without(busy, n), other)
  <2>1. ASSUME NEW a \in Slots
        PROVE  Range(other[a]) = {q \in Range(Without(busy, n)) : index(c.sign[q]) = a}
    <3>1. Range(chain[a]) = {q \in Range(busy) : index(c.sign[q]) = a}
      BY DEF Member
    <3>2. CASE a = b
      <4>1. other[a] = Without(chain[b], k)
        BY <3>2
      <4> HIDE DEF other, b
      <4> QED BY <1>5, <1>6, <3>1, <3>2, <4>1
    <3>3. CASE a # b
      <4>1. other[a] = chain[a]
        BY <3>3
      <4> HIDE DEF other
      <4> QED BY <1>5, <3>1, <3>3, <4>1
    <3> QED BY <3>2, <3>3
  <2> HIDE DEF other
  <2> QED BY <1>5, <2>1 DEF Member
<1> QED BY <1>2, <1>4, <1>7

LEMMA SamePart ==
  ASSUME NEW c, NEW d, NEW free, NEW busy, NEW chain
  PROVE  /\ LinkPart(c, free, busy) /\ SameLists(c, d) => LinkPart(d, free, busy)
         /\ ChainPart(c, chain) /\ SameHash(c, d) => ChainPart(d, chain)
         /\ Member(c, busy, chain) /\ d.sign = c.sign => Member(d, busy, chain)
  BY DEF LinkPart, SameLists, ChainPart, SameHash, Member

(* A slot moved from the busy list to the free list: the order in which    *)
(* remove does it, and the order in which reclaim does it.                 *)
Released(c, b, p) == Unchained(insert_into_free_list(del_from_busy_list(c, p), p), b, p)

Reclaimed(c, b, p) == insert_into_free_list(Unchained(del_from_busy_list(c, p), b, p), p)

LEMMA Releases ==
  ASSUME NEW c, NEW free, NEW busy, NEW chain, Layout(c, free, busy, chain),
         NEW n \in 1 .. Len(busy), NEW d,
         \/ d = Released(c, index(c.sign[busy[n]]), busy[n])
         \/ d = Reclaimed(c, index(c.sign[busy[n]]), busy[n])
  PROVE  /\ d.sign = c.sign /\ d.value = c.value
         /\ \E links : Layout(d, Append(free, busy[n]), Without(busy, n), links)
<1> DEFINE p == busy[n]
           b == index(c.sign[p])
           t == Without(busy, n)
<1>0. /\ Typed(c) /\ LinkPart(c, free, busy) /\ ChainPart(c, chain) /\ Member(c, busy, chain)
      /\ free \in Lists /\ busy \in Lists /\ chain \in [Slots -> Lists]
      /\ Range(free) \cap Range(busy) = {}
  BY DEF Layout, LinkPart, ChainPart
<1>1. PICK k \in 1 .. Len(chain[b]) :
         chain[b][k] = p /\ Member(c, t, [chain EXCEPT ![b] = Without(chain[b], k)])
  BY <1>0, MemberLeft
<1>2. b \in Slots /\ p \in Slots /\ p \in Range(busy)
  <2>1. b \in Slots
    BY <1>0, MemberLeft
  <2>2. p \in Slots /\ p \in Range(busy)
    <3>1. Range(busy) = {busy[i] : i \in 1 .. Len(busy)} /\ Range(busy) \subseteq Slots
      BY <1>0, ListFacts
    <3> QED BY <3>1
  <2> QED BY <2>1, <2>2
<1>3. p \notin Range(free) /\ p \notin Range(t)
  BY <1>0, <1>2, WithoutList
<1>4. \A a \in Slots : a # b => Range(chain[a]) \cap Range(chain[b]) = {}
  BY <1>0, <1>2, ChainsApart
<1> DEFINE links == [chain EXCEPT ![b] = Without(chain[b], k)]
           e == del_from_busy_list(c, p)
<1>5. Typed(e) /\ LinkPart(e, free, t) /\ SameHash(c, e)
  BY <1>0, DelBusy
<1>6. ChainPart(e, chain)
  BY <1>0, <1>5, SamePart
<1> HIDE DEF e, t, links, b, p
<1>7. CASE d = Released(c, b, p)
  <2> DEFINE f == insert_into_free_list(e, p)
             g == Unchained(f, b, p)
  <2>1. Typed(f) /\ LinkPart(f, Append(free, p), t) /\ SameHash(e, f)
    BY <1>2, <1>3, <1>5, PutFree
  <2>2. ChainPart(f, chain)
    BY <1>6, <2>1, SamePart
  <2> HIDE DEF f
  <2>3. /\ Typed(g) /\ ChainPart(g, links) /\ SameLists(f, g)
        /\ g.sign = f.sign /\ g.value = f.value
    BY <1>1, <1>2, <1>4, <2>1, <2>2, Unchain DEF links
  <2>4. g = d
    BY <1>7 DEF Released, e, f
  <2> HIDE DEF g
  <2>5. LinkPart(g, Append(free, p), t)
    BY <2>1, <2>3, SamePart
  <2>6. g.sign = c.sign /\ g.value = c.value
    BY <1>5, <2>1, <2>3 DEF SameHash
  <2>7. Member(g, t, links)
    BY <1>1, <2>6, SamePart DEF links
  <2>8. Layout(g, Append(free, p), t, links)
    BY <2>3, <2>5, <2>7 DEF Layout
  <2> QED BY <2>4, <2>6, <2>8 DEF p, t
<1>8. CASE d = Reclaimed(c, b, p)
  <2> DEFINE f == Unchained(e, b, p)
             g == insert_into_free_list(f, p)
  <2>1. /\ Typed(f) /\ ChainPart(f, links) /\ SameLists(e, f)
        /\ f.sign = e.sign /\ f.value = e.value
    BY <1>1, <1>2, <1>4, <1>5, <1>6, Unchain DEF links
  <2>2. LinkPart(f, free, t)
    BY <1>5, <2>1, SamePart
  <2> HIDE DEF f
  <2>3. Typed(g) /\ LinkPart(g, Append(free, p), t) /\ SameHash(f, g)
    BY <1>2, <1>3, <2>1, <2>2, PutFree
  <2>4. g = d
    BY <1>8 DEF Reclaimed, e, f
  <2> HIDE DEF g
  <2>5. ChainPart(g, links)
    BY <2>1, <2>3, SamePart
  <2>6. g.sign = c.sign /\ g.value = c.value
    BY <1>5, <2>1, <2>3 DEF SameHash
  <2>7. Member(g, t, links)
    BY <1>1, <2>6, SamePart DEF links
  <2>8. Layout(g, Append(free, p), t, links)
    BY <2>3, <2>5, <2>7 DEF Layout
  <2> QED BY <2>4, <2>6, <2>8 DEF p, t
<1> QED BY <1>7, <1>8 DEF b, p

(* A slot that is looked up moves to the end of the busy list. *)
LEMMA Refreshed ==
  ASSUME NEW c, NEW free, NEW busy, NEW chain, Layout(c, free, busy, chain),
         NEW n \in 1 .. Len(busy)
  PROVE  LET d == insert_into_busy_list(del_from_busy_list(c, busy[n]), busy[n])
         IN  /\ Layout(d, free, Append(Without(busy, n), busy[n]), chain)
             /\ d.sign = c.sign /\ d.value = c.value
<1> DEFINE p == busy[n]
           t == Without(busy, n)
           e == del_from_busy_list(c, p)
           d == insert_into_busy_list(e, p)
<1>0. /\ Typed(c) /\ LinkPart(c, free, busy) /\ ChainPart(c, chain) /\ Member(c, busy, chain)
      /\ free \in Lists /\ busy \in Lists
      /\ Range(free) \cap Range(busy) = {}
  BY DEF Layout, LinkPart, ChainPart
<1>1. /\ p \in Slots /\ p \in Range(busy) /\ p \notin Range(free)
      /\ t \in Lists /\ Range(t) = Range(busy) \ {p}
  BY <1>0, WithoutList, ListFacts
<1>2. Typed(e) /\ LinkPart(e, free, t) /\ SameHash(c, e)
  BY <1>0, DelBusy
<1> HIDE DEF e, t, p
<1>3. Typed(d) /\ LinkPart(d, free, Append(t, p)) /\ SameHash(e, d)
  BY <1>1, <1>2, PutBusy
<1> HIDE DEF d
<1>4. SameHash(c, d)
  BY <1>2, <1>3 DEF SameHash
<1>5. ChainPart(d, chain)
  BY <1>0, <1>4, SamePart
<1>6. Range(Append(t, p)) = Range(busy)
  <2>1. p \notin Range(t)
    BY <1>1
  <2>2. Range(Append(t, p)) = Range(t) \cup {p}
    BY <1>1, <2>1, AppendList
  <2> QED BY <1>1, <2>2
<1>7. Member(d, Append(t, p), chain)
  BY <1>0, <1>4, <1>6 DEF Member, SameHash
<1>8. Layout(d, free, Append(t, p), chain)
  BY <1>3, <1>5, <1>7 DEF Layout
<1> QED BY <1>4, <1>8 DEF d, e, t, p, SameHash

(* A new entry takes the first free slot, and heads the chain of its bucket. *)
LEMMA Places ==
  ASSUME NEW c, NEW free, NEW busy, NEW chain, Layout(c, free, busy, chain), Len(free) > 0,
         NEW sign \in Signs, NEW v \in Values
  PROVE  LET d == Placed(c, sign, v)
         IN  /\ free[1] \in Slots
             /\ \E links : Layout(d, Without(free, 1), Append(busy, free[1]), links)
             /\ d.sign = [c.sign EXCEPT ![free[1]] = sign]
             /\ d.value = [c.value EXCEPT ![free[1]] = v]
<1> DEFINE p == free[1]
           b == index(sign)
           s == chain[b]
           t == Without(free, 1)
           links == [chain EXCEPT ![b] = Pushed(p, s)]
           H == Headed(c.hashlink, c.pidx[b], p)
           e == get_from_free_list(c)
           f == [e EXCEPT !.value[p] = v, !.sign[p] = sign, !.pidx[b] = p, !.hashlink = H]
           d == insert_into_busy_list(f, p)
<1>0. /\ Typed(c) /\ LinkPart(c, free, busy) /\ ChainPart(c, chain) /\ Member(c, busy, chain)
      /\ free \in Lists /\ busy \in Lists /\ chain \in [Slots -> Lists]
      /\ Range(free) \cap Range(busy) = {} /\ c.free_list = Ends(free)
      /\ c.hashlink \in [Slots -> Links]
  BY DEF Layout, LinkPart, ChainPart, Typed
<1>1. b \in Slots
  BY IndexSlot
<1>2. /\ 1 \in 1 .. Len(free) /\ p \in Slots /\ p \in Range(free) /\ p \notin Range(busy)
      /\ c.free_list.next = p
  <2>1. 1 \in 1 .. Len(free)
    BY <1>0, ListFacts
  <2>2. Range(free) = {free[i] : i \in 1 .. Len(free)} /\ Range(free) \subseteq Slots
    BY <1>0, ListFacts
  <2>3. c.free_list.next = p
    BY <1>0, <2>1, EndsFacts, AtFacts
  <2> QED BY <1>0, <2>1, <2>2, <2>3
<1>3. Placed(c, sign, v) = d
  BY <1>2, Zenon DEF Placed, Headed
<1>4. t \in Lists /\ Range(t) = Range(free) \ {p}
  BY <1>0, <1>2, WithoutList
<1>5. Typed(e) /\ LinkPart(e, t, busy) /\ SameHash(c, e)
  BY <1>0, TakeFree
<1>6. /\ s \in Lists /\ Listed(c.hashlink, s) /\ c.pidx[b] = At(s, 1) /\ p \notin Range(s)
      /\ Range(s) = {q \in Range(busy) : index(c.sign[q]) = b}
  BY <1>0, <1>1, <1>2 DEF ChainPart, Member
<1> HIDE DEF p, t, e, b, s
<1>7. /\ H \in [Slots -> Links] /\ Listed(H, Pushed(p, s))
      /\ \A q \in Slots \ (Range(s) \cup {p}) :
           H[q].next = c.hashlink[q].next /\ H[q].prev = c.hashlink[q].prev
  BY <1>0, <1>2, <1>6, PushListed
<1>8. /\ Pushed(p, s) \in Lists /\ Len(Pushed(p, s)) = Len(s) + 1 /\ Pushed(p, s)[1] = p
      /\ Range(Pushed(p, s)) = Range(s) \cup {p}
  BY <1>2, <1>6, PushList
<1>9. At(Pushed(p, s), 1) = p
  <2>1. 1 \in 1 .. Len(Pushed(p, s))
    BY <1>6, <1>8, ListFacts
  <2> QED BY <1>8, <2>1 DEF At
<1> HIDE DEF H
<1>10. /\ Typed(f) /\ SameLists(e, f) /\ f.hashlink = H
       /\ f.pidx = [e.pidx EXCEPT ![b] = p]
       /\ f.value = [e.value EXCEPT ![p] = v]
       /\ f.sign = [e.sign EXCEPT ![p] = sign]
  <2>1. /\ Typed(e) /\ p \in Slots /\ b \in Slots /\ H \in [Slots -> Links]
        /\ v \in Values /\ sign \in Signs
    BY <1>1, <1>2, <1>5, <1>7
  <2> QED BY ONLY <2>1 DEF Typed, SameLists
<1>11. LinkPart(f, t, busy)
  BY <1>5, <1>10, SamePart
<1> HIDE DEF f
<1>12. Typed(d) /\ LinkPart(d, t, Append(busy, p)) /\ SameHash(f, d)
  BY <1>2, <1>4, <1>10, <1>11, PutBusy
<1> HIDE DEF d
<1>13. /\ d.sign = [c.sign EXCEPT ![p] = sign] /\ d.value = [c.value EXCEPT ![p] = v]
       /\ d.pidx = [c.pidx EXCEPT ![b] = p] /\ d.hashlink = H
  BY <1>5, <1>10, <1>12 DEF SameHash
<1>14. /\ links \in [Slots -> Lists] /\ links[b] = Pushed(p, s)
       /\ \A a \in Slots : a # b => links[a] = chain[a]
  <2> DEFINE u == Pushed(p, s)
  <2>1. u \in Lists
    BY <1>8
  <2> HIDE DEF u
  <2>2. [chain EXCEPT ![b] = u] \in [Slots -> Lists]
    BY <1>0, <1>1, <2>1
  <2>3. /\ [chain EXCEPT ![b] = u][b] = u
        /\ \A a \in Slots : a # b => [chain EXCEPT ![b] = u][a] = chain[a]
    BY <1>0, <1>1
  <2> QED BY <2>2, <2>3 DEF u
<1> HIDE DEF links
<1>15. ChainPart(d, links)
  <2>1. ASSUME NEW a \in Slots
        PROVE  Listed(d.hashlink, links[a]) /\ d.pidx[a] = At(links[a], 1)
    <3>1. c.pidx \in [Slots -> Slots \cup {Nil}]
      BY <1>0 DEF Typed
    <3>2. CASE a = b
      <4>1. d.pidx[a] = p
        BY <1>13, <3>1, <3>2
      <4> QED BY <1>7, <1>9, <1>13, <1>14, <3>2, <4>1
    <3>3. CASE a # b
      <4>1. d.pidx[a] = c.pidx[a] /\ links[a] = chain[a]
        BY <1>13, <1>14, <3>1, <3>3
      <4>2. Listed(c.hashlink, chain[a]) /\ c.pidx[a] = At(chain[a], 1) /\ chain[a] \in Lists
        BY <1>0 DEF ChainPart
      <4>3. Range(chain[a]) = {q \in Range(busy) : index(c.sign[q]) = a}
        BY <1>0 DEF Member
      <4>4. \A q \in Range(chain[a]) : q \in Slots \ (Range(s) \cup {p})
        BY <1>2, <1>6, <3>3, <4>2, <4>3, ListFacts
      <4>5. Listed(H, chain[a])
        BY <1>7, <4>2, <4>4, StillListed
      <4> QED BY <1>13, <4>1, <4>2, <4>5
    <3> QED BY <3>2, <3>3
  <2> QED BY <1>14, <2>1 DEF ChainPart
<1>16. Range(Append(busy, p)) = Range(busy) \cup {p}
  BY <1>0, <1>2, AppendList
<1>17. Member(d, Append(busy, p), links)
  <2>0. /\ \A q \in Range(busy) : c.sign[q] \in Signs /\ q \in Slots /\ q # p
        /\ \A a \in Slots : Range(chain[a]) = {q \in Range(busy) : index(c.sign[q]) = a}
    BY <1>0, <1>2, ListFacts DEF Member
  <2>1. c.sign \in [Slots -> Signs \cup {NoSign}]
    BY <1>0 DEF Typed
  <2>2. d.sign[p] = sign /\ \A q \in Range(busy) : d.sign[q] = c.sign[q]
    BY <1>2, <1>13, <2>0, <2>1
  <2>3. ASSUME NEW a \in Slots
        PROVE  Range(links[a]) = {q \in Range(Append(busy, p)) : index(d.sign[q]) = a}
    <3>1. CASE a = b
      <4>1. index(d.sign[p]) = a
        BY <2>2, <3>1 DEF b
      <4>2. Range(links[a]) = Range(s) \cup {p}
        BY <1>8, <1>14, <3>1
      <4> QED BY <1>6, <1>16, <2>2, <3>1, <4>1, <4>2
    <3>2. CASE a # b
      <4>1. index(d.sign[p]) # a
        BY <2>2, <3>2 DEF b
      <4>2. Range(links[a]) = Range(chain[a])
        BY <1>14, <3>2
      <4> QED BY <1>16, <2>0, <2>2, <4>1, <4>2
    <3> QED BY <3>1, <3>2
  <2>4. \A q \in Range(Append(busy, p)) : d.sign[q] \in Signs
    BY <1>16, <2>0, <2>2
  <2> QED BY <2>3, <2>4 DEF Member
<1>18. Layout(d, t, Append(busy, p), links)
  BY <1>12, <1>15, <1>17 DEF Layout
<1> QED BY <1>2, <1>3, <1>13, <1>18 DEF p, t
-----------------------------------------------------------------------------
(* What the walks of the code and of the properties find. *)
LEMMA WalkNext ==
  ASSUME NEW L \in [Slots -> Links], NEW s \in Lists, Listed(L, s)
  PROVE  Walk(Nexts(L), At(s, 1)) = s
<1>1. Spells(Nexts(L), s)
  BY ListFacts DEF Spells, Nexts, Listed
<1> QED BY <1>1, WalkIs

LEMMA WalkPrev ==
  ASSUME NEW L \in [Slots -> Links], NEW s \in Lists, Listed(L, s)
  PROVE  Walk(Prevs(L), At(s, Len(s))) = Reverse(s)
<1> DEFINE t == Reverse(s)
<1>1. /\ s \in Seq(Slots) /\ Len(s) \in Nat
      /\ \A k \in 1 .. Len(s) : s[k] \in Slots
      /\ \A k, j \in 1 .. Len(s) : s[k] = s[j] => k = j
  BY ListFacts
<1>2. \A k \in 1 .. Len(s) : Len(s) - k + 1 \in 1 .. Len(s)
  BY <1>1
<1>3. t \in Seq(Slots) /\ Len(t) = Len(s) /\ \A k \in 1 .. Len(s) : t[k] = s[Len(s) - k + 1]
  BY <1>1, <1>2 DEF Reverse
<1> HIDE DEF t
<1>4. \A k, j \in 1 .. Len(t) : t[k] = t[j] => k = j
  <2> SUFFICES ASSUME NEW k \in 1 .. Len(t), NEW j \in 1 .. Len(t), t[k] = t[j]
               PROVE  k = j
    OBVIOUS
  <2>1. Len(s) - k + 1 = Len(s) - j + 1
    BY <1>1, <1>2, <1>3
  <2> QED BY <1>1, <1>3, <2>1
<1>5. t \in Lists
  BY <1>3, <1>4, IsList
<1>6. \A k \in Int : At(t, k) = At(s, Len(s) - k + 1)
  <2> SUFFICES ASSUME NEW k \in Int PROVE At(t, k) = At(s, Len(s) - k + 1)
    OBVIOUS
  <2>1. CASE k \in 1 .. Len(s)
    BY <1>2, <1>3, <2>1 DEF At
  <2>2. CASE k \notin 1 .. Len(s)
    <3>1. Len(s) - k + 1 \notin 1 .. Len(s)
      BY <1>1, <2>2
    <3> QED BY <1>3, <2>2, <3>1 DEF At
  <2> QED BY <2>1, <2>2
<1>7. Spells(Prevs(L), t)
  <2> SUFFICES ASSUME NEW k \in 1 .. Len(t) PROVE Prevs(L)[t[k]] = At(t, k + 1)
    BY DEF Spells
  <2> DEFINE j == Len(s) - k + 1
  <2>1. j \in 1 .. Len(s) /\ t[k] = s[j] /\ k + 1 \in Int /\ Len(s) - (k + 1) + 1 = j - 1
    BY <1>1, <1>2, <1>3
  <2>2. At(t, k + 1) = At(s, j - 1)
    BY <1>6, <2>1
  <2> HIDE DEF j
  <2>3. L[s[j]].prev = At(s, j - 1)
    BY <2>1 DEF Listed
  <2>4. Prevs(L)[s[j]] = L[s[j]].prev
    BY <1>1, <2>1 DEF Prevs
  <2> QED BY <2>1, <2>2, <2>3, <2>4
<1>8. At(t, 1) = At(s, Len(s))
  <2>1. Len(s) - 1 + 1 = Len(s)
    BY <1>1
  <2> QED BY <1>6, <2>1
<1> QED BY <1>5, <1>7, <1>8, WalkIs DEF t

LEMMA WalksOf ==
  ASSUME NEW c, NEW free, NEW busy, Typed(c), LinkPart(c, free, busy)
  PROVE  /\ Free(c) = free /\ Busy(c) = busy
         /\ Walk(Prevs(c.link), c.free_list.prev) = Reverse(free)
         /\ Walk(Prevs(c.link), c.busy_list.prev) = Reverse(busy)
<1>1. /\ free \in Lists /\ busy \in Lists /\ c.link \in [Slots -> Links]
      /\ Listed(c.link, free) /\ Listed(c.link, busy)
      /\ c.free_list = Ends(free) /\ c.busy_list = Ends(busy)
  BY DEF LinkPart, Typed
<1>2. /\ c.free_list.next = At(free, 1) /\ c.free_list.prev = At(free, Len(free))
      /\ c.busy_list.next = At(busy, 1) /\ c.busy_list.prev = At(busy, Len(busy))
  BY <1>1, EndsFacts
<1> QED BY <1>1, <1>2, WalkNext, WalkPrev DEF Free, Busy

LEMMA ChainsOf ==
  ASSUME NEW c, NEW chain, Typed(c), ChainPart(c, chain), NEW b \in Slots
  PROVE  Chain(c, b) = chain[b]
<1>1. /\ chain[b] \in Lists /\ c.hashlink \in [Slots -> Links]
      /\ Listed(c.hashlink, chain[b]) /\ c.pidx[b] = At(chain[b], 1)
  BY DEF ChainPart, Typed
<1> QED BY <1>1, WalkNext DEF Chain

(* One list behind another that has no slot in common with it. *)
LEMMA Joined ==
  ASSUME NEW s \in Lists, NEW t \in Lists, Range(s) \cap Range(t) = {}
  PROVE  s \o t \in Lists /\ Range(s \o t) = Range(s) \cup Range(t)
<1> DEFINE u == s \o t
<1>1. /\ s \in Seq(Slots) /\ Len(s) \in Nat /\ Range(s) = {s[k] : k \in 1 .. Len(s)}
      /\ \A k, j \in 1 .. Len(s) : s[k] = s[j] => k = j
  BY ListFacts
<1>2. /\ t \in Seq(Slots) /\ Len(t) \in Nat /\ Range(t) = {t[k] : k \in 1 .. Len(t)}
      /\ \A k, j \in 1 .. Len(t) : t[k] = t[j] => k = j
  BY ListFacts
<1>3. /\ u \in Seq(Slots) /\ Len(u) = Len(s) + Len(t)
      /\ \A k \in 1 .. Len(s) : u[k] = s[k]
      /\ \A k \in 1 .. Len(u) : k \notin 1 .. Len(s) =>
            k - Len(s) \in 1 .. Len(t) /\ u[k] = t[k - Len(s)]
      /\ \A k \in 1 .. Len(t) : k + Len(s) \in 1 .. Len(u) /\ u[k + Len(s)] = t[k]
  BY <1>1, <1>2
<1> HIDE DEF u
<1>4. \A k, j \in 1 .. Len(u) : u[k] = u[j] => k = j
  <2> SUFFICES ASSUME NEW k \in 1 .. Len(u), NEW j \in 1 .. Len(u), u[k] = u[j]
               PROVE  k = j
    OBVIOUS
  <2>1. CASE k \in 1 .. Len(s) /\ j \in 1 .. Len(s)
    BY <1>1, <1>3, <2>1
  <2>2. CASE k \in 1 .. Len(s) /\ j \notin 1 .. Len(s)
    <3>1. u[k] \in Range(s) /\ u[j] \in Range(t)
      BY SMTT(30), <1>1, <1>2, <1>3, <2>2
    <3> QED BY <3>1
  <2>3. CASE k \notin 1 .. Len(s) /\ j \in 1 .. Len(s)
    <3>1. u[k] \in Range(t) /\ u[j] \in Range(s)
      BY <1>1, <1>2, <1>3, <2>3
    <3> QED BY <3>1
  <2>4. CASE k \notin 1 .. Len(s) /\ j \notin 1 .. Len(s)
    <3>1. /\ k - Len(s) \in 1 .. Len(t) /\ u[k] = t[k - Len(s)]
          /\ j - Len(s) \in 1 .. Len(t) /\ u[j] = t[j - Len(s)]
      BY <1>3, <2>4
    <3>2. k - Len(s) = j - Len(s)
      BY <1>2, <3>1
    <3> QED BY <1>1, <3>2
  <2> QED BY <2>1, <2>2, <2>3, <2>4
<1>5. u \in Lists
  BY <1>3, <1>4, IsList
<1>6. Range(u) = {u[k] : k \in 1 .. Len(u)}
  BY <1>5, ListFacts
<1>7. Range(u) \subseteq Range(s) \cup Range(t)
  BY <1>1, <1>2, <1>3, <1>6
<1>8. Range(s) \subseteq Range(u)
  <2>1. \A k \in 1 .. Len(s) : k \in 1 .. Len(u)
    BY <1>1, <1>2, <1>3
  <2> QED BY <1>1, <1>3, <1>6, <2>1
<1>9. Range(t) \subseteq Range(u)
  BY <1>2, <1>3, <1>6
<1> QED BY <1>5, <1>7, <1>8, <1>9 DEF u

(* The lists of c have all the slots. *)
Covered(c, free, busy, chain) ==
    Layout(c, free, busy, chain) /\ Range(free) \cup Range(busy) = Slots

LEMMA CoveredWhole ==
  ASSUME NEW c, NEW free, NEW busy, NEW chain, Covered(c, free, busy, chain)
  PROVE  ListsPartitionSlots(c) /\ ChainsHoldBusySlots(c)
<1>0. /\ Typed(c) /\ LinkPart(c, free, busy) /\ ChainPart(c, chain) /\ Member(c, busy, chain)
      /\ free \in Lists /\ busy \in Lists /\ chain \in [Slots -> Lists]
      /\ Range(free) \cap Range(busy) = {} /\ Range(free) \cup Range(busy) = Slots
      /\ c.free_list_size = Len(free)
  BY DEF Covered, Layout, LinkPart, ChainPart
<1>1. /\ Free(c) = free /\ Busy(c) = busy
      /\ Walk(Prevs(c.link), c.free_list.prev) = Reverse(free)
      /\ Walk(Prevs(c.link), c.busy_list.prev) = Reverse(busy)
  BY <1>0, WalksOf
<1>2. IsInjective(free \o busy) /\ Range(free \o busy) = Slots
  BY <1>0, Joined DEF Lists
<1>3. ListsPartitionSlots(c)
  BY <1>0, <1>1, <1>2, Zenon DEF ListsPartitionSlots
<1>4. ASSUME NEW b \in Slots
      PROVE  /\ IsInjective(chain[b])
             /\ Range(chain[b]) = {s \in Range(busy) : index(c.sign[s]) = b}
             /\ \A i \in DOMAIN chain[b] :
                    c.hashlink[chain[b][i]].prev = IF i = 1 THEN Nil ELSE chain[b][i - 1]
  <2> DEFINE s == chain[b]
  <2>1. s \in Lists /\ Listed(c.hashlink, s)
    BY <1>0 DEF ChainPart
  <2>2. Range(s) = {q \in Range(busy) : index(c.sign[q]) = b}
    BY <1>0 DEF Member
  <2> HIDE DEF s
  <2>3. ASSUME NEW i \in DOMAIN s
        PROVE  c.hashlink[s[i]].prev = IF i = 1 THEN Nil ELSE s[i - 1]
    <3>1. i \in 1 .. Len(s) /\ Len(s) \in Nat
      BY <2>1, ListFacts
    <3>2. c.hashlink[s[i]].prev = At(s, i - 1)
      BY <2>1, <3>1 DEF Listed
    <3>3. CASE i = 1
      BY <3>2, <3>3 DEF At
    <3>4. CASE i # 1
      <4>1. i - 1 \in 1 .. Len(s)
        BY <3>1, <3>4
      <4> QED BY <3>2, <3>4, <4>1 DEF At
    <3> QED BY <3>3, <3>4
  <2>4. IsInjective(s)
    BY <2>1 DEF Lists
  <2> QED BY <2>2, <2>3, <2>4, Zenon DEF s
<1>5. \A b \in Slots : Chain(c, b) = chain[b]
  BY <1>0, ChainsOf
<1>6. ChainsHoldBusySlots(c)
  BY <1>1, <1>4, <1>5 DEF ChainsHoldBusySlots
<1> QED BY <1>3, <1>6
-----------------------------------------------------------------------------
(* reclaim. *)
IsReplacing(f, n, c) ==
    f = [k \in 0 .. n |-> IF k = 0 THEN c ELSE Replaced(f[k - 1])]

LEMMA ReplacingExists ==
  ASSUME NEW c, NEW n \in Nat
  PROVE  \E f : IsReplacing(f, n, c)
<1> DEFINE Bad == {k \in Nat : ~\E f : IsReplacing(f, k, c)}
<1>1. SUFFICES ASSUME Bad # {} PROVE FALSE
  OBVIOUS
<1>2. PICK k \in Bad : \A j \in Bad : k <= j
  BY <1>1, LeastElement
<1>3. CASE k = 0
  <2> DEFINE f == [i \in 0 .. 0 |-> c]
  <2>1. IsReplacing(f, 0, c)
    BY DEF IsReplacing
  <2> QED BY <1>2, <1>3, <2>1
<1>4. CASE k # 0
  <2>1. PICK j \in Nat : k = j + 1
    BY <1>2, <1>4
  <2>2. PICK f : IsReplacing(f, j, c)
    BY <1>2, <2>1
  <2> DEFINE g == [i \in 0 .. j + 1 |-> IF i = j + 1 THEN Replaced(f[j]) ELSE f[i]]
  <2>3. IsReplacing(g, j + 1, c)
    BY <2>1, <2>2 DEF IsReplacing
  <2> QED BY <1>2, <2>1, <2>3
<1> QED BY <1>3, <1>4

LEMMA ReplacedTimesIs ==
  ASSUME NEW c, NEW n \in Nat
  PROVE  \E f : IsReplacing(f, n, c) /\ ReplacedTimes(n, c) = f[n]
<1>1. PICK f : IsReplacing(f, n, c)
  BY ReplacingExists
<1> DEFINE P(g) == g = [k \in 0 .. n |-> IF k = 0 THEN c ELSE Replaced(g[k - 1])]
<1>2. \A g : P(g) <=> IsReplacing(g, n, c)
  BY DEF IsReplacing
<1>3. ReplacedTimes(n, c) = (CHOOSE g : P(g))[n]
  BY DEF ReplacedTimes
<1> HIDE DEF P
<1>4. P(CHOOSE g : P(g))
  BY <1>1, <1>2
<1> QED BY <1>2, <1>3, <1>4

LEMMA CoversReleased ==
  ASSUME NEW c, NEW free, NEW busy, NEW chain, Covered(c, free, busy, chain),
         NEW n \in 1 .. Len(busy), NEW d,
         \/ d = Released(c, index(c.sign[busy[n]]), busy[n])
         \/ d = Reclaimed(c, index(c.sign[busy[n]]), busy[n])
  PROVE  /\ d.sign = c.sign /\ d.value = c.value
         /\ \E links : Covered(d, Append(free, busy[n]), Without(busy, n), links)
         /\ Len(Append(free, busy[n])) = Len(free) + 1
<1>0. /\ Layout(c, free, busy, chain) /\ Range(free) \cup Range(busy) = Slots
      /\ free \in Lists /\ busy \in Lists /\ Range(free) \cap Range(busy) = {}
  BY DEF Covered, Layout, LinkPart
<1>1. PICK links : Layout(d, Append(free, busy[n]), Without(busy, n), links)
  BY <1>0, Releases
<1>2. d.sign = c.sign /\ d.value = c.value
  BY <1>0, Releases
<1>3. busy[n] \in Slots /\ busy[n] \in Range(busy)
  <2>1. Range(busy) = {busy[i] : i \in 1 .. Len(busy)} /\ Range(busy) \subseteq Slots
    BY <1>0, ListFacts
  <2> QED BY <2>1
<1>4. busy[n] \notin Range(free)
  BY <1>0, <1>3
<1>5. /\ Range(Append(free, busy[n])) = Range(free) \cup {busy[n]}
      /\ Len(Append(free, busy[n])) = Len(free) + 1
  BY <1>0, <1>3, <1>4, AppendList
<1>6. Range(Without(busy, n)) = Range(busy) \ {busy[n]}
  BY <1>0, WithoutList
<1>7. Range(Append(free, busy[n])) \cup Range(Without(busy, n)) = Slots
  BY <1>0, <1>3, <1>5, <1>6
<1> QED BY <1>1, <1>2, <1>5, <1>7 DEF Covered

LEMMA ReplacedOne ==
  ASSUME NEW c, NEW free, NEW busy, NEW chain, Covered(c, free, busy, chain), Len(busy) > 0
  PROVE  LET d == Replaced(c)
         IN  /\ d.sign = c.sign /\ d.value = c.value
             /\ \E links : Covered(d, Append(free, busy[1]), Without(busy, 1), links)
             /\ Len(Append(free, busy[1])) = Len(free) + 1
<1>1. busy \in Lists /\ c.busy_list = Ends(busy)
  BY DEF Covered, Layout, LinkPart
<1>2. 1 \in 1 .. Len(busy)
  BY <1>1, ListFacts
<1>3. c.busy_list.next = busy[1]
  BY <1>1, <1>2, EndsFacts, AtFacts
<1>4. Replaced(c) = Reclaimed(c, index(c.sign[busy[1]]), busy[1])
  BY <1>3 DEF Replaced, Reclaimed
<1> QED BY <1>2, <1>4, CoversReleased

(* After n turns of its loop: the first n busy slots are free. *)
After(n, c, d, free, busy) ==
    /\ d.sign = c.sign /\ d.value = c.value
    /\ \E fr, bs, links :
         /\ Covered(d, fr, bs, links)
         /\ Len(fr) = Len(free) + n /\ Len(bs) = Len(busy) - n
         /\ \A k \in 1 .. Len(busy) - n : bs[k] = busy[k + n]

LEMMA AfterOneMore ==
  ASSUME NEW n \in Nat, NEW c, NEW d, NEW free \in Lists, NEW busy \in Lists,
         After(n, c, d, free, busy), n < Len(busy)
  PROVE  After(n + 1, c, Replaced(d), free, busy)
<1>1. PICK fr, bs, links :
         /\ Covered(d, fr, bs, links)
         /\ Len(fr) = Len(free) + n /\ Len(bs) = Len(busy) - n
         /\ \A k \in 1 .. Len(busy) - n : bs[k] = busy[k + n]
  BY DEF After
<1>2. Len(busy) \in Nat /\ Len(free) \in Nat
  BY ListFacts
<1>3. Len(bs) > 0 /\ 1 \in 1 .. Len(bs)
  BY <1>1, <1>2
<1>4. bs \in Lists
  BY <1>1 DEF Covered, Layout, LinkPart
<1>5. PICK more : Covered(Replaced(d), Append(fr, bs[1]), Without(bs, 1), more)
  BY <1>1, <1>3, ReplacedOne
<1>6. /\ Replaced(d).sign = d.sign /\ Replaced(d).value = d.value
      /\ Len(Append(fr, bs[1])) = Len(fr) + 1
  BY <1>1, <1>3, ReplacedOne
<1>7. /\ Len(Without(bs, 1)) = Len(bs) - 1
      /\ \A k \in 1 .. Len(bs) - 1 : Without(bs, 1)[k] = IF k < 1 THEN bs[k] ELSE bs[k + 1]
  BY <1>3, <1>4, WithoutList
<1>8. ASSUME NEW k \in 1 .. Len(busy) - (n + 1)
      PROVE  Without(bs, 1)[k] = busy[k + (n + 1)]
  <2>1. /\ k \in 1 .. Len(bs) - 1 /\ ~(k < 1) /\ k + 1 \in 1 .. Len(busy) - n
        /\ k + 1 + n = k + (n + 1)
    BY <1>1, <1>2
  <2> QED BY <1>1, <1>7, <2>1
<1>9. /\ Len(Append(fr, bs[1])) = Len(free) + (n + 1)
      /\ Len(Without(bs, 1)) = Len(busy) - (n + 1)
  <2>1. /\ Len(fr) = Len(free) + n /\ Len(Append(fr, bs[1])) = Len(fr) + 1
        /\ Len(bs) = Len(busy) - n /\ Len(Without(bs, 1)) = Len(bs) - 1
    BY <1>1, <1>6, <1>7, Zenon
  <2> QED BY <1>2, <2>1
<1>10. Replaced(d).sign = c.sign /\ Replaced(d).value = c.value
  BY <1>6 DEF After
<1> QED BY <1>5, <1>8, <1>9, <1>10 DEF After

LEMMA ReplacesTimes ==
  ASSUME NEW c, NEW free, NEW busy, NEW chain, Covered(c, free, busy, chain),
         NEW n \in Nat, n <= Len(busy)
  PROVE  After(n, c, ReplacedTimes(n, c), free, busy)
<1>0. free \in Lists /\ busy \in Lists /\ Len(free) \in Nat /\ Len(busy) \in Nat
  BY ListFacts DEF Covered, Layout, LinkPart
<1>1. PICK f : IsReplacing(f, n, c) /\ ReplacedTimes(n, c) = f[n]
  BY ReplacedTimesIs
<1> DEFINE Bad == {k \in 0 .. n : ~After(k, c, f[k], free, busy)}
<1>2. ASSUME Bad # {} PROVE FALSE
  <2>1. PICK k \in Bad : \A j \in Bad : k <= j
    <3>1. Bad \subseteq Nat
      OBVIOUS
    <3> QED BY <1>2, <3>1, LeastElement
  <2>2. k \in 0 .. n /\ ~After(k, c, f[k], free, busy)
    OBVIOUS
  <2>3. CASE k = 0
    <3>1. f[0] = c
      BY <1>1 DEF IsReplacing
    <3>2. After(0, c, c, free, busy)
      <4>1. /\ Len(free) = Len(free) + 0 /\ Len(busy) = Len(busy) - 0
            /\ \A i \in 1 .. Len(busy) - 0 : busy[i] = busy[i + 0]
        BY <1>0
      <4> QED BY <4>1 DEF After
    <3> QED BY <2>2, <2>3, <3>1, <3>2
  <2>4. CASE k # 0
    <3>1. PICK j \in Nat : k = j + 1
      BY <2>2, <2>4
    <3>2. j \in 0 .. n /\ j < Len(busy) /\ ~(k <= j)
      BY <1>0, <2>2, <3>1
    <3>3. After(j, c, f[j], free, busy)
      BY <2>1, <3>2
    <3>4. f[k] = Replaced(f[j])
      <4>1. f[k] = IF k = 0 THEN c ELSE Replaced(f[k - 1])
        BY <1>1, <2>2, Zenon DEF IsReplacing
      <4>2. k - 1 = j
        BY <3>1
      <4> QED BY <2>4, <4>1, <4>2
    <3>5. After(j + 1, c, Replaced(f[j]), free, busy)
      BY <1>0, <3>2, <3>3, AfterOneMore
    <3> QED BY <2>2, <3>1, <3>4, <3>5
  <2> QED BY <2>3, <2>4
<1>3. n \in 0 .. n
  OBVIOUS
<1> QED BY <1>1, <1>2, <1>3
-----------------------------------------------------------------------------
(* The slot that insert, remove and find stop at, if there is one: a busy  *)
(* slot of the bucket whose signature has the same first word.             *)
Like(s, t) == index(s) = index(t) /\ s[1] = t[1]

LEMMA Matches ==
  ASSUME NEW c, NEW free, NEW busy, NEW chain, Layout(c, free, busy, chain),
         NEW sign \in Signs
  PROVE  \/ /\ Match(c, sign) = Nil
            /\ \A n \in 1 .. Len(busy) : ~Like(c.sign[busy[n]], sign)
         \/ /\ Match(c, sign) # Nil
            /\ \E n \in 1 .. Len(busy) :
                 Match(c, sign) = busy[n] /\ Like(c.sign[busy[n]], sign)
<1> DEFINE b == index(sign)
           s == chain[b]
           same == {i \in DOMAIN s : Same(c.sign[s[i]], sign)}
<1>0. /\ Typed(c) /\ ChainPart(c, chain) /\ busy \in Lists /\ chain \in [Slots -> Lists]
      /\ \A a \in Slots : Range(chain[a]) = {p \in Range(busy) : index(c.sign[p]) = a}
  BY DEF Layout, LinkPart, ChainPart, Member
<1>1. b \in Slots
  BY IndexSlot
<1>2. Chain(c, b) = s
  BY <1>0, <1>1, ChainsOf
<1>3. Match(c, sign) = IF same = {} THEN Nil ELSE s[Min(same)]
  BY <1>2 DEF Match
<1>4. /\ s \in Lists /\ Range(s) = {p \in Range(busy) : index(c.sign[p]) = b}
  BY <1>0, <1>1
<1>5. Range(busy) = {busy[n] : n \in 1 .. Len(busy)}
  BY <1>0, ListFacts
<1> HIDE DEF s
<1>6. /\ DOMAIN s = 1 .. Len(s) /\ Range(s) = {s[i] : i \in 1 .. Len(s)}
      /\ \A i \in 1 .. Len(s) : s[i] # Nil
  BY <1>4, ListFacts, NilNoSlot
<1>7. CASE same = {}
  <2>1. Match(c, sign) = Nil
    BY <1>3, <1>7
  <2>2. ASSUME NEW n \in 1 .. Len(busy), Like(c.sign[busy[n]], sign)
        PROVE  FALSE
    <3>1. busy[n] \in Range(s)
      BY <1>4, <1>5, <2>2 DEF Like
    <3>2. PICK i \in 1 .. Len(s) : s[i] = busy[n]
      BY <1>6, <3>1
    <3>3. i \in same
      BY <1>6, <2>2, <3>2 DEF Same, Like
    <3> QED BY <1>7, <3>3
  <2> QED BY <2>1, <2>2
<1>8. CASE same # {}
  <2>1. same \subseteq Nat
    BY <1>6
  <2>2. \E x \in same : \A y \in same : x <= y
    BY <1>8, <2>1, LeastElement
  <2>3. Min(same) \in same
    BY <2>2 DEF Min
  <2>4. PICK i \in 1 .. Len(s) : Match(c, sign) = s[i] /\ Same(c.sign[s[i]], sign)
    BY <1>3, <1>6, <1>8, <2>3
  <2>5. s[i] \in Range(busy) /\ index(c.sign[s[i]]) = b
    BY <1>4, <1>6
  <2>6. PICK n \in 1 .. Len(busy) : busy[n] = s[i]
    BY <1>5, <2>5
  <2> QED BY <1>6, <2>4, <2>5, <2>6 DEF Same, Like
<1> QED BY <1>7, <1>8

(* insert makes room. *)
Room(c) == IF c.free_list_size = 0 THEN reclaim(c) ELSE c

LEMMA Shares ==
  /\ Size \div Share \in Nat /\ Size \div Share <= Size
  /\ Share <= Size => Size \div Share > 0
<1>1. \A a, n \in Nat \ {0} : a \div n \in Nat /\ a \div n <= a /\ (n <= a => a \div n > 0)
  <2> SUFFICES ASSUME NEW a \in Nat \ {0}, NEW n \in Nat \ {0}
               PROVE  a \div n \in Nat /\ a \div n <= a /\ (n <= a => a \div n > 0)
    OBVIOUS
  <2> DEFINE q == a \div n
             r == a % n
  <2>1. q \in Int /\ r \in 0 .. n - 1 /\ a = n * q + r
    OBVIOUS
  <2> HIDE DEF q, r
  <2>2. q >= 0
    <3>1. CASE q < 0
      <4>1. n * q <= n * (-1)
        BY <2>1, <3>1
      <4> QED BY <2>1, <4>1
    <3> QED BY <2>1, <3>1
  <2>3. q <= n * q
    BY <2>1, <2>2
  <2>4. n <= a => q > 0
    <3> SUFFICES ASSUME n <= a, q = 0 PROVE FALSE
      BY <2>1, <2>2
    <3>1. n * q = 0
      BY <2>1
    <3> QED BY <2>1, <3>1
  <2> QED BY <2>1, <2>2, <2>3, <2>4 DEF q
<1> QED BY <1>1, CacheSizeAssumption

LEMMA FullWhen ==
  ASSUME NEW c, NEW free, NEW busy, NEW chain, Covered(c, free, busy, chain)
  PROVE  /\ Len(free) \in Nat /\ Len(busy) \in Nat
         /\ c.free_list_size = 0 <=> Len(free) = 0
         /\ Len(free) = 0 <=> Len(busy) = Size
         /\ c.free_list.next = Nil <=> Len(free) = 0
<1>0. /\ free \in Lists /\ busy \in Lists /\ Range(free) \cap Range(busy) = {}
      /\ Range(free) \cup Range(busy) = Slots
      /\ c.free_list = Ends(free) /\ c.free_list_size = Len(free)
  BY DEF Covered, Layout, LinkPart
<1>1. Len(free) \in Nat /\ Len(busy) \in Nat
  BY <1>0, ListFacts
<1>2. IsFiniteSet(Slots) /\ Cardinality(Slots) = Size
  <2>1. 0 \in Int /\ Size - 1 \in Int /\ ~(0 > Size - 1) /\ Size - 1 - 0 + 1 = Size
    BY CacheSizeAssumption
  <2>2. /\ IsFiniteSet(0 .. Size - 1)
        /\ Cardinality(0 .. Size - 1) = IF 0 > Size - 1 THEN 0 ELSE Size - 1 - 0 + 1
    BY <2>1, FS_Interval, Zenon
  <2> QED BY <2>1, <2>2 DEF Slots
<1>3. Len(free) = 0 <=> Range(free) = {}
  <2>1. Range(free) = {free[k] : k \in 1 .. Len(free)}
    BY <1>0, ListFacts
  <2>2. Len(free) # 0 => 1 \in 1 .. Len(free)
    BY <1>1
  <2>3. Len(free) = 0 => 1 .. Len(free) = {}
    OBVIOUS
  <2> QED BY <2>1, <2>2, <2>3
<1>4. Len(busy) = Cardinality(Range(busy)) /\ Range(busy) \subseteq Slots
  BY <1>0, ListFits, ListFacts
<1>5. Len(busy) = Size <=> Range(busy) = Slots
  BY <1>2, <1>4, FS_Subset
<1>6. Range(busy) = Slots <=> Range(free) = {}
  BY <1>0
<1>7. c.free_list.next = Nil <=> Len(free) = 0
  BY <1>0, EndsFacts
<1> QED BY <1>0, <1>1, <1>3, <1>5, <1>6, <1>7

(* Room keeps the layout, and makes room if there is a share to replace. *)
LEMMA MakesRoom ==
  ASSUME NEW c, NEW free, NEW busy, NEW chain, Covered(c, free, busy, chain)
  PROVE  /\ After(IF c.free_list_size = 0 THEN Size \div Share ELSE 0, c, Room(c), free, busy)
         /\ \A fr, bs, links :
              Covered(Room(c), fr, bs, links) /\ Share <= Size => Len(fr) > 0
<1>0. free \in Lists /\ busy \in Lists
  BY DEF Covered, Layout, LinkPart
<1>1. /\ Len(free) \in Nat /\ Len(busy) \in Nat
      /\ c.free_list_size = 0 <=> Len(free) = 0
      /\ Len(free) = 0 <=> Len(busy) = Size
  BY FullWhen
<1>2. CASE c.free_list_size = 0
  <2>1. Size \div Share \in Nat /\ Size \div Share <= Len(busy)
    BY <1>1, <1>2, Shares
  <2>2. Room(c) = ReplacedTimes(Size \div Share, c)
    BY <1>2 DEF Room, reclaim
  <2>3. After(Size \div Share, c, Room(c), free, busy)
    BY <2>1, <2>2, ReplacesTimes
  <2>4. ASSUME NEW fr, NEW bs, NEW links, Covered(Room(c), fr, bs, links), Share <= Size
        PROVE  Len(fr) > 0
    <3>1. Room(c).free_list_size > 0
      <4>1. PICK f2, b2, l2 : Covered(Room(c), f2, b2, l2) /\ Len(f2) = Len(free) + Size \div Share
        BY <2>3 DEF After
      <4>2. Room(c).free_list_size = Len(f2)
        BY <4>1 DEF Covered, Layout, LinkPart
      <4> QED BY <1>1, <1>2, <2>4, <4>1, <4>2, Shares
    <3>2. Room(c).free_list_size = Len(fr)
      BY <2>4 DEF Covered, Layout, LinkPart
    <3> QED BY <3>1, <3>2
  <2> QED BY <1>2, <2>3, <2>4
<1>3. CASE c.free_list_size # 0
  <2>1. Room(c) = c
    BY <1>3 DEF Room
  <2>2. After(0, c, c, free, busy)
    <3>1. /\ Len(free) = Len(free) + 0 /\ Len(busy) = Len(busy) - 0
          /\ \A i \in 1 .. Len(busy) - 0 : busy[i] = busy[i + 0]
      BY <1>1
    <3> QED BY <3>1 DEF After
  <2>3. ASSUME NEW fr, NEW bs, NEW links, Covered(c, fr, bs, links) PROVE Len(fr) > 0
    BY <1>3, <2>3, FullWhen
  <2> QED BY <1>3, <2>1, <2>2, <2>3
<1> QED BY <1>2, <1>3
-----------------------------------------------------------------------------
(* The operations keep every slot on one of the lists. *)

(* What insert does to the slot of a key that is present. *)
Revalued(c, p, v) == [c EXCEPT !.value[p] = v]

LEMMA CoversRevalued ==
  ASSUME NEW c, NEW free, NEW busy, NEW chain, Covered(c, free, busy, chain),
         NEW p \in Slots, NEW v \in Values, NEW d, d = Revalued(c, p, v)
  PROVE  /\ Covered(d, free, busy, chain)
         /\ d.sign = c.sign /\ d.value = [c.value EXCEPT ![p] = v]
<1>0. /\ Typed(c) /\ LinkPart(c, free, busy) /\ ChainPart(c, chain) /\ Member(c, busy, chain)
      /\ Range(free) \cup Range(busy) = Slots
  BY DEF Covered, Layout
<1>1. /\ Typed(d) /\ SameLists(c, d) /\ d.pidx = c.pidx /\ d.hashlink = c.hashlink
      /\ d.sign = c.sign /\ d.value = [c.value EXCEPT ![p] = v]
  BY <1>0 DEF Typed, SameLists, Revalued
<1>2. LinkPart(d, free, busy) /\ Member(d, busy, chain)
  BY <1>0, <1>1, SamePart
<1>3. ChainPart(d, chain)
  BY <1>0, <1>1 DEF ChainPart
<1>4. Covered(d, free, busy, chain)
  BY <1>0, <1>1, <1>2, <1>3 DEF Covered, Layout
<1> QED BY <1>1, <1>4

LEMMA CoversPlaced ==
  ASSUME NEW c, NEW free, NEW busy, NEW chain, Covered(c, free, busy, chain), Len(free) > 0,
         NEW sign \in Signs, NEW v \in Values
  PROVE  LET d == Placed(c, sign, v)
         IN  /\ \E links : Covered(d, Without(free, 1), Append(busy, free[1]), links)
             /\ free[1] \in Slots /\ free[1] \notin Range(busy)
             /\ d.sign = [c.sign EXCEPT ![free[1]] = sign]
             /\ d.value = [c.value EXCEPT ![free[1]] = v]
<1> DEFINE d == Placed(c, sign, v)
           p == free[1]
<1>0. /\ Layout(c, free, busy, chain) /\ Range(free) \cup Range(busy) = Slots
      /\ free \in Lists /\ busy \in Lists /\ Range(free) \cap Range(busy) = {}
  BY DEF Covered, Layout, LinkPart
<1>1. /\ p \in Slots
      /\ \E links : Layout(d, Without(free, 1), Append(busy, p), links)
      /\ d.sign = [c.sign EXCEPT ![p] = sign] /\ d.value = [c.value EXCEPT ![p] = v]
  BY <1>0, Places
<1>2. 1 \in 1 .. Len(free) /\ p \in Range(free)
  <2>1. Range(free) = {free[k] : k \in 1 .. Len(free)} /\ Len(free) \in Nat
    BY <1>0, ListFacts
  <2>2. 1 \in 1 .. Len(free)
    BY <2>1
  <2> QED BY <2>1, <2>2
<1>3. Range(Without(free, 1)) = Range(free) \ {p}
  BY <1>0, <1>2, WithoutList
<1>4. p \notin Range(busy) /\ Range(Append(busy, p)) = Range(busy) \cup {p}
  BY <1>0, <1>1, <1>2, AppendList
<1>5. Range(Without(free, 1)) \cup Range(Append(busy, p)) = Slots
  BY <1>0, <1>2, <1>3, <1>4
<1> HIDE DEF d, p
<1>6. \E links : Covered(d, Without(free, 1), Append(busy, p), links)
  BY <1>1, <1>5 DEF Covered
<1> QED BY <1>1, <1>4, <1>6 DEF d, p

LEMMA CoversRefreshed ==
  ASSUME NEW c, NEW free, NEW busy, NEW chain, Covered(c, free, busy, chain),
         NEW n \in 1 .. Len(busy)
  PROVE  LET d == insert_into_busy_list(del_from_busy_list(c, busy[n]), busy[n])
         IN  /\ Covered(d, free, Append(Without(busy, n), busy[n]), chain)
             /\ d.sign = c.sign /\ d.value = c.value
<1> DEFINE d == insert_into_busy_list(del_from_busy_list(c, busy[n]), busy[n])
           t == Append(Without(busy, n), busy[n])
<1>0. /\ Layout(c, free, busy, chain) /\ Range(free) \cup Range(busy) = Slots
      /\ busy \in Lists
  BY DEF Covered, Layout, LinkPart
<1>1. Layout(d, free, t, chain) /\ d.sign = c.sign /\ d.value = c.value
  BY <1>0, Refreshed
<1>2. Range(t) = Range(busy)
  <2>1. Range(busy) = {busy[i] : i \in 1 .. Len(busy)} /\ Range(busy) \subseteq Slots
    BY <1>0, ListFacts
  <2>2. busy[n] \in Range(busy) /\ busy[n] \in Slots
    BY <2>1
  <2>3. Without(busy, n) \in Lists /\ Range(Without(busy, n)) = Range(busy) \ {busy[n]}
    BY <1>0, WithoutList
  <2>4. Range(t) = Range(Without(busy, n)) \cup {busy[n]}
    BY <2>2, <2>3, AppendList
  <2> QED BY <2>2, <2>3, <2>4
<1> HIDE DEF d, t
<1>3. Covered(d, free, t, chain)
  BY <1>0, <1>1, <1>2 DEF Covered
<1> QED BY <1>1, <1>3 DEF d, t

(* The inductive invariant. *)
Whole(c) == \E free, busy, chain : Covered(c, free, busy, chain)

LEMMA FreshWhole == Covered(Fresh, [i \in 1 .. Size |-> i - 1], <<>>, [b \in Slots |-> <<>>])
<1> DEFINE s == [i \in 1 .. Size |-> i - 1]
           n == [b \in Slots |-> <<>>]
<1>0. Size \in Nat /\ Size >= 1
  BY CacheSizeAssumption
<1>1. s \in Lists /\ Len(s) = Size /\ \A k \in 1 .. Size : s[k] = k - 1
  <2>1. s \in [1 .. Size -> Slots]
    BY <1>0 DEF Slots
  <2>2. s \in Seq(Slots) /\ Len(s) = Size
    BY <1>0, <2>1
  <2>3. \A k, j \in 1 .. Len(s) : s[k] = s[j] => k = j
    BY <1>0, <2>2
  <2> QED BY <2>2, <2>3, IsList
<1>2. <<>> \in Lists /\ Len(<<>>) = 0 /\ Range(<<>>) = {}
  <2>1. \A S : <<>> \in Seq(S)
    OBVIOUS
  <2>2. <<>> \in Lists
    <3>1. IsInjective(<<>>)
      BY DEF IsInjective
    <3>2. <<>> \in Seq(Slots)
      BY <2>1, Zenon
    <3> QED BY <3>1, <3>2 DEF Lists
  <2>3. Range(<<>>) = {<<>>[k] : k \in 1 .. Len(<<>>)}
    BY <2>2, ListFacts
  <2> QED BY <2>2, <2>3
<1>3. Range(s) = Slots
  <2>1. Range(s) = {s[k] : k \in 1 .. Size}
    BY <1>1, ListFacts
  <2>2. ASSUME NEW p \in Slots PROVE p + 1 \in 1 .. Size /\ s[p + 1] = p
    BY <1>0, <1>1 DEF Slots
  <2>3. Slots \subseteq Range(s)
    BY <2>1, <2>2
  <2>4. Range(s) \subseteq Slots
    BY <1>1, ListFacts
  <2> QED BY <2>3, <2>4
<1>4. At(s, 1) = 0 /\ At(s, Size) = Size - 1
      /\ \A k \in 1 .. Size : /\ At(s, k + 1) = IF k - 1 = Size - 1 THEN Nil ELSE k
                              /\ At(s, k - 1) = k - 1 - 1
  <2> HIDE DEF s
  <2> QED BY <1>0, <1>1 DEF At, Nil
<1>5. Typed(Fresh)
  <2>1. \A i \in Slots : /\ (IF i = Size - 1 THEN Nil ELSE i + 1) \in Slots \cup {Nil}
                         /\ i - 1 \in Slots \cup {Nil}
    BY <1>0 DEF Slots, Nil
  <2>2. 0 \in Slots /\ Size - 1 \in Slots
    BY <1>0 DEF Slots
  <2> QED BY <1>0, <2>1, <2>2 DEF Typed, Fresh, Link, Links
<1> HIDE DEF s, n
<1>6. LinkPart(Fresh, s, <<>>)
  <2>1. Listed(Fresh.link, s)
    <3> SUFFICES ASSUME NEW k \in 1 .. Size
                 PROVE  /\ Fresh.link[s[k]].next = At(s, k + 1)
                        /\ Fresh.link[s[k]].prev = At(s, k - 1)
      BY <1>1 DEF Listed
    <3>1. s[k] = k - 1 /\ s[k] \in Slots
      BY <1>1, ListFacts
    <3>2. Fresh.link[s[k]] = Link(IF s[k] = Size - 1 THEN Nil ELSE s[k] + 1, s[k] - 1)
      BY <3>1 DEF Fresh
    <3>3. s[k] + 1 = k
      BY <3>1
    <3> QED BY <1>4, <3>1, <3>2, <3>3 DEF Link
  <2>2. Listed(Fresh.link, <<>>)
    BY DEF Listed
  <2>3. Fresh.free_list = Ends(s) /\ Fresh.busy_list = Ends(<<>>)
    BY <1>1, <1>4 DEF Fresh, Ends, At
  <2>4. Fresh.free_list_size = Len(s)
    BY <1>1 DEF Fresh
  <2> QED BY <1>1, <1>2, <2>1, <2>2, <2>3, <2>4 DEF LinkPart
<1>7. n \in [Slots -> Lists] /\ \A b \in Slots : n[b] = <<>>
  BY <1>2 DEF n
<1>8. ChainPart(Fresh, n)
  <2>1. \A b \in Slots : Listed(Fresh.hashlink, n[b])
    BY <1>7 DEF Listed
  <2>2. \A b \in Slots : Fresh.pidx[b] = At(n[b], 1)
    BY <1>7 DEF Fresh, At
  <2> QED BY <1>7, <2>1, <2>2 DEF ChainPart
<1>9. Member(Fresh, <<>>, n)
  BY <1>2, <1>7 DEF Member
<1> QED BY <1>2, <1>3, <1>5, <1>6, <1>8, <1>9 DEF Covered, Layout, s, n

(* What insert(sign, v) leaves. *)
LEMMA InsertKeeps ==
  ASSUME NEW sign \in Signs, NEW v \in Values, Whole(m), insert(sign, v)
  PROVE  Whole(m') /\ (Share <= Size => broken' = broken)
<1>1. PICK free, busy, chain : Covered(m, free, busy, chain)
  BY DEF Whole
<1> DEFINE room == Room(m)
           vi == Match(room, sign)
<1>2. /\ \E fr, bs, links : Covered(room, fr, bs, links)
      /\ \A fr, bs, links : Covered(room, fr, bs, links) /\ Share <= Size => Len(fr) > 0
  BY <1>1, MakesRoom DEF After
<1>3. PICK fr, bs, links : Covered(room, fr, bs, links)
  BY <1>2
<1>4. /\ Len(fr) \in Nat /\ (room.free_list.next = Nil <=> Len(fr) = 0)
  BY <1>3, FullWhen
<1> HIDE DEF room
<1>5. \/ vi # Nil /\ m' = [room EXCEPT !.value[vi] = v] /\ broken' = broken
      \/ vi = Nil /\ room.free_list.next # Nil /\ m' = Placed(room, sign, v) /\ broken' = broken
      \/ vi = Nil /\ room.free_list.next = Nil /\ m' = m
  BY DEF insert, Room, room
<1>6. CASE vi # Nil /\ m' = [room EXCEPT !.value[vi] = v] /\ broken' = broken
  <2>1. vi \in Slots
    <3>1. PICK n \in 1 .. Len(bs) : vi = bs[n]
      BY <1>3, <1>6, Matches DEF Covered
    <3>2. bs \in Lists
      BY <1>3 DEF Covered, Layout, LinkPart
    <3> QED BY <3>1, <3>2, ListFacts
  <2> HIDE DEF vi
  <2>2. Covered(m', fr, bs, links)
    BY <1>3, <1>6, <2>1, CoversRevalued DEF Revalued
  <2> QED BY <1>6, <2>2 DEF Whole
<1>7. CASE vi = Nil /\ room.free_list.next # Nil /\ m' = Placed(room, sign, v) /\ broken' = broken
  <2>1. Len(fr) > 0
    BY <1>4, <1>7
  <2>2. \E more : Covered(m', Without(fr, 1), Append(bs, fr[1]), more)
    BY <1>3, <1>7, <2>1, CoversPlaced
  <2> QED BY <1>7, <2>2 DEF Whole
<1>8. CASE vi = Nil /\ room.free_list.next = Nil /\ m' = m
  <2>1. ~(Share <= Size)
    BY <1>2, <1>3, <1>4, <1>8
  <2> QED BY <1>8, <2>1
<1> QED BY <1>5, <1>6, <1>7, <1>8

LEMMA RemoveKeeps ==
  ASSUME NEW sign \in Signs, Whole(m), remove(sign)
  PROVE  Whole(m') /\ broken' = broken
<1>1. PICK free, busy, chain : Covered(m, free, busy, chain)
  BY DEF Whole
<1> DEFINE vi == Match(m, sign)
<1>2. /\ m' = IF vi = Nil THEN m ELSE Released(m, index(sign), vi)
      /\ broken' = broken
  BY DEF remove, Released
<1>3. CASE vi = Nil
  BY <1>2, <1>3
<1>4. CASE vi # Nil
  <2>1. PICK n \in 1 .. Len(busy) : vi = busy[n] /\ Like(m.sign[busy[n]], sign)
    BY <1>1, <1>4, Matches DEF Covered
  <2>2. m' = Released(m, index(m.sign[busy[n]]), busy[n])
    BY <1>2, <1>4, <2>1 DEF Like
  <2>3. \E links : Covered(m', Append(free, busy[n]), Without(busy, n), links)
    BY <1>1, <2>2, CoversReleased
  <2> QED BY <1>2, <2>3 DEF Whole
<1> QED BY <1>3, <1>4

LEMMA FindKeeps ==
  ASSUME NEW sign \in Signs, Whole(m), find(sign)
  PROVE  Whole(m') /\ broken' = broken
<1>1. PICK free, busy, chain : Covered(m, free, busy, chain)
  BY DEF Whole
<1> DEFINE vi == Match(m, sign)
<1>2. /\ m' = IF vi = Nil THEN m ELSE insert_into_busy_list(del_from_busy_list(m, vi), vi)
      /\ broken' = broken
  BY DEF find
<1>3. CASE vi = Nil
  BY <1>2, <1>3
<1>4. CASE vi # Nil
  <2>1. PICK n \in 1 .. Len(busy) : vi = busy[n]
    BY <1>1, <1>4, Matches DEF Covered
  <2>2. m' = insert_into_busy_list(del_from_busy_list(m, busy[n]), busy[n])
    BY <1>2, <1>4, <2>1
  <2>3. Covered(m', free, Append(Without(busy, n), busy[n]), chain)
    BY <1>1, <2>2, CoversRefreshed
  <2> QED BY <1>2, <2>3 DEF Whole
<1> QED BY <1>3, <1>4

LEMMA InitWhole == Init => Whole(m) /\ broken = FALSE
  BY FreshWhole DEF Init, Whole

LEMMA NextKeeps ==
  ASSUME Whole(m), Next
  PROVE  Whole(m') /\ (Share <= Size => broken' = broken)
<1>1. ASSUME NEW e \in Inserted, insert(e[1], e[2]) PROVE Whole(m') /\ (Share <= Size => broken' = broken)
  <2>1. e[1] \in Signs /\ e[2] \in Values
    BY SignsAssumption
  <2> QED BY <1>1, <2>1, InsertKeeps
<1>2. ASSUME NEW sign \in Removed, remove(sign) PROVE Whole(m') /\ broken' = broken
  <2>1. sign \in Signs
    BY SignsAssumption
  <2> QED BY <1>2, <2>1, RemoveKeeps
<1>3. ASSUME NEW sign \in Sought, find(sign) PROVE Whole(m') /\ broken' = broken
  <2>1. sign \in Signs
    BY SignsAssumption
  <2> QED BY <1>3, <2>1, FindKeeps
<1> QED BY <1>1, <1>2, <1>3 DEF Next

LEMMA StaysWhole == Spec => []Whole(m)
<1>1. Whole(m) /\ [Next]_vars => Whole(m)'
  <2> SUFFICES ASSUME Whole(m), [Next]_vars PROVE Whole(m')
    OBVIOUS
  <2>1. CASE Next
    BY <2>1, NextKeeps
  <2>2. CASE UNCHANGED vars
    BY <2>2 DEF vars
  <2> QED BY <2>1, <2>2
<1> QED BY <1>1, InitWhole, PTL DEF Spec

LEMMA WholeHolds ==
  ASSUME NEW c, Whole(c)
  PROVE  ListsPartitionSlots(c) /\ ChainsHoldBusySlots(c)
  BY CoveredWhole DEF Whole

(* For any number of slots and any keys: after every history of insert,    *)
(* remove, find and reclaim each slot is on the free list or on the busy   *)
(* list, once, both lists read the same in both directions, and            *)
(* free_list_size counts the free one.                                     *)
THEOREM ListsStayWhole == Spec => []ListsWhole
<1>1. Whole(m) => ListsWhole
  BY WholeHolds DEF ListsWhole
<1> QED BY <1>1, StaysWhole, PTL

(* The chain of a bucket holds the busy slots whose key hashes there, each *)
(* once, with prev links that mirror the next links.                       *)
THEOREM ChainsStayWhole == Spec => []ChainsWhole
<1>1. Whole(m) => ChainsWhole
  BY WholeHolds DEF ChainsWhole
<1> QED BY <1>1, StaysWhole, PTL

(* insert never goes on with slot -1, if the share that reclaim replaces   *)
(* is at least one slot (the code divides by ten: a cache of ten or more). *)
THEOREM RoomIsMade ==
  ASSUME Share <= Size
  PROVE  Spec => []NeverOutOfSlots
<1>1. Whole(m) /\ NeverOutOfSlots /\ [Next]_vars => NeverOutOfSlots'
  <2> SUFFICES ASSUME Whole(m), NeverOutOfSlots, [Next]_vars PROVE ~broken'
    BY DEF NeverOutOfSlots
  <2>1. CASE Next
    <3>1. broken' = broken
      BY <2>1, NextKeeps
    <3> QED BY <3>1, Zenon DEF NeverOutOfSlots
  <2>2. CASE UNCHANGED vars
    BY <2>2, Zenon DEF vars, NeverOutOfSlots
  <2> QED BY <2>1, <2>2
<1>2. Init => NeverOutOfSlots
  BY Zenon DEF Init, NeverOutOfSlots
<1> QED BY <1>1, <1>2, StaysWhole, PTL DEF Spec
-----------------------------------------------------------------------------
(* The refinement.  The entries of the map are those of the busy slots. *)
Pairs == Signs \X (Values \cup {NoValue})

Pair(c, p) == <<c.sign[p], c.value[p]>>

View(c, busy) == [i \in 1 .. Len(busy) |-> Pair(c, busy[i])]

LEMMA ViewFacts ==
  ASSUME NEW c, NEW free, NEW busy, NEW chain, Covered(c, free, busy, chain)
  PROVE  /\ View(c, busy) \in Seq(Pairs)
         /\ Len(View(c, busy)) = Len(busy)
         /\ \A i \in 1 .. Len(busy) : View(c, busy)[i] = Pair(c, busy[i])
<1>1. Typed(c) /\ Member(c, busy, chain) /\ busy \in Lists
  BY DEF Covered, Layout, LinkPart
<1>2. \A i \in 1 .. Len(busy) : Pair(c, busy[i]) \in Pairs
  <2> SUFFICES ASSUME NEW i \in 1 .. Len(busy) PROVE Pair(c, busy[i]) \in Pairs
    OBVIOUS
  <2>1. busy[i] \in Range(busy) /\ busy[i] \in Slots
    BY <1>1, ListFacts
  <2>2. c.sign[busy[i]] \in Signs /\ c.value[busy[i]] \in Values \cup {NoValue}
    BY <1>1, <2>1 DEF Member, Typed
  <2> QED BY <2>2 DEF Pair, Pairs
<1>3. Len(busy) \in Nat
  BY <1>1, ListFacts
<1>4. View(c, busy) \in [1 .. Len(busy) -> Pairs]
  BY <1>2 DEF View
<1> HIDE DEF Pairs, Pair
<1>5. View(c, busy) \in Seq(Pairs) /\ Len(View(c, busy)) = Len(busy)
  BY <1>3, <1>4
<1> QED BY <1>5 DEF View

LEMMA EntriesAre ==
  ASSUME NEW free, NEW busy, NEW chain
  PROVE  /\ Covered(m, free, busy, chain) => Entries = View(m, busy)
         /\ Covered(m', free, busy, chain) => Entries' = View(m', busy)
<1>1. ASSUME NEW c, Covered(c, free, busy, chain)
      PROVE  Busy(c) = busy /\ DOMAIN busy = 1 .. Len(busy)
  <2>1. Typed(c) /\ LinkPart(c, free, busy) /\ busy \in Lists
    BY <1>1 DEF Covered, Layout, LinkPart
  <2> QED BY <2>1, WalksOf, ListFacts
<1>2. Covered(m, free, busy, chain) => Entries = View(m, busy)
  <2> SUFFICES ASSUME Covered(m, free, busy, chain) PROVE Entries = View(m, busy)
    OBVIOUS
  <2>1. Busy(m) = busy /\ DOMAIN busy = 1 .. Len(busy)
    BY <1>1
  <2> QED BY <2>1 DEF Entries, View, Pair
<1>3. Covered(m', free, busy, chain) => Entries' = View(m', busy)
  <2> SUFFICES ASSUME Covered(m', free, busy, chain) PROVE Entries' = View(m', busy)
    OBVIOUS
  <2>1. Busy(m') = busy /\ DOMAIN busy = 1 .. Len(busy)
    BY <1>1
  <2> QED BY <2>1 DEF Entries, View, Pair
<1> QED BY <1>2, <1>3

LEMMA RemoveAtIs ==
  ASSUME NEW S, NEW e \in Seq(S), NEW n \in 1 .. Len(e)
  PROVE  /\ RemoveAt(e, n) \in Seq(S) /\ Len(RemoveAt(e, n)) = Len(e) - 1
         /\ \A k \in 1 .. Len(e) - 1 : RemoveAt(e, n)[k] = IF k < n THEN e[k] ELSE e[k + 1]
<1> DEFINE a == SubSeq(e, 1, n - 1)
           b == SubSeq(e, n + 1, Len(e))
<1>0. Len(e) \in Nat /\ n \in Int /\ \A k \in 1 .. Len(e) : e[k] \in S
  OBVIOUS
<1>1. /\ a \in Seq(S) /\ Len(a) = n - 1 /\ \A k \in 1 .. n - 1 : a[k] = e[k]
  <2>1. 1 \in Int /\ n - 1 \in Int /\ \A k \in 1 .. n - 1 : e[k] \in S
    BY <1>0
  <2>2. /\ a \in Seq(S) /\ Len(a) = IF 1 <= n - 1 THEN n - 1 - 1 + 1 ELSE 0
        /\ \A k \in 1 .. n - 1 - 1 + 1 : a[k] = e[1 + k - 1]
    BY <2>1, SubSeqProperties
  <2> HIDE DEF a
  <2>3. n - 1 - 1 + 1 = n - 1 /\ \A k \in 1 .. n - 1 : 1 + k - 1 = k
    BY <1>0
  <2> QED BY <1>0, <2>2, <2>3
<1>2. /\ b \in Seq(S) /\ Len(b) = Len(e) - n /\ \A k \in 1 .. Len(e) - n : b[k] = e[n + k]
  <2>1. n + 1 \in Int /\ Len(e) \in Int /\ \A k \in n + 1 .. Len(e) : e[k] \in S
    BY <1>0
  <2>2. /\ b \in Seq(S) /\ Len(b) = IF n + 1 <= Len(e) THEN Len(e) - (n + 1) + 1 ELSE 0
        /\ \A k \in 1 .. Len(e) - (n + 1) + 1 : b[k] = e[n + 1 + k - 1]
    BY <2>1, SubSeqProperties
  <2> HIDE DEF b
  <2>3. Len(e) - (n + 1) + 1 = Len(e) - n /\ \A k \in 1 .. Len(e) - n : n + 1 + k - 1 = n + k
    BY <1>0
  <2>4. (IF n + 1 <= Len(e) THEN Len(e) - (n + 1) + 1 ELSE 0) = Len(e) - n
    BY <1>0
  <2>5. Len(b) = Len(e) - n
    BY <2>2, <2>4
  <2>6. \A k \in 1 .. Len(e) - n : b[k] = e[n + k]
    BY <2>2, <2>3
  <2> QED BY <2>2, <2>5, <2>6
<1> HIDE DEF a, b
<1>3. /\ a \o b \in Seq(S) /\ Len(a \o b) = Len(e) - 1
      /\ \A k \in 1 .. Len(e) - 1 : (a \o b)[k] = IF k < n THEN a[k] ELSE b[k - (n - 1)]
  <2>1. a \in Seq(S) /\ b \in Seq(S) /\ Len(a) = n - 1 /\ Len(b) = Len(e) - n
    BY <1>1, <1>2
  <2>2. /\ a \o b \in Seq(S) /\ Len(a \o b) = Len(a) + Len(b)
        /\ \A k \in 1 .. Len(a) + Len(b) :
              (a \o b)[k] = IF k <= Len(a) THEN a[k] ELSE b[k - Len(a)]
    BY <2>1, ConcatProperties
  <2>3. n - 1 + (Len(e) - n) = Len(e) - 1 /\ \A k \in 1 .. Len(e) - 1 : k <= n - 1 <=> k < n
    BY <1>0
  <2>4. Len(a \o b) = Len(e) - 1
    BY <2>1, <2>2, <2>3
  <2>5. ASSUME NEW k \in 1 .. Len(e) - 1
        PROVE  (a \o b)[k] = IF k < n THEN a[k] ELSE b[k - (n - 1)]
    <3>1. k \in 1 .. Len(a) + Len(b)
      BY <2>1, <2>3
    <3>2. (a \o b)[k] = IF k <= n - 1 THEN a[k] ELSE b[k - (n - 1)]
      BY <2>1, <2>2, <3>1
    <3> QED BY <2>3, <3>2
  <2> QED BY <2>2, <2>4, <2>5
<1>4. ASSUME NEW k \in 1 .. Len(e) - 1
      PROVE  (a \o b)[k] = IF k < n THEN e[k] ELSE e[k + 1]
  <2>1. CASE k < n
    <3>1. k \in 1 .. n - 1
      BY <1>0, <2>1
    <3> QED BY <1>1, <1>3, <2>1, <3>1
  <2>2. CASE ~(k < n)
    <3>1. k - (n - 1) \in 1 .. Len(e) - n /\ n + (k - (n - 1)) = k + 1
      BY <1>0, <2>2
    <3> QED BY <1>2, <1>3, <2>2, <3>1
  <2> QED BY <2>1, <2>2
<1> QED BY <1>3, <1>4 DEF RemoveAt, a, b

(* A slot less on the busy list is an entry less. *)
LEMMA ViewWithout ==
  ASSUME NEW c, NEW free, NEW busy, NEW chain, Covered(c, free, busy, chain),
         NEW n \in 1 .. Len(busy),
         NEW d, d.sign = c.sign, d.value = c.value
  PROVE  View(d, Without(busy, n)) = RemoveAt(View(c, busy), n)
<1>1. /\ View(c, busy) \in Seq(Pairs) /\ Len(View(c, busy)) = Len(busy)
      /\ \A i \in 1 .. Len(busy) : View(c, busy)[i] = Pair(c, busy[i])
  BY ViewFacts
<1>2. busy \in Lists /\ Len(busy) \in Nat
  BY ListFacts DEF Covered, Layout, LinkPart
<1>3. /\ Len(Without(busy, n)) = Len(busy) - 1
      /\ \A k \in 1 .. Len(busy) - 1 : Without(busy, n)[k] = IF k < n THEN busy[k] ELSE busy[k + 1]
  BY <1>2, WithoutList
<1> DEFINE e == View(c, busy)
           r == RemoveAt(e, n)
           w == View(d, Without(busy, n))
<1>4. /\ r \in Seq(Pairs) /\ Len(r) = Len(busy) - 1
      /\ \A k \in 1 .. Len(busy) - 1 : r[k] = IF k < n THEN e[k] ELSE e[k + 1]
  <2> HIDE DEF e
  <2> QED BY <1>1, RemoveAtIs DEF e
<1>5. w = [k \in 1 .. Len(busy) - 1 |-> Pair(c, Without(busy, n)[k])]
  BY <1>3 DEF View, Pair
<1> HIDE DEF e, r, w
<1>6. ASSUME NEW k \in 1 .. Len(busy) - 1
      PROVE  Pair(c, Without(busy, n)[k]) = r[k]
  <2>1. k \in 1 .. Len(busy) /\ k + 1 \in 1 .. Len(busy)
    BY <1>2
  <2> QED BY <1>1, <1>3, <1>4, <2>1 DEF e
<1>7. r = [k \in 1 .. Len(busy) - 1 |-> r[k]]
  BY <1>4
<1>8. w = [k \in 1 .. Len(busy) - 1 |-> r[k]]
  BY <1>5, <1>6
<1> QED BY <1>7, <1>8 DEF w, r, e

(* A slot more is an entry more. *)
Added(s, x) == Append(s, x)

(* e is what c holds in the slots of busy. *)
Reads(e, c, busy) == /\ e \in Seq(Pairs) /\ Len(e) = Len(busy)
                     /\ \A i \in 1 .. Len(busy) : e[i] = Pair(c, busy[i])

(* c and d hold the same in the slots of S. *)
SameAt(c, d, S) == \A q \in S : d.sign[q] = c.sign[q] /\ d.value[q] = c.value[q]

LEMMA ViewAppend ==
  ASSUME NEW c, NEW d, NEW busy \in Lists, NEW p \in Slots, p \notin Range(busy),
         NEW e, Reads(e, c, busy), SameAt(c, d, Range(busy)), Pair(d, p) \in Pairs
  PROVE  View(d, Added(busy, p)) = Added(e, Pair(d, p))
<1>0. /\ e \in Seq(Pairs) /\ Len(e) = Len(busy)
      /\ \A i \in 1 .. Len(busy) : e[i] = Pair(c, busy[i])
      /\ \A q \in Range(busy) : d.sign[q] = c.sign[q] /\ d.value[q] = c.value[q]
  BY DEF Reads, SameAt
<1>1. /\ Len(Append(busy, p)) = Len(busy) + 1
      /\ \A k \in 1 .. Len(busy) : Append(busy, p)[k] = busy[k]
      /\ Append(busy, p)[Len(busy) + 1] = p
      /\ Len(busy) \in Nat
      /\ \A k \in 1 .. Len(busy) : busy[k] \in Range(busy)
  BY AppendList, ListFacts
<1> DEFINE t == Append(busy, p)
           a == Append(e, Pair(d, p))
           x == Pair(d, p)
<1> HIDE DEF t
<1>2. /\ a \in Seq(Pairs) /\ Len(a) = Len(busy) + 1
      /\ \A k \in 1 .. Len(busy) : a[k] = e[k]
      /\ a[Len(busy) + 1] = x
  <2> HIDE DEF x, Pairs
  <2> QED BY <1>0, <1>1 DEF x
<1> HIDE DEF a
<1>3. ASSUME NEW k \in 1 .. Len(busy) + 1 PROVE Pair(d, t[k]) = a[k]
  <2>1. CASE k \in 1 .. Len(busy)
    <3>1. t[k] = busy[k] /\ busy[k] \in Range(busy)
      BY <1>1, <2>1 DEF t
    <3>2. Pair(d, busy[k]) = Pair(c, busy[k])
      BY <1>0, <3>1 DEF Pair
    <3> QED BY <1>0, <1>2, <2>1, <3>1, <3>2
  <2>2. CASE k = Len(busy) + 1
    BY <1>1, <1>2, <2>2 DEF t
  <2> QED BY <1>1, <2>1, <2>2
<1>4. View(d, t) = [k \in 1 .. Len(busy) + 1 |-> Pair(d, t[k])]
  BY <1>1 DEF View, t
<1>5. a = [k \in 1 .. Len(busy) + 1 |-> a[k]]
  BY <1>2
<1>6. View(d, t) = [k \in 1 .. Len(busy) + 1 |-> a[k]]
  BY <1>3, <1>4
<1> QED BY <1>5, <1>6 DEF t, a, Added

(* The keys in use are told apart: none agrees with another in bucket and  *)
(* first word, the only ones that the code compares.                       *)
ToldApart == \A s, t \in Signs : Like(s, t) => s = t

(* No two entries are of one key. *)
Unlike(c, busy) == \A p, q \in Range(busy) : Like(c.sign[p], c.sign[q]) => p = q

(* The room that insert makes is the map without its first entries. *)
RoomOf(e) == IF Len(e) = Size THEN SubSeq(e, Size \div Share + 1, Size) ELSE e

LEMMA RoomMaps ==
  ASSUME NEW c, NEW free, NEW busy, NEW chain, Covered(c, free, busy, chain), Unlike(c, busy)
  PROVE  \E fr, bs, links :
            /\ Covered(Room(c), fr, bs, links) /\ Unlike(Room(c), bs)
            /\ (Share <= Size => Len(fr) > 0)
            /\ View(Room(c), bs) = RoomOf(View(c, busy))
<1> DEFINE n == IF c.free_list_size = 0 THEN Size \div Share ELSE 0
           d == Room(c)
           e == View(c, busy)
<1>1. /\ Len(busy) \in Nat /\ (c.free_list_size = 0 <=> Len(busy) = Size)
      /\ Size \div Share \in Nat /\ Size \div Share <= Size /\ Size \in Nat /\ n \in Nat
      /\ n <= Len(busy)
  BY FullWhen, Shares, CacheSizeAssumption
<1>2. /\ After(n, c, d, free, busy)
      /\ \A fr, bs, links : Covered(d, fr, bs, links) /\ Share <= Size => Len(fr) > 0
  BY MakesRoom
<1>3. /\ e \in Seq(Pairs) /\ Len(e) = Len(busy)
      /\ \A i \in 1 .. Len(busy) : e[i] = Pair(c, busy[i])
  BY ViewFacts
<1> HIDE DEF d, e
<1>4. PICK fr, bs, links :
         /\ Covered(d, fr, bs, links) /\ Len(bs) = Len(busy) - n
         /\ \A k \in 1 .. Len(busy) - n : bs[k] = busy[k + n]
  BY <1>2 DEF After
<1>5. d.sign = c.sign /\ d.value = c.value
  BY <1>2 DEF After
<1>6. Unlike(d, bs)
  <2>1. bs \in Lists /\ busy \in Lists
    BY <1>4 DEF Covered, Layout, LinkPart
  <2>2. /\ Range(bs) = {bs[k] : k \in 1 .. Len(bs)}
        /\ Range(busy) = {busy[k] : k \in 1 .. Len(busy)}
    BY <2>1, ListFacts
  <2>3. \A k \in 1 .. Len(bs) : k + n \in 1 .. Len(busy) /\ bs[k] = busy[k + n]
    BY <1>1, <1>4
  <2>4. Range(bs) \subseteq Range(busy)
    BY <2>2, <2>3
  <2> QED BY <1>5, <2>4 DEF Unlike
<1>7. View(d, bs) = [k \in 1 .. Len(busy) - n |-> e[k + n]]
  <2>1. \A k \in 1 .. Len(busy) - n : k + n \in 1 .. Len(busy)
    BY <1>1
  <2> HIDE DEF n
  <2>2. ASSUME NEW k \in 1 .. Len(busy) - n PROVE Pair(d, bs[k]) = e[k + n]
    BY <1>3, <1>4, <1>5, <2>1 DEF Pair
  <2>3. View(d, bs) = [k \in 1 .. Len(busy) - n |-> Pair(d, bs[k])]
    BY <1>4 DEF View
  <2> QED BY <2>2, <2>3
<1>8. RoomOf(e) = [k \in 1 .. Len(busy) - n |-> e[k + n]]
  <2>1. CASE Len(busy) = Size
    <3>1. n = Size \div Share /\ RoomOf(e) = SubSeq(e, n + 1, Size)
      BY <1>1, <1>3, <2>1 DEF RoomOf
    <3> HIDE DEF n
    <3>2. n + 1 \in Int /\ Size \in Int /\ \A k \in n + 1 .. Size : e[k] \in Pairs
      <4>1. \A k \in n + 1 .. Size : k \in 1 .. Len(e)
        BY <1>1, <1>3, <2>1
      <4> QED BY <1>1, <1>3, <4>1
    <3> DEFINE r == SubSeq(e, n + 1, Size)
    <3>3. /\ r \in Seq(Pairs) /\ Len(r) = IF n + 1 <= Size THEN Size - (n + 1) + 1 ELSE 0
          /\ \A k \in 1 .. Size - (n + 1) + 1 : r[k] = e[n + 1 + k - 1]
      BY <3>2, SubSeqProperties
    <3> HIDE DEF r
    <3>4. /\ (IF n + 1 <= Size THEN Size - (n + 1) + 1 ELSE 0) = Size - n
          /\ Size - (n + 1) + 1 = Size - n
          /\ \A k \in 1 .. Size - n : n + 1 + k - 1 = k + n
      BY <1>1, <2>1
    <3>5. Len(r) = Size - n /\ \A k \in 1 .. Size - n : r[k] = e[k + n]
      BY <3>3, <3>4
    <3>6. r = [k \in 1 .. Size - n |-> r[k]]
      BY <3>3, <3>5
    <3>7. r = [k \in 1 .. Size - n |-> e[k + n]]
      BY <3>5, <3>6
    <3> QED BY <2>1, <3>1, <3>7 DEF r
  <2>2. CASE Len(busy) # Size
    <3>1. n = 0 /\ RoomOf(e) = e
      BY <1>1, <1>3, <2>2 DEF RoomOf
    <3> HIDE DEF n
    <3>2. Len(busy) - n = Len(busy) /\ \A k \in 1 .. Len(busy) : k + n = k
      BY <1>1, <3>1
    <3>3. e = [k \in 1 .. Len(busy) |-> e[k]]
      BY <1>3
    <3>4. [k \in 1 .. Len(busy) |-> e[k]] = [k \in 1 .. Len(busy) - n |-> e[k + n]]
      BY <3>2
    <3> QED BY <3>1, <3>3, <3>4
  <2> QED BY <2>1, <2>2
<1> HIDE DEF n
<1>9. View(d, bs) = RoomOf(e)
  BY <1>7, <1>8
<1> QED BY <1>2, <1>4, <1>6, <1>9 DEF d, e

(* The entry that the code finds for a key is the one of the map. *)
LEMMA MatchMaps ==
  ASSUME NEW c, NEW free, NEW busy, NEW chain, Covered(c, free, busy, chain),
         Unlike(c, busy), ToldApart, NEW sign \in Signs
  PROVE  \/ /\ Match(c, sign) = Nil
            /\ Abstract!Positions(View(c, busy), sign) = {}
         \/ /\ Match(c, sign) # Nil
            /\ \E n \in 1 .. Len(busy) :
                 /\ Match(c, sign) = busy[n] /\ c.sign[busy[n]] = sign
                 /\ Abstract!Positions(View(c, busy), sign) = {n}
<1> DEFINE e == View(c, busy)
<1>1. /\ e \in Seq(Pairs) /\ Len(e) = Len(busy)
      /\ \A i \in 1 .. Len(busy) : e[i] = Pair(c, busy[i])
  BY ViewFacts
<1>2. Layout(c, free, busy, chain) /\ busy \in Lists /\ Member(c, busy, chain)
  BY DEF Covered, Layout, LinkPart
<1>3. /\ \A i \in 1 .. Len(busy) : busy[i] \in Range(busy) /\ c.sign[busy[i]] \in Signs
      /\ \A i, j \in 1 .. Len(busy) : busy[i] = busy[j] => i = j
  BY <1>2, ListFacts DEF Member
<1> HIDE DEF e
<1>4. Abstract!Positions(e, sign) = {i \in 1 .. Len(busy) : c.sign[busy[i]] = sign}
  <2>1. DOMAIN e = 1 .. Len(busy)
    BY <1>1
  <2>2. \A i \in 1 .. Len(busy) : e[i][1] = c.sign[busy[i]]
    BY <1>1 DEF Pair
  <2> QED BY <2>1, <2>2 DEF Abstract!Positions
<1>5. Like(sign, sign)
  BY DEF Like
<1>6. CASE Match(c, sign) = Nil
  <2>1. \A n \in 1 .. Len(busy) : ~Like(c.sign[busy[n]], sign)
    BY <1>2, <1>6, Matches
  <2>2. Abstract!Positions(e, sign) = {}
    BY <1>4, <1>5, <2>1
  <2> QED BY <1>6, <2>2 DEF e
<1>7. CASE Match(c, sign) # Nil
  <2>1. PICK n \in 1 .. Len(busy) : Match(c, sign) = busy[n] /\ Like(c.sign[busy[n]], sign)
    BY <1>2, <1>7, Matches
  <2>2. c.sign[busy[n]] = sign
    BY <1>3, <2>1 DEF ToldApart
  <2>3. \A i \in 1 .. Len(busy) : c.sign[busy[i]] = sign => i = n
    <3> SUFFICES ASSUME NEW i \in 1 .. Len(busy), c.sign[busy[i]] = sign PROVE i = n
      OBVIOUS
    <3>1. Like(c.sign[busy[i]], c.sign[busy[n]])
      BY <1>5, <2>2
    <3>2. busy[i] = busy[n]
      BY <1>3, <3>1 DEF Unlike
    <3> QED BY <1>3, <3>2
  <2>4. Abstract!Positions(e, sign) = {n}
    BY <1>4, <2>2, <2>3
  <2> QED BY <1>7, <2>1, <2>2, <2>4 DEF e
<1> QED BY <1>6, <1>7

(* The inductive invariant of the refinement. *)
Told(c) == \E free, busy, chain : Covered(c, free, busy, chain) /\ Unlike(c, busy)

LEMMA RevaluedMaps ==
  ASSUME NEW c, NEW free, NEW busy, NEW chain, Covered(c, free, busy, chain), Unlike(c, busy),
         NEW n \in 1 .. Len(busy), NEW v \in Values, NEW sign \in Signs, c.sign[busy[n]] = sign,
         NEW e, e = View(c, busy), Abstract!Positions(e, sign) = {n},
         NEW d, d = Revalued(c, busy[n], v)
  PROVE  /\ Covered(d, free, busy, chain) /\ Unlike(d, busy)
         /\ View(d, busy) = [i \in DOMAIN e |-> IF e[i][1] = sign THEN <<sign, v>> ELSE e[i]]
<1> DEFINE p == busy[n]
<1>0. Typed(c) /\ busy \in Lists
  BY DEF Covered, Layout, LinkPart
<1>1. /\ busy[n] \in Slots
      /\ \A i \in 1 .. Len(busy) : busy[i] = busy[n] => i = n
      /\ \A i \in 1 .. Len(busy) : busy[i] \in Slots
  BY <1>0, ListFacts
<1>2. /\ Covered(d, free, busy, chain)
      /\ d.sign = c.sign /\ d.value = [c.value EXCEPT ![busy[n]] = v]
  <2>1. /\ Covered(c, free, busy, chain) /\ v \in Values
        /\ p \in Slots /\ d = Revalued(c, p, v)
    BY <1>1 DEF p
  <2> HIDE DEF p
  <2>2. Covered(d, free, busy, chain) /\ d.sign = c.sign /\ d.value = [c.value EXCEPT ![p] = v]
    BY <2>1, CoversRevalued
  <2> QED BY <2>2 DEF p
<1>3. DOMAIN e = 1 .. Len(busy) /\ \A i \in 1 .. Len(busy) : e[i] = <<c.sign[busy[i]], c.value[busy[i]]>>
  BY DEF View, Pair
<1>4. c.value \in [Slots -> Values \cup {NoValue}]
  BY <1>0 DEF Typed
<1> HIDE DEF p
<1>5. Unlike(d, busy)
  BY <1>2 DEF Unlike
<1>6. \A i \in 1 .. Len(busy) : e[i][1] = sign <=> i = n
  <2>1. {i \in 1 .. Len(busy) : e[i][1] = sign} = {n}
    BY <1>3 DEF Abstract!Positions
  <2> QED BY <2>1
<1>7. ASSUME NEW i \in 1 .. Len(busy)
      PROVE  <<d.sign[busy[i]], d.value[busy[i]]>> = IF e[i][1] = sign THEN <<sign, v>> ELSE e[i]
  <2>1. CASE i = n
    BY <1>1, <1>2, <1>4, <1>6, <2>1
  <2>2. CASE i # n
    <3>1. d.value[busy[i]] = c.value[busy[i]]
      BY <1>1, <1>2, <1>4, <2>2
    <3> QED BY <1>2, <1>3, <1>6, <2>2, <3>1
  <2> QED BY <2>1, <2>2
<1>8. View(d, busy) = [i \in 1 .. Len(busy) |-> <<d.sign[busy[i]], d.value[busy[i]]>>]
  BY DEF View, Pair
<1>9. View(d, busy) = [i \in 1 .. Len(busy) |-> IF e[i][1] = sign THEN <<sign, v>> ELSE e[i]]
  BY ONLY <1>7, <1>8
<1> QED BY <1>2, <1>3, <1>5, <1>9

LEMMA PlacedMaps ==
  ASSUME NEW c, NEW free, NEW busy, NEW chain, Covered(c, free, busy, chain), Unlike(c, busy),
         ToldApart, Len(free) > 0, NEW v \in Values, NEW sign \in Signs,
         NEW e, e = View(c, busy), Abstract!Positions(e, sign) = {},
         NEW d, d = Placed(c, sign, v)
  PROVE  \E f, b, l : /\ Covered(d, f, b, l) /\ Unlike(d, b)
                      /\ View(d, b) = Added(e, <<sign, v>>)
<1> DEFINE p == free[1]
<1>0. Typed(c) /\ busy \in Lists /\ Member(c, busy, chain)
  BY DEF Covered, Layout, LinkPart
<1>1. /\ \E links : Covered(d, Without(free, 1), Append(busy, p), links)
      /\ p \in Slots /\ p \notin Range(busy)
      /\ d.sign = [c.sign EXCEPT ![p] = sign]
      /\ d.value = [c.value EXCEPT ![p] = v]
  BY CoversPlaced
<1>2. PICK links : Covered(d, Without(free, 1), Append(busy, p), links)
  BY <1>1
<1>3. /\ e \in Seq(Pairs) /\ Len(e) = Len(busy)
      /\ \A i \in 1 .. Len(busy) : e[i] = Pair(c, busy[i])
  BY ViewFacts
<1>4. /\ DOMAIN c.sign = Slots /\ DOMAIN c.value = Slots
  BY <1>0 DEF Typed
<1> HIDE DEF p
<1>5. /\ d.sign[p] = sign /\ d.value[p] = v
      /\ \A q \in Range(busy) : d.sign[q] = c.sign[q] /\ d.value[q] = c.value[q]
  <2>1. \A q \in Range(busy) : q \in Slots /\ q # p
    BY <1>0, <1>1, ListFacts
  <2> QED BY <1>1, <1>4, <2>1
<1>6. Pair(d, p) = <<sign, v>> /\ Pair(d, p) \in Pairs
  BY <1>5 DEF Pair, Pairs
<1>7. View(d, Added(busy, p)) = Added(e, Pair(d, p))
  <2>1. busy \in Lists /\ p \in Slots /\ p \notin Range(busy)
    BY <1>0, <1>1
  <2>2. Reads(e, c, busy) /\ SameAt(c, d, Range(busy))
    BY <1>3, <1>5 DEF Reads, SameAt
  <2> QED BY <1>6, <2>1, <2>2, ViewAppend
<1>8. \A q \in Range(busy) : c.sign[q] # sign /\ c.sign[q] \in Signs
  <2>1. Range(busy) = {busy[i] : i \in 1 .. Len(busy)}
    BY <1>0, ListFacts
  <2>2. DOMAIN e = 1 .. Len(busy) /\ \A i \in 1 .. Len(busy) : e[i][1] = c.sign[busy[i]]
    BY <1>3 DEF Pair
  <2>3. \A i \in 1 .. Len(busy) : c.sign[busy[i]] # sign
    BY <2>2 DEF Abstract!Positions
  <2> QED BY <1>0, <2>1, <2>3 DEF Member
<1>9. Unlike(d, Append(busy, p))
  <2>1. Range(Append(busy, p)) = Range(busy) \cup {p}
    BY <1>0, <1>1, AppendList
  <2>2. SUFFICES ASSUME NEW q \in Range(busy) \cup {p}, NEW r \in Range(busy) \cup {p},
                        Like(d.sign[q], d.sign[r])
                 PROVE  q = r
    BY <2>1 DEF Unlike
  <2>3. \A s, t : Like(s, t) => Like(t, s)
    BY DEF Like
  <2>4. CASE q \in Range(busy) /\ r \in Range(busy)
    BY <1>5, <2>2, <2>4 DEF Unlike
  <2>5. CASE q \in Range(busy) /\ r = p
    BY <1>5, <1>8, <2>2, <2>5 DEF ToldApart
  <2>6. CASE q = p /\ r \in Range(busy)
    BY <1>5, <1>8, <2>2, <2>3, <2>6 DEF ToldApart
  <2> QED BY <2>2, <2>4, <2>5, <2>6
<1> QED BY <1>2, <1>6, <1>7, <1>9 DEF p, Added

LEMMA InsertMaps ==
  ASSUME NEW sign \in Signs, NEW v \in Values, Told(m), ToldApart, Share <= Size,
         insert(sign, v)
  PROVE  Told(m') /\ Abstract!insert(sign, v)
<1>1. PICK free, busy, chain : Covered(m, free, busy, chain) /\ Unlike(m, busy)
  BY DEF Told
<1> DEFINE c == Room(m)
           vi == Match(c, sign)
<1>2. PICK fr, bs, links :
         /\ Covered(c, fr, bs, links) /\ Unlike(c, bs) /\ Len(fr) > 0
         /\ View(c, bs) = RoomOf(View(m, busy))
  BY <1>1, RoomMaps
<1>3. c.free_list.next # Nil
  BY <1>2, FullWhen
<1>4. /\ found' = <<>>
      /\ \/ vi # Nil /\ m' = [c EXCEPT !.value[vi] = v]
         \/ vi = Nil /\ m' = Placed(c, sign, v)
  BY <1>3 DEF insert, Room
<1> HIDE DEF c
<1> DEFINE e == View(c, bs)
<1>5. Entries = View(m, busy) /\ e = RoomOf(Entries)
  BY <1>1, <1>2, EntriesAre
<1>6. SUFFICES \E f, b, l :
         /\ Covered(m', f, b, l) /\ Unlike(m', b)
         /\ View(m', b) = IF Abstract!Positions(e, sign) = {} THEN Append(e, <<sign, v>>)
                          ELSE [i \in DOMAIN e |-> IF e[i][1] = sign THEN <<sign, v>> ELSE e[i]]
  <2>1. PICK f, b, l :
         /\ Covered(m', f, b, l) /\ Unlike(m', b)
         /\ View(m', b) = IF Abstract!Positions(e, sign) = {} THEN Append(e, <<sign, v>>)
                          ELSE [i \in DOMAIN e |-> IF e[i][1] = sign THEN <<sign, v>> ELSE e[i]]
    BY <1>6
  <2>2. Entries' = View(m', b)
    BY <2>1, EntriesAre
  <2> HIDE DEF e, vi
  <2>3. Abstract!insert(sign, v)
    BY <1>4, <1>5, <2>1, <2>2 DEF Abstract!insert, RoomOf
  <2> QED BY <2>1, <2>3 DEF Told
<1>7. CASE vi = Nil
  <2>1. Abstract!Positions(e, sign) = {}
    BY <1>2, <1>7, MatchMaps
  <2>2. m' = Placed(c, sign, v)
    BY <1>4, <1>7
  <2>3. \E f, b, l : /\ Covered(m', f, b, l) /\ Unlike(m', b)
                     /\ View(m', b) = Added(e, <<sign, v>>)
    <3>1. /\ Covered(c, fr, bs, links) /\ Unlike(c, bs) /\ Len(fr) > 0 /\ ToldApart
          /\ sign \in Signs /\ v \in Values /\ e = View(c, bs)
      BY <1>2
    <3> HIDE DEF e
    <3> QED BY ONLY <2>1, <2>2, <3>1, PlacedMaps
  <2> HIDE DEF e
  <2> QED BY <2>1, <2>3 DEF Added
<1>8. CASE vi # Nil
  <2>1. PICK n \in 1 .. Len(bs) : /\ vi = bs[n] /\ c.sign[bs[n]] = sign
                                  /\ Abstract!Positions(e, sign) = {n}
    BY <1>2, <1>8, MatchMaps
  <2>2. m' = Revalued(c, bs[n], v)
    BY <1>4, <1>8, <2>1 DEF Revalued
  <2>3. /\ Covered(m', fr, bs, links) /\ Unlike(m', bs)
        /\ View(m', bs) = [i \in DOMAIN e |-> IF e[i][1] = sign THEN <<sign, v>> ELSE e[i]]
    BY <1>2, <2>1, <2>2, RevaluedMaps
  <2> HIDE DEF e
  <2> QED BY <2>1, <2>3
<1> QED BY <1>7, <1>8

LEMMA UnlikeFewer ==
  ASSUME NEW c, NEW d, NEW busy, NEW rest, Unlike(c, busy),
         Range(rest) \subseteq Range(busy), d.sign = c.sign
  PROVE  Unlike(d, rest)
  BY DEF Unlike

LEMMA SameRemoveAt == \A e, i : Abstract!RemoveAt(e, i) = RemoveAt(e, i)
  BY DEF Abstract!RemoveAt, RemoveAt

LEMMA RemoveMaps ==
  ASSUME NEW sign \in Signs, Told(m), ToldApart, remove(sign)
  PROVE  Told(m') /\ Abstract!remove(sign)
<1>1. PICK free, busy, chain : Covered(m, free, busy, chain) /\ Unlike(m, busy)
  BY DEF Told
<1>2. Entries = View(m, busy)
  BY <1>1, EntriesAre
<1> DEFINE vi == Match(m, sign)
<1>3. /\ m' = IF vi = Nil THEN m ELSE Released(m, index(sign), vi)
      /\ found' = <<>>
  BY DEF remove, Released
<1>4. CASE vi = Nil
  <2>1. Abstract!Positions(Entries, sign) = {}
    BY <1>1, <1>2, <1>4, MatchMaps
  <2>2. m' = m
    BY <1>3, <1>4
  <2>3. Entries' = View(m', busy)
    BY <1>1, <2>2, EntriesAre
  <2>4. Entries' = Entries
    BY <1>2, <2>2, <2>3
  <2>5. Told(m')
    BY <1>1, <2>2 DEF Told
  <2>6. Abstract!remove(sign)
    BY <1>3, <2>1, <2>4 DEF Abstract!remove
  <2> QED BY <2>5, <2>6
<1>5. CASE vi # Nil
  <2>1. PICK n \in 1 .. Len(busy) : /\ vi = busy[n] /\ m.sign[busy[n]] = sign
                                    /\ Abstract!Positions(View(m, busy), sign) = {n}
    BY <1>1, <1>5, MatchMaps
  <2>2. m' = Released(m, index(m.sign[busy[n]]), busy[n])
    BY <1>3, <1>5, <2>1
  <2>3. /\ m'.sign = m.sign /\ m'.value = m.value
        /\ \E links : Covered(m', Append(free, busy[n]), Without(busy, n), links)
    BY <1>1, <2>2, CoversReleased
  <2>4. busy \in Lists
    BY <1>1 DEF Covered, Layout, LinkPart
  <2>5. Range(Without(busy, n)) \subseteq Range(busy)
    BY <2>4, WithoutList
  <2>6. Unlike(m', Without(busy, n))
    BY <1>1, <2>3, <2>5, UnlikeFewer
  <2>7. View(m', Without(busy, n)) = RemoveAt(View(m, busy), n)
    BY <1>1, <2>3, ViewWithout
  <2>8. Entries' = View(m', Without(busy, n))
    BY <2>3, EntriesAre
  <2>9. n \in Abstract!Positions(Entries, sign) /\ Entries' = RemoveAt(Entries, n)
    BY <1>2, <2>1, <2>7, <2>8
  <2>10. Abstract!remove(sign)
    <3>1. \E i \in Abstract!Positions(Entries, sign) : Entries' = Abstract!RemoveAt(Entries, i)
      BY <2>9, SameRemoveAt, Zenon
    <3> QED BY <1>3, <3>1, Zenon DEF Abstract!remove
  <2> QED BY <2>3, <2>6, <2>10 DEF Told
<1> QED BY <1>4, <1>5

LEMMA FindMaps ==
  ASSUME NEW sign \in Signs, Told(m), ToldApart, find(sign)
  PROVE  Told(m') /\ Abstract!find(sign)
<1>1. PICK free, busy, chain : Covered(m, free, busy, chain) /\ Unlike(m, busy)
  BY DEF Told
<1>2. Entries = View(m, busy)
  BY <1>1, EntriesAre
<1> DEFINE vi == Match(m, sign)
<1>3. /\ m' = IF vi = Nil THEN m ELSE insert_into_busy_list(del_from_busy_list(m, vi), vi)
      /\ found' = IF vi = Nil THEN <<sign>> ELSE <<sign, m.value[vi]>>
  BY DEF find
<1>4. CASE vi = Nil
  <2>1. Abstract!Positions(Entries, sign) = {}
    BY <1>1, <1>2, <1>4, MatchMaps
  <2>2. m' = m /\ found' = <<sign>>
    BY <1>3, <1>4
  <2>3. Entries' = View(m', busy)
    BY <1>1, <2>2, EntriesAre
  <2>4. Entries' = Entries
    BY <1>2, <2>2, <2>3
  <2>5. Told(m')
    BY <1>1, <2>2 DEF Told
  <2>6. Abstract!find(sign)
    BY <2>1, <2>2, <2>4 DEF Abstract!find
  <2> QED BY <2>5, <2>6
<1>5. CASE vi # Nil
  <2>1. PICK n \in 1 .. Len(busy) : /\ vi = busy[n] /\ m.sign[busy[n]] = sign
                                    /\ Abstract!Positions(View(m, busy), sign) = {n}
    BY <1>1, <1>5, MatchMaps
  <2> DEFINE p == busy[n]
             w == Without(busy, n)
             e == View(m, busy)
             x == Pair(m, p)
  <2>2. /\ m' = insert_into_busy_list(del_from_busy_list(m, p), p)
        /\ found' = <<sign, m.value[p]>>
    BY <1>3, <1>5, <2>1
  <2>3. /\ Covered(m', free, Append(w, p), chain)
        /\ m'.sign = m.sign /\ m'.value = m.value
    BY <1>1, <2>2, CoversRefreshed
  <2>4. /\ busy \in Lists /\ p \in Slots /\ p \in Range(busy) /\ m.sign[p] = sign
    <3>1. busy \in Lists
      BY <1>1 DEF Covered, Layout, LinkPart
    <3> QED BY <2>1, <3>1, ListFacts
  <2>5. /\ w \in Lists /\ p \notin Range(w) /\ Range(w) = Range(busy) \ {p}
        /\ Len(w) = Len(busy) - 1
    BY <2>4, WithoutList
  <2>6. View(m', w) = RemoveAt(e, n)
    BY <1>1, <2>3, ViewWithout
  <2>7. e \in Seq(Pairs) /\ Len(e) = Len(busy) /\ e[n] = x
    BY <1>1, ViewFacts
  <2>8. x = <<sign, m.value[p]>> /\ Pair(m', p) = x
    BY <2>3, <2>4 DEF Pair
  <2>9. x \in Pairs
    <3> HIDE DEF e, x
    <3>1. n \in 1 .. Len(e)
      BY <2>7
    <3> QED BY <2>7, <3>1
  <2> HIDE DEF p, w, e, x, Pairs
  <2>10. Reads(RemoveAt(e, n), m', w)
    <3>1. n \in 1 .. Len(e) /\ e \in Seq(Pairs)
      BY <2>7
    <3>2. RemoveAt(e, n) \in Seq(Pairs) /\ Len(RemoveAt(e, n)) = Len(w)
      BY <2>5, <2>7, <3>1, RemoveAtIs
    <3>3. \A i \in 1 .. Len(w) : View(m', w)[i] = Pair(m', w[i])
      BY DEF View
    <3> QED BY <2>6, <3>2, <3>3 DEF Reads
  <2>11. SameAt(m', m', Range(w))
    BY DEF SameAt
  <2>12. View(m', Added(w, p)) = Added(RemoveAt(e, n), x)
    <3>1. Pair(m', p) \in Pairs
      BY <2>8, <2>9
    <3> DEFINE r == RemoveAt(e, n)
    <3> HIDE DEF r
    <3>2. Reads(r, m', w)
      BY <2>10 DEF r
    <3>3. View(m', Added(w, p)) = Added(r, Pair(m', p))
      <4>1. PICK d : d = m'
        OBVIOUS
      <4>2. /\ w \in Lists /\ p \in Slots /\ p \notin Range(w)
            /\ Reads(r, d, w) /\ SameAt(d, d, Range(w)) /\ Pair(d, p) \in Pairs
        BY <2>4, <2>5, <2>11, <3>1, <3>2, <4>1
      <4>3. View(d, Added(w, p)) = Added(r, Pair(d, p))
        BY <4>2, ViewAppend
      <4> QED BY <4>1, <4>3
    <3> QED BY <2>8, <3>3 DEF r
  <2>13. Entries' = View(m', Added(w, p))
    BY <2>3, EntriesAre DEF Added
  <2>14. Unlike(m', Added(w, p))
    <3>1. Range(Append(w, p)) = Range(w) \cup {p}
      BY <2>4, <2>5, AppendList
    <3>2. Range(Added(w, p)) \subseteq Range(busy)
      BY <2>4, <2>5, <3>1 DEF Added
    <3> QED BY <1>1, <2>3, <3>2, UnlikeFewer
  <2>15. /\ n \in Abstract!Positions(Entries, sign)
         /\ Entries' = Append(RemoveAt(Entries, n), Entries[n]) /\ found' = Entries[n]
    BY <1>2, <2>1, <2>2, <2>7, <2>8, <2>12, <2>13 DEF Added, e
  <2>16. Abstract!find(sign)
    <3>1. \E i \in Abstract!Positions(Entries, sign) :
             /\ found' = Entries[i]
             /\ Entries' = Append(Abstract!RemoveAt(Entries, i), Entries[i])
      BY <2>15, SameRemoveAt, Zenon
    <3> QED BY <3>1, Zenon DEF Abstract!find
  <2>17. Told(m')
    BY <2>3, <2>14 DEF Told, Added
  <2> QED BY <2>16, <2>17
<1> QED BY <1>4, <1>5

(* While the cache is what the code takes it for, each of its operations   *)
(* is the operation of the map: insert makes room at a full cache by       *)
(* taking the first Size \div Share entries off and gives a key that is    *)
(* present its new value in place, find puts its entry last.  The keys in  *)
(* use must be told apart by what operator== and the bucket compare.       *)
THEOREM IsLruMap ==
  ASSUME Share <= Size, ToldApart
  PROVE  Spec => ImplementsLruMap
<1>1. Init => Told(m) /\ Abstract!Init
  <2> SUFFICES ASSUME Init PROVE Told(m) /\ Abstract!Init
    OBVIOUS
  <2> DEFINE s == [i \in 1 .. Size |-> i - 1]
             n == [b \in Slots |-> <<>>]
  <2>1. Covered(m, s, <<>>, n)
    BY FreshWhole DEF Init
  <2> HIDE DEF s, n
  <2>2. Unlike(m, <<>>)
    <3>1. Range(<<>>) = {}
      BY DEF Range
    <3> QED BY <3>1 DEF Unlike
  <2>3. Entries = View(m, <<>>)
    BY <2>1, EntriesAre
  <2>4. View(m, <<>>) = <<>>
    BY DEF View
  <2>5. found = <<>>
    BY DEF Init
  <2> QED BY <2>1, <2>2, <2>3, <2>4, <2>5 DEF Told, Abstract!Init
<1>2. Told(m) /\ [Next]_vars => Told(m') /\ [Abstract!Next]_<<Entries, found>>
  <2> SUFFICES ASSUME Told(m), [Next]_vars
               PROVE  Told(m') /\ [Abstract!Next]_<<Entries, found>>
    OBVIOUS
  <2>1. ASSUME NEW e \in Inserted, insert(e[1], e[2]) PROVE Told(m') /\ Abstract!Next
    <3>1. e[1] \in Signs /\ e[2] \in Values
      BY SignsAssumption
    <3>2. Told(m') /\ Abstract!insert(e[1], e[2])
      BY <2>1, <3>1, InsertMaps
    <3> QED BY <3>1, <3>2 DEF Abstract!Next
  <2>2. ASSUME NEW sign \in Removed, remove(sign) PROVE Told(m') /\ Abstract!Next
    <3>1. sign \in Signs
      BY SignsAssumption
    <3>2. Told(m') /\ Abstract!remove(sign)
      BY <2>2, <3>1, RemoveMaps
    <3> QED BY <3>1, <3>2 DEF Abstract!Next
  <2>3. ASSUME NEW sign \in Sought, find(sign) PROVE Told(m') /\ Abstract!Next
    <3>1. sign \in Signs
      BY SignsAssumption
    <3>2. Told(m') /\ Abstract!find(sign)
      BY <2>3, <3>1, FindMaps
    <3> QED BY <3>1, <3>2 DEF Abstract!Next
  <2>4. CASE UNCHANGED vars
    <3>1. m' = m /\ found' = found
      BY <2>4 DEF vars
    <3>2. PICK free, busy, chain : Covered(m, free, busy, chain)
      BY DEF Told
    <3>3. Entries = View(m, busy) /\ Entries' = View(m', busy)
      BY <3>1, <3>2, EntriesAre
    <3> QED BY <3>1, <3>3
  <2> QED BY <2>1, <2>2, <2>3, <2>4 DEF Next
<1>3. Told(m) /\ [Next]_vars => Told(m)'
  BY <1>2
<1>4. Spec => []Told(m)
  BY <1>1, <1>3, PTL DEF Spec
<1>5. Spec => Abstract!Spec
  BY <1>1, <1>2, <1>4, PTL DEF Spec, Abstract!Spec
<1> QED BY <1>5 DEF ImplementsLruMap
-----------------------------------------------------------------------------
(***************************************************************************)
(* save and load.  What the three files hold is all there is of a cache,   *)
(* so no more need be known of the cache itself than that it does not      *)
(* change while save is alone: it is then what it was when save began, and *)
(* each file that save has been through holds its part of that, or less.   *)
(***************************************************************************)
Holds(file, contents) == file \in {<<contents>>, <<>>}

SaveInv ==
    /\ saving # "no" => sound = FALSE
    /\ saving # "no" /\ alone = TRUE => m = asSaved /\ Holds(head, Head_(asSaved))
    /\ saving = "idx2" /\ alone = TRUE => Holds(idx1, asSaved.pidx)
    /\ sound = TRUE /\ alone = TRUE => /\ Holds(head, Head_(asSaved))
                                       /\ Holds(idx1, asSaved.pidx)
                                       /\ Holds(idx2, Items_(asSaved))

PInv == SaveInv /\ sound \in BOOLEAN /\ alone \in BOOLEAN

LEMMA PInitInv == PInit => PInv
<1> SUFFICES ASSUME PInit PROVE PInv
  OBVIOUS
<1>1. sound = FALSE /\ alone = TRUE /\ saving = "no"
  BY Zenon DEF PInit
<1> QED BY <1>1 DEF PInv, SaveInv

LEMMA PNextInv ==
  ASSUME PInv, [PNext]_pvars
  PROVE  PInv'
<1>0. SaveInv /\ sound \in BOOLEAN /\ alone \in BOOLEAN
  BY DEF PInv
<1>1. CASE Operation
  <2>1. /\ head' = head /\ idx1' = idx1 /\ idx2' = idx2
        /\ saving' = saving /\ sound' = sound /\ asSaved' = asSaved
        /\ alone' \in BOOLEAN
        /\ alone' = TRUE => alone = TRUE /\ (saving = "no" \/ m' = m)
    BY <1>1, Zenon DEF Operation
  <2> QED BY <1>0, <2>1 DEF PInv, SaveInv
<1>2. CASE SaveHead
  <2>1. /\ m' = m /\ asSaved' = m /\ sound' = FALSE /\ alone' = TRUE
        /\ \/ head' \in {<<Head_(m)>>, <<>>} /\ saving' = "idx1"
           \/ saving' = "no"
    BY <1>2, Zenon DEF SaveHead, Written
  <2> QED BY <1>0, <2>1 DEF PInv, SaveInv, Holds
<1>3. CASE SaveIdx1
  <2>1. /\ m' = m /\ asSaved' = asSaved /\ sound' = sound /\ alone' = alone /\ head' = head
        /\ saving = "idx1"
        /\ \/ idx1' \in {<<m.pidx>>, <<>>} /\ saving' = "idx2"
           \/ saving' = "no"
    BY <1>3, Zenon DEF SaveIdx1, Written
  <2> QED BY <1>0, <2>1 DEF PInv, SaveInv, Holds
<1>4. CASE SaveIdx2
  <2>1. /\ m' = m /\ asSaved' = asSaved /\ alone' = alone /\ head' = head /\ idx1' = idx1
        /\ saving = "idx2" /\ saving' = "no"
        /\ \/ idx2' \in {<<Items_(m)>>, <<>>} /\ sound' = TRUE
           \/ sound' = sound
    BY <1>4, Zenon DEF SaveIdx2
  <2>2. alone = TRUE => /\ m = asSaved /\ Holds(head, Head_(asSaved))
                        /\ Holds(idx1, asSaved.pidx)
    BY <1>0, <2>1 DEF SaveInv
  <2>3. CASE idx2' \in {<<Items_(m)>>, <<>>} /\ sound' = TRUE
    <3>1. alone = TRUE => Holds(idx2', Items_(asSaved))
      BY <2>2, <2>3 DEF Holds
    <3> QED BY <1>0, <2>1, <2>2, <2>3, <3>1 DEF PInv, SaveInv, Holds
  <2>4. CASE sound' = sound
    BY <1>0, <2>1, <2>4 DEF PInv, SaveInv
  <2> QED BY <2>1, <2>3, <2>4
<1>5. CASE Restart
  <2>1. /\ head' = head /\ idx1' = idx1 /\ idx2' = idx2
        /\ saving' = "no" /\ sound' = sound /\ alone' = alone /\ asSaved' = asSaved
    BY <1>5, Zenon DEF Restart
  <2> QED BY <1>0, <2>1 DEF PInv, SaveInv, Holds
<1>6. CASE UNCHANGED pvars
  <2>1. /\ m' = m /\ head' = head /\ idx1' = idx1 /\ idx2' = idx2
        /\ saving' = saving /\ sound' = sound /\ alone' = alone /\ asSaved' = asSaved
    BY <1>6, Zenon DEF pvars
  <2> QED BY <1>0, <2>1 DEF PInv, SaveInv, Holds
<1> QED BY <1>1, <1>2, <1>3, <1>4, <1>5, <1>6, Zenon DEF PNext

LEMMA FilesStay == PSpec => []PInv
<1>1. PInv /\ [PNext]_pvars => PInv'
  BY PNextInv
<1> QED BY <1>1, PInitInv, PTL DEF PSpec

(* load undoes save. *)
LEMMA LoadUndoes ==
  ASSUME PInv, sound, alone, Loadable
  PROVE  Persisted(Loaded) = Persisted(asSaved)
<1>1. sound = TRUE /\ alone = TRUE
  BY Zenon DEF PInv
<1>2. head = <<Head_(asSaved)>> /\ idx1 = <<asSaved.pidx>> /\ idx2 = <<Items_(asSaved)>>
  BY <1>1 DEF PInv, SaveInv, Holds, Loadable
<1>3. head[1] = Head_(asSaved) /\ idx1[1] = asSaved.pidx /\ idx2[1] = Items_(asSaved)
  BY <1>2
<1>4. /\ Loaded.free_list_size = asSaved.free_list_size
      /\ Loaded.free_list = asSaved.free_list /\ Loaded.busy_list = asSaved.busy_list
      /\ Loaded.pidx = asSaved.pidx
      /\ Loaded.sign = asSaved.sign /\ Loaded.value = asSaved.value
      /\ Loaded.hashlink = asSaved.hashlink /\ Loaded.link = asSaved.link
  BY <1>3 DEF Loaded, Head_, Items_
<1>5. Head_(Loaded) = Head_(asSaved) /\ Items_(Loaded) = Items_(asSaved)
  BY <1>4 DEF Head_, Items_
<1> QED BY <1>4, <1>5 DEF Persisted

(* A process that starts after a save that returned true, with nothing     *)
(* changing the cache beside it, has that cache or an empty one, whatever  *)
(* saves failed, were cut short or broken off before.                      *)
THEOREM SavedIsRestored == PSpec => RestartRestores
<1>1. PInv /\ [PNext]_pvars =>
        [Restart /\ sound /\ alone => Persisted(m') \in {Persisted(asSaved), Persisted(Fresh)}]_pvars
  <2> SUFFICES ASSUME PInv, Restart, sound, alone
               PROVE  Persisted(m') \in {Persisted(asSaved), Persisted(Fresh)}
    OBVIOUS
  <2>1. m' = (IF Loadable THEN Loaded ELSE Fresh)
    BY Zenon DEF Restart
  <2>2. CASE Loadable
    <3>1. m' = Loaded
      BY <2>1, <2>2
    <3>2. Persisted(Loaded) = Persisted(asSaved)
      BY <2>2, LoadUndoes
    <3> QED BY <3>1, <3>2
  <2>3. CASE ~Loadable
    <3>1. m' = Fresh
      BY <2>1, <2>3
    <3> QED BY <3>1
  <2> QED BY <2>2, <2>3
<1> QED BY <1>1, FilesStay, PTL DEF PSpec, RestartRestores
=============================================================================
