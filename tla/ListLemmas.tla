----------------------------- MODULE ListLemmas -----------------------------
(***************************************************************************)
(* What the operations of dttools' struct list do to a list that holds no  *)
(* item twice: which items are on it afterwards, and that it still holds   *)
(* none twice.  The proofs about the queue cite these facts by name.       *)
(***************************************************************************)
EXTENDS Integers, FiniteSets, SequencesExt, SequenceTheorems, FiniteSetTheorems, TLAPS

LEMMA EmptyList == IsInjective(<< >>) /\ Range(<< >>) = {}
BY DEF IsInjective, Range

\* list_push_tail of a new item.
LEMMA AppendList ==
  ASSUME NEW S, NEW s \in Seq(S), NEW e \in S, IsInjective(s), e \notin Range(s)
  PROVE  /\ Append(s, e) \in Seq(S)
         /\ Range(Append(s, e)) = Range(s) \cup {e}
         /\ IsInjective(Append(s, e))
BY SMTT(30) DEF Range, IsInjective

\* Putting one list in front of another that shares no item with it.
LEMMA ConcatList ==
  ASSUME NEW S, NEW s \in Seq(S), NEW u \in Seq(S),
         IsInjective(s), IsInjective(u), Range(s) \cap Range(u) = {}
  PROVE  /\ s \o u \in Seq(S)
         /\ Range(s \o u) = Range(s) \cup Range(u)
         /\ IsInjective(s \o u)
<1>1. Range(s \o u) = Range(s) \cup Range(u)
  BY RangeConcatenation
<1>2. SUFFICES ASSUME NEW i \in 1..Len(s \o u), NEW j \in 1..Len(s \o u),
                      (s \o u)[i] = (s \o u)[j]
               PROVE  i = j
  BY <1>1, ConcatProperties DEF IsInjective
<1>3. \A k \in 1..Len(s) : s[k] \in Range(s)
  BY DEF Range
<1>4. \A k \in 1..Len(u) : u[k] \in Range(u)
  BY DEF Range
<1>5. \A k \in 1..Len(s \o u) : (s \o u)[k] = IF k <= Len(s) THEN s[k] ELSE u[k - Len(s)]
  BY ConcatProperties
<1>6. CASE i <= Len(s) /\ j <= Len(s)
  BY <1>2, <1>5, <1>6 DEF IsInjective
<1>7. CASE i > Len(s) /\ j > Len(s)
  <2>1. i - Len(s) \in 1..Len(u) /\ j - Len(s) \in 1..Len(u)
    BY <1>7, ConcatProperties
  <2>2. u[i - Len(s)] = u[j - Len(s)]
    BY <1>2, <1>5, <1>7
  <2> QED BY <2>1, <2>2 DEF IsInjective
<1>8. CASE i <= Len(s) /\ j > Len(s)
  BY <1>2, <1>3, <1>4, <1>5, <1>8, ConcatProperties
<1>9. CASE i > Len(s) /\ j <= Len(s)
  BY <1>2, <1>3, <1>4, <1>5, <1>9, ConcatProperties
<1> QED BY <1>6, <1>7, <1>8, <1>9, ConcatProperties

\* list_push_head of a new item.
LEMMA ConsList ==
  ASSUME NEW S, NEW s \in Seq(S), NEW e \in S, IsInjective(s), e \notin Range(s)
  PROVE  /\ Cons(e, s) \in Seq(S)
         /\ Range(Cons(e, s)) = Range(s) \cup {e}
         /\ IsInjective(Cons(e, s))
<1>1. <<e>> \in Seq(S) /\ Range(<<e>>) = {e} /\ IsInjective(<<e>>)
  BY DEF Range, IsInjective
<1>2. Range(<<e>>) \cap Range(s) = {}
  BY <1>1
<1>3. /\ <<e>> \o s \in Seq(S)
      /\ Range(<<e>> \o s) = Range(<<e>>) \cup Range(s)
      /\ IsInjective(<<e>> \o s)
  BY <1>1, <1>2, ConcatList, Zenon
<1> QED BY <1>1, <1>3 DEF Cons

\* list_pop_head.
LEMMA TailList ==
  ASSUME NEW S, NEW s \in Seq(S), IsInjective(s), s # << >>
  PROVE  /\ Head(s) \in Range(s) /\ Head(s) \in S
         /\ Tail(s) \in Seq(S)
         /\ Range(Tail(s)) = Range(s) \ {Head(s)}
         /\ IsInjective(Tail(s))
<1>1. Len(s) \in Nat \ {0} /\ Head(s) = s[1]
  OBVIOUS
<1>2. /\ Tail(s) \in Seq(S) /\ Len(Tail(s)) = Len(s) - 1
      /\ DOMAIN Tail(s) = 1..Len(s) - 1
      /\ \A k \in 1..Len(s) - 1 : Tail(s)[k] = s[k + 1]
  OBVIOUS
<1>3. Head(s) \in Range(s) /\ Head(s) \in S
  BY <1>1 DEF Range
<1>4. Range(Tail(s)) \subseteq Range(s) \ {Head(s)}
  BY <1>1, <1>2 DEF Range, IsInjective
<1>5. ASSUME NEW x \in Range(s) \ {Head(s)} PROVE x \in Range(Tail(s))
  <2>1. PICK k \in 1..Len(s) : x = s[k]
    BY DEF Range
  <2>2. k - 1 \in 1..Len(s) - 1 /\ Tail(s)[k - 1] = x
    BY <1>1, <1>2, <1>5, <2>1
  <2> QED BY <1>2, <2>2, Zenon DEF Range
<1>6. IsInjective(Tail(s))
  BY <1>1, <1>2 DEF IsInjective
<1> QED BY <1>2, <1>3, <1>4, <1>5, <1>6

\* Moving the first item to the end.
LEMMA RotateList ==
  ASSUME NEW S, NEW s \in Seq(S), IsInjective(s), s # << >>
  PROVE  LET u == Append(Tail(s), Head(s))
         IN  u \in Seq(S) /\ Range(u) = Range(s) /\ IsInjective(u)
<1> DEFINE r == Tail(s)
           h == Head(s)
<1>1. /\ r \in Seq(S) /\ IsInjective(r) /\ h \in S /\ h \notin Range(r)
      /\ Range(r) \cup {h} = Range(s)
  BY TailList
<1> HIDE DEF r, h
<1>2. /\ Append(r, h) \in Seq(S) /\ IsInjective(Append(r, h))
      /\ Range(Append(r, h)) = Range(r) \cup {h}
  BY <1>1, AppendList
<1> QED BY <1>1, <1>2, Zenon DEF r, h

\* list_remove of the item in place i.
LEMMA RemoveAtList ==
  ASSUME NEW S, NEW s \in Seq(S), IsInjective(s), NEW i \in DOMAIN s
  PROVE  /\ RemoveAt(s, i) \in Seq(S)
         /\ Range(RemoveAt(s, i)) = Range(s) \ {s[i]}
         /\ IsInjective(RemoveAt(s, i))
<1> DEFINE a == SubSeq(s, 1, i - 1)
           b == SubSeq(s, i + 1, Len(s))
           r == RemoveAt(s, i)
<1>1. i \in 1..Len(s) /\ Len(s) \in Nat
  OBVIOUS
<1>2. a \in Seq(S) /\ Len(a) = i - 1 /\ \A k \in 1..i - 1 : a[k] = s[k]
  BY <1>1
<1>3. b \in Seq(S) /\ Len(b) = Len(s) - i /\ \A k \in 1..Len(s) - i : b[k] = s[i + k]
  BY <1>1
<1>4. r = a \o b
  BY DEF RemoveAt
<1> HIDE DEF a, b, r
<1>5. r \in Seq(S) /\ Len(r) = Len(s) - 1
  <2>1. r \in Seq(S) /\ Len(r) = Len(a) + Len(b)
    BY <1>2, <1>3, <1>4, ConcatProperties, Zenon
  <2>2. Len(a) = i - 1 /\ Len(b) = Len(s) - i
    BY <1>2, <1>3
  <2> QED BY <1>1, <2>1, <2>2
<1>6. ASSUME NEW k \in 1..Len(s) - 1 PROVE r[k] = IF k < i THEN s[k] ELSE s[k + 1]
  <2>1. r[k] = IF k <= i - 1 THEN a[k] ELSE b[k - (i - 1)]
    <3>1. \A n \in 1..Len(a) + Len(b) :
            (a \o b)[n] = IF n <= Len(a) THEN a[n] ELSE b[n - Len(a)]
      BY <1>2, <1>3, ConcatProperties, Zenon
    <3>2. Len(a) = i - 1 /\ Len(b) = Len(s) - i
      BY <1>2, <1>3
    <3>3. Len(a) + Len(b) = Len(s) - 1
      BY <1>1, <3>2, SMTT(30)
    <3>4. k \in 1..Len(a) + Len(b)
      BY <3>3, Zenon
    <3> QED BY <1>4, <3>1, <3>2, <3>4, Zenon
  <2>2. CASE k < i
    BY <1>1, <1>2, <2>1, <2>2
  <2>3. CASE k >= i
    <3>1. k - (i - 1) \in 1..Len(s) - i /\ i + (k - (i - 1)) = k + 1
      BY <1>1, <2>3
    <3>2. b[k - (i - 1)] = s[i + (k - (i - 1))]
      BY <1>3, <3>1
    <3>3. ~(k <= i - 1) /\ ~(k < i)
      BY <1>1, <2>3, SMTT(30)
    <3>4. r[k] = b[k - (i - 1)]
      BY <2>1, <3>3, Zenon
    <3>5. r[k] = s[k + 1]
      BY <3>1, <3>2, <3>4, Zenon
    <3> QED BY <3>3, <3>5, Zenon
  <2> QED BY <1>1, <2>2, <2>3
<1>7. Range(r) \subseteq Range(s) \ {s[i]}
  BY <1>1, <1>5, <1>6 DEF Range, IsInjective
<1>8. ASSUME NEW x \in Range(s) \ {s[i]} PROVE x \in Range(r)
  <2>1. PICK k \in 1..Len(s) : x = s[k]
    BY DEF Range
  <2>2. CASE k < i
    BY <1>1, <1>5, <1>6, <2>1, <2>2 DEF Range
  <2>3. CASE k > i
    <3>1. k - 1 \in 1..Len(s) - 1 /\ r[k - 1] = x
      BY <1>1, <1>6, <2>1, <2>3
    <3> QED BY <1>5, <3>1 DEF Range
  <2> QED BY <1>1, <1>8, <2>1, <2>2, <2>3
<1>9. IsInjective(r)
  <2>1. SUFFICES ASSUME NEW j \in 1..Len(s) - 1, NEW k \in 1..Len(s) - 1, r[j] = r[k]
                 PROVE  j = k
    BY <1>1, <1>5 DEF IsInjective
  <2> DEFINE At(n) == IF n < i THEN n ELSE n + 1
  <2>2. At(j) \in 1..Len(s) /\ At(k) \in 1..Len(s)
    BY <1>1
  <2>3. s[At(j)] = s[At(k)]
    BY <1>6, <2>1
  <2>4. At(j) = At(k)
    BY <2>2, <2>3 DEF IsInjective
  <2> QED BY <1>1, <2>4
<1> QED BY <1>5, <1>7, <1>8, <1>9 DEF r

\* A pass over a hash table visits every item once.
LEMMA OrderList ==
  ASSUME NEW S, IsFiniteSet(S), NEW order \in Bijection(1..Cardinality(S), S)
  PROVE  order \in Seq(S) /\ Range(order) = S /\ IsInjective(order)
BY FS_CardinalityType DEF Bijection, Injection, Surjection, Range
=============================================================================
