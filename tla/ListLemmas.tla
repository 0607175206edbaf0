----------------------------- MODULE ListLemmas -----------------------------
(***************************************************************************)
(* What appending, taking the head and concatenating do to the elements of *)
(* a list, to its freedom from duplicates and to the order of its elements.*)
(***************************************************************************)
EXTENDS Lists, SequenceTheorems, WellFoundedInduction, TLAPS

(* Appending to a list adds one element and keeps it free of duplicates.   *)
LEMMA AppendList ==
  ASSUME NEW S, NEW s \in Seq(S), NEW e \in S
  PROVE  /\ Append(s, e) \in Seq(S)
         /\ Range(Append(s, e)) = Range(s) \union {e}
         /\ IsInjective(s) /\ e \notin Range(s) => IsInjective(Append(s, e))
<1>1. /\ Append(s, e) \in Seq(S) /\ Len(s) \in Nat
      /\ DOMAIN s = 1..Len(s) /\ DOMAIN Append(s, e) = 1..(Len(s) + 1)
      /\ \A i \in 1..Len(s) : Append(s, e)[i] = s[i]
      /\ Append(s, e)[Len(s) + 1] = e
  OBVIOUS
<1>2. \A i \in 1..(Len(s) + 1) : i \in 1..Len(s) \/ i = Len(s) + 1
  BY <1>1
<1>3. Range(Append(s, e)) = Range(s) \union {e}
  BY <1>1, <1>2 DEF Range
<1>4. ASSUME IsInjective(s), e \notin Range(s) PROVE IsInjective(Append(s, e))
  BY <1>1, <1>2, <1>4 DEF Range, IsInjective
<1> QED BY <1>1, <1>3, <1>4

(* Taking the head of a list leaves the others, and not the head again.    *)
LEMMA TailList ==
  ASSUME NEW S, NEW s \in Seq(S), s # <<>>
  PROVE  /\ Head(s) \in S /\ Tail(s) \in Seq(S)
         /\ Range(s) = Range(Tail(s)) \union {Head(s)}
         /\ IsInjective(s) => /\ IsInjective(Tail(s))
                            /\ Head(s) \notin Range(Tail(s))
<1>1. /\ Len(s) \in Nat \ {0} /\ DOMAIN s = 1..Len(s)
      /\ Head(s) = s[1] /\ Tail(s) \in Seq(S)
      /\ DOMAIN Tail(s) = 1..(Len(s) - 1)
      /\ \A i \in 1..(Len(s) - 1) : Tail(s)[i] = s[i + 1]
  OBVIOUS
<1>2. \A i \in 1..Len(s) : i = 1 \/ (i - 1 \in 1..(Len(s) - 1) /\ s[i] = Tail(s)[i - 1])
  BY <1>1
<1>3. Range(s) = Range(Tail(s)) \union {Head(s)}
  <2>1. ASSUME NEW x \in Range(s) PROVE x \in Range(Tail(s)) \union {Head(s)}
    <3>1. PICK i \in 1..Len(s) : x = s[i]
      BY <1>1, <2>1 DEF Range
    <3> QED BY <1>1, <1>2, <3>1 DEF Range
  <2>2. ASSUME NEW x \in Range(Tail(s)) PROVE x \in Range(s)
    <3>1. PICK i \in 1..(Len(s) - 1) : x = Tail(s)[i]
      BY <1>1, <2>2 DEF Range
    <3>2. i + 1 \in 1..Len(s) /\ x = s[i + 1]
      BY <1>1, <3>1
    <3> QED BY <1>1, <3>2 DEF Range
  <2>3. Head(s) \in Range(s)
    BY <1>1 DEF Range
  <2> QED BY <2>1, <2>2, <2>3
<1>4. ASSUME IsInjective(s) PROVE IsInjective(Tail(s)) /\ Head(s) \notin Range(Tail(s))
  BY <1>1, <1>4 DEF Range, IsInjective
<1> QED BY <1>1, <1>3, <1>4

(* A concatenation has the elements of both lists.                         *)
LEMMA ConcatList ==
  ASSUME NEW S, NEW s \in Seq(S), NEW t \in Seq(S)
  PROVE  /\ s \o t \in Seq(S)
         /\ Range(s \o t) = Range(s) \union Range(t)
         /\ /\ IsInjective(s) /\ IsInjective(t)
            /\ Range(s) \intersect Range(t) = {}
            => IsInjective(s \o t)
<1>1. /\ s \o t \in Seq(S) /\ Len(s) \in Nat /\ Len(t) \in Nat
      /\ DOMAIN s = 1..Len(s) /\ DOMAIN t = 1..Len(t)
      /\ DOMAIN (s \o t) = 1..(Len(s) + Len(t))
      /\ \A i \in 1..(Len(s) + Len(t)) :
           (s \o t)[i] = IF i <= Len(s) THEN s[i] ELSE t[i - Len(s)]
  OBVIOUS
<1>2. \A i \in 1..(Len(s) + Len(t)) :
         \/ i \in 1..Len(s) /\ (s \o t)[i] = s[i]
         \/ i - Len(s) \in 1..Len(t) /\ (s \o t)[i] = t[i - Len(s)]
  BY <1>1
<1>3. /\ \A i \in 1..Len(s) : i \in 1..(Len(s) + Len(t)) /\ (s \o t)[i] = s[i]
      /\ \A i \in 1..Len(t) : /\ i + Len(s) \in 1..(Len(s) + Len(t))
                               /\ (s \o t)[i + Len(s)] = t[i]
  BY <1>1
<1>4. Range(s \o t) = Range(s) \union Range(t)
  BY RangeConcatenation
<1>5. ASSUME IsInjective(s), IsInjective(t),
             Range(s) \intersect Range(t) = {}
      PROVE  IsInjective(s \o t)
  <2> SUFFICES ASSUME NEW i \in 1..(Len(s) + Len(t)),
                      NEW k \in 1..(Len(s) + Len(t)),
                      (s \o t)[i] = (s \o t)[k]
               PROVE  i = k
    BY <1>1 DEF IsInjective
  <2>1. CASE i \in 1..Len(s) /\ k \in 1..Len(s)
    BY <1>1, <1>3, <1>5, <2>1 DEF IsInjective
  <2>2. CASE i \notin 1..Len(s) /\ k \notin 1..Len(s)
    BY <1>1, <1>2, <1>5, <2>2 DEF IsInjective
  <2>3. CASE i \in 1..Len(s) /\ k \notin 1..Len(s)
    <3>1. (s \o t)[i] \in Range(s)
      BY <1>1, <1>3, <2>3 DEF Range
    <3>2. (s \o t)[k] \in Range(t)
      BY <1>1, <1>2, <2>3 DEF Range
    <3> QED BY <1>5, <3>1, <3>2
  <2>4. CASE i \notin 1..Len(s) /\ k \in 1..Len(s)
    <3>1. (s \o t)[k] \in Range(s)
      BY <1>1, <1>3, <2>4 DEF Range
    <3>2. (s \o t)[i] \in Range(t)
      BY <1>1, <1>2, <2>4 DEF Range
    <3> QED BY <1>5, <3>1, <3>2
  <2> QED BY <2>1, <2>2, <2>3, <2>4
<1> QED BY <1>1, <1>4, <1>5

(* The empty list. *)
LEMMA EmptyList == Range(<<>>) = {} /\ IsInjective(<<>>)
  BY DEF Range, IsInjective

(* In the list s, a comes before b. *)
Precedes(s, a, b) == \E i, k \in DOMAIN s : i < k /\ s[i] = a /\ s[k] = b

(* What is appended comes last, and the order of the others stays.         *)
LEMMA AppendOrder ==
  ASSUME NEW S, NEW s \in Seq(S), NEW e \in S, NEW a, NEW b
  PROVE  /\ Precedes(s, a, b) => Precedes(Append(s, e), a, b)
         /\ a \in Range(s) => Precedes(Append(s, e), a, e)
<1>1. /\ Len(s) \in Nat
      /\ DOMAIN s = 1..Len(s) /\ DOMAIN Append(s, e) = 1..(Len(s) + 1)
      /\ \A i \in 1..Len(s) : Append(s, e)[i] = s[i]
      /\ Append(s, e)[Len(s) + 1] = e
  OBVIOUS
<1>2. \A i \in 1..Len(s) : i \in 1..(Len(s) + 1) /\ i < Len(s) + 1
  BY <1>1
<1>3. ASSUME Precedes(s, a, b) PROVE Precedes(Append(s, e), a, b)
  BY <1>1, <1>2, <1>3 DEF Precedes
<1>4. ASSUME a \in Range(s) PROVE Precedes(Append(s, e), a, e)
  <2>1. PICK i \in 1..Len(s) : s[i] = a
    BY <1>1, <1>4 DEF Range
  <2>2. Len(s) + 1 \in 1..(Len(s) + 1)
    BY <1>1
  <2> QED BY <1>1, <1>2, <2>1, <2>2 DEF Precedes
<1> QED BY <1>3, <1>4

(* The head comes before the others and nothing before the head.           *)
LEMMA TailOrder ==
  ASSUME NEW S, NEW s \in Seq(S), s # <<>>, NEW a, NEW b, Precedes(s, a, b)
  PROVE  /\ b \in Range(Tail(s))
         /\ a = Head(s) \/ Precedes(Tail(s), a, b)
<1>1. /\ Len(s) \in Nat \ {0} /\ DOMAIN s = 1..Len(s)
      /\ Head(s) = s[1] /\ DOMAIN Tail(s) = 1..(Len(s) - 1)
      /\ \A i \in 1..(Len(s) - 1) : Tail(s)[i] = s[i + 1]
  OBVIOUS
<1>2. PICK i \in 1..Len(s), k \in 1..Len(s) : i < k /\ s[i] = a /\ s[k] = b
  BY <1>1 DEF Precedes
<1>3. k - 1 \in 1..(Len(s) - 1) /\ Tail(s)[k - 1] = b
  BY <1>1, <1>2
<1>4. CASE i = 1
  BY <1>1, <1>2, <1>3, <1>4 DEF Range
<1>5. CASE i # 1
  <2>1. i - 1 \in 1..(Len(s) - 1) /\ Tail(s)[i - 1] = a /\ i - 1 < k - 1
    BY <1>1, <1>2, <1>5
  <2> QED BY <1>1, <1>3, <2>1 DEF Precedes, Range
<1> QED BY <1>4, <1>5

(* A concatenation keeps the order of both lists, the first list first.    *)
LEMMA ConcatOrder ==
  ASSUME NEW S, NEW s \in Seq(S), NEW t \in Seq(S), NEW a, NEW b
  PROVE  /\ Precedes(s, a, b) => Precedes(s \o t, a, b)
         /\ Precedes(t, a, b) => Precedes(s \o t, a, b)
         /\ a \in Range(s) /\ b \in Range(t) => Precedes(s \o t, a, b)
<1>1. /\ Len(s) \in Nat /\ Len(t) \in Nat
      /\ DOMAIN s = 1..Len(s) /\ DOMAIN t = 1..Len(t)
      /\ DOMAIN (s \o t) = 1..(Len(s) + Len(t))
      /\ \A i \in 1..(Len(s) + Len(t)) :
           (s \o t)[i] = IF i <= Len(s) THEN s[i] ELSE t[i - Len(s)]
  OBVIOUS
<1>2. /\ \A i \in 1..Len(s) : i \in 1..(Len(s) + Len(t)) /\ (s \o t)[i] = s[i]
      /\ \A i \in 1..Len(t) : /\ i + Len(s) \in 1..(Len(s) + Len(t))
                               /\ (s \o t)[i + Len(s)] = t[i]
      /\ \A i \in 1..Len(s), k \in 1..Len(t) : i < k + Len(s)
      /\ \A i, k \in 1..Len(t) : i < k => i + Len(s) < k + Len(s)
  BY <1>1
<1>3. ASSUME Precedes(s, a, b) PROVE Precedes(s \o t, a, b)
  BY <1>1, <1>2, <1>3 DEF Precedes
<1>4. ASSUME Precedes(t, a, b) PROVE Precedes(s \o t, a, b)
  <2>1. PICK i \in 1..Len(t), k \in 1..Len(t) : i < k /\ t[i] = a /\ t[k] = b
    BY <1>1, <1>4 DEF Precedes
  <2> QED BY <1>1, <1>2, <2>1 DEF Precedes
<1>5. ASSUME a \in Range(s), b \in Range(t) PROVE Precedes(s \o t, a, b)
  <2>1. PICK i \in 1..Len(s), k \in 1..Len(t) : s[i] = a /\ t[k] = b
    BY <1>1, <1>5 DEF Range
  <2> QED BY <1>1, <1>2, <2>1 DEF Precedes
<1> QED BY <1>3, <1>4, <1>5

(* An append brings no order but that of its element after the others.     *)
LEMMA AppendBefore ==
  ASSUME NEW S, NEW s \in Seq(S), NEW e \in S, NEW a, NEW b,
         Precedes(Append(s, e), a, b)
  PROVE  Precedes(s, a, b) \/ (b = e /\ a \in Range(s))
<1>1. /\ Len(s) \in Nat
      /\ DOMAIN s = 1..Len(s) /\ DOMAIN Append(s, e) = 1..(Len(s) + 1)
      /\ \A i \in 1..Len(s) : Append(s, e)[i] = s[i]
      /\ Append(s, e)[Len(s) + 1] = e
  OBVIOUS
<1>2. PICK i \in 1..(Len(s) + 1), k \in 1..(Len(s) + 1) :
         i < k /\ Append(s, e)[i] = a /\ Append(s, e)[k] = b
  BY <1>1 DEF Precedes
<1>3. i \in 1..Len(s) /\ s[i] = a
  BY <1>1, <1>2
<1>4. CASE k = Len(s) + 1
  BY <1>1, <1>2, <1>3, <1>4 DEF Range
<1>5. CASE k # Len(s) + 1
  <2>1. k \in 1..Len(s) /\ s[k] = b
    BY <1>1, <1>2, <1>5
  <2> QED BY <1>1, <1>2, <1>3, <2>1 DEF Precedes
<1> QED BY <1>4, <1>5

(* The order of a tail is that of the list, whose head comes before it.    *)
LEMMA TailBefore ==
  ASSUME NEW S, NEW s \in Seq(S), s # <<>>, NEW a, NEW b
  PROVE  /\ Precedes(Tail(s), a, b) => Precedes(s, a, b)
         /\ b \in Range(Tail(s)) => Precedes(s, Head(s), b)
<1>1. /\ Len(s) \in Nat \ {0} /\ DOMAIN s = 1..Len(s)
      /\ Head(s) = s[1] /\ DOMAIN Tail(s) = 1..(Len(s) - 1)
      /\ \A i \in 1..(Len(s) - 1) : Tail(s)[i] = s[i + 1]
  OBVIOUS
<1>2. \A i \in 1..(Len(s) - 1) : i + 1 \in 1..Len(s) /\ 1 < i + 1 /\ s[i + 1] = Tail(s)[i]
  BY <1>1
<1>3. ASSUME Precedes(Tail(s), a, b) PROVE Precedes(s, a, b)
  <2>1. PICK i \in 1..(Len(s) - 1), k \in 1..(Len(s) - 1) :
           i < k /\ Tail(s)[i] = a /\ Tail(s)[k] = b
    BY <1>1, <1>3 DEF Precedes
  <2>2. i + 1 < k + 1
    BY <2>1
  <2> QED BY <1>1, <1>2, <2>1, <2>2 DEF Precedes
<1>4. ASSUME b \in Range(Tail(s)) PROVE Precedes(s, Head(s), b)
  <2>1. PICK i \in 1..(Len(s) - 1) : Tail(s)[i] = b
    BY <1>1, <1>4 DEF Range
  <2>2. 1 \in 1..Len(s)
    BY <1>1
  <2> QED BY <1>1, <1>2, <2>1, <2>2 DEF Precedes
<1> QED BY <1>3, <1>4

(* In a list without duplicates no two elements come before each other. *)
LEMMA OneWay ==
  ASSUME NEW S, NEW s \in Seq(S), IsInjective(s), NEW a, NEW b, Precedes(s, a, b)
  PROVE  ~Precedes(s, b, a)
<1>1. Len(s) \in Nat /\ DOMAIN s = 1..Len(s)
  OBVIOUS
<1>2. PICK i \in 1..Len(s), k \in 1..Len(s) : i < k /\ s[i] = a /\ s[k] = b
  BY <1>1 DEF Precedes
<1>3. SUFFICES ASSUME NEW m \in 1..Len(s), NEW n \in 1..Len(s), m < n, s[m] = b, s[n] = a
               PROVE  FALSE
  BY <1>1 DEF Precedes
<1>4. m = k /\ n = i
  BY <1>1, <1>2, <1>3 DEF IsInjective
<1> QED BY <1>2, <1>3, <1>4

(* A list is its first elements and the others. *)
LEMMA SplitList ==
  ASSUME NEW S, NEW s \in Seq(S), NEW n \in 0..Len(s)
  PROVE  /\ SubSeq(s, 1, n) \in Seq(S) /\ SubSeq(s, n + 1, Len(s)) \in Seq(S)
         /\ SubSeq(s, 1, n) \o SubSeq(s, n + 1, Len(s)) = s
         /\ Len(SubSeq(s, 1, n)) = n /\ Len(SubSeq(s, n + 1, Len(s))) = Len(s) - n
         /\ Range(s) = Range(SubSeq(s, 1, n)) \union Range(SubSeq(s, n + 1, Len(s)))
         /\ \A i \in 1..n : SubSeq(s, 1, n)[i] = s[i]
<1> DEFINE t == SubSeq(s, 1, n)
           u == SubSeq(s, n + 1, Len(s))
<1>1. Len(s) \in Nat /\ n \in Nat /\ \A i \in 1..Len(s) : s[i] \in S
  OBVIOUS
<1>2. t \in Seq(S) /\ Len(t) = n /\ \A i \in 1..n : t[i] = s[i]
  <2>1. /\ t \in Seq(S) /\ Len(t) = IF 1 <= n THEN n - 1 + 1 ELSE 0
        /\ \A i \in 1..(n - 1 + 1) : t[i] = s[1 + i - 1]
    BY <1>1, SubSeqProperties
  <2> QED BY <1>1, <2>1
<1>3. /\ u \in Seq(S) /\ Len(u) = Len(s) - n
      /\ \A i \in 1..(Len(s) - n) : u[i] = s[n + i]
  <2>1. \A i \in (n + 1)..Len(s) : s[i] \in S
    BY <1>1
  <2>2. /\ u \in Seq(S) /\ Len(u) = IF n + 1 <= Len(s) THEN Len(s) - (n + 1) + 1 ELSE 0
        /\ \A i \in 1..(Len(s) - (n + 1) + 1) : u[i] = s[n + 1 + i - 1]
    BY <1>1, <2>1, SubSeqProperties
  <2>3. \A i \in 1..(Len(s) - n) : n + 1 + i - 1 = n + i
    BY <1>1
  <2> QED BY <1>1, <2>2, <2>3
<1> HIDE DEF t, u
<1>4. /\ t \o u \in Seq(S) /\ Len(t \o u) = Len(s)
      /\ \A i \in 1..Len(s) : (t \o u)[i] = IF i <= n THEN t[i] ELSE u[i - n]
  BY <1>1, <1>2, <1>3, ConcatProperties
<1>5. \A i \in 1..Len(s) : (t \o u)[i] = s[i]
  <2> SUFFICES ASSUME NEW i \in 1..Len(s) PROVE (t \o u)[i] = s[i]
    OBVIOUS
  <2>1. CASE i <= n
    BY <1>1, <1>2, <1>4, <2>1
  <2>2. CASE ~(i <= n)
    <3>1. i - n \in 1..(Len(s) - n) /\ n + (i - n) = i
      BY <1>1, <2>2
    <3> QED BY <1>3, <1>4, <2>2, <3>1
  <2> QED BY <2>1, <2>2
<1>6. t \o u = s
  BY <1>4, <1>5, SeqEqual
<1>7. Range(s) = Range(t) \union Range(u)
  BY <1>2, <1>3, <1>6, ConcatList
<1> QED BY <1>2, <1>3, <1>6, <1>7 DEF t, u

(* The head of one list moved to the end of the list before it. *)
LEMMA MoveHead ==
  ASSUME NEW S, NEW s \in Seq(S), NEW t \in Seq(S), t # <<>>
  PROVE  Append(s, Head(t)) \o Tail(t) = s \o t
<1>1. Head(t) \in S /\ Tail(t) \in Seq(S) /\ <<Head(t)>> \in Seq(S)
  BY HeadTailProperties
<1>2. t = <<Head(t)>> \o Tail(t)
  BY <1>1
<1>3. Append(s, Head(t)) = s \o <<Head(t)>>
  BY <1>1
<1>4. (s \o <<Head(t)>>) \o Tail(t) = s \o (<<Head(t)>> \o Tail(t))
  BY <1>1, ConcatAssociative
<1> QED BY <1>2, <1>3, <1>4

(* A concatenation without duplicates: neither list has any, nor a common *)
(* element.                                                               *)
LEMMA InjectiveParts ==
  ASSUME NEW S, NEW s \in Seq(S), NEW t \in Seq(S), IsInjective(s \o t)
  PROVE  /\ IsInjective(s) /\ IsInjective(t) /\ Range(s) \intersect Range(t) = {}
<1>1. /\ Len(s) \in Nat /\ Len(t) \in Nat
      /\ DOMAIN s = 1..Len(s) /\ DOMAIN t = 1..Len(t)
      /\ DOMAIN (s \o t) = 1..(Len(s) + Len(t))
      /\ \A i \in 1..(Len(s) + Len(t)) :
           (s \o t)[i] = IF i <= Len(s) THEN s[i] ELSE t[i - Len(s)]
  OBVIOUS
<1>2. /\ \A i \in 1..Len(s) : i \in 1..(Len(s) + Len(t)) /\ (s \o t)[i] = s[i]
      /\ \A i \in 1..Len(t) : /\ i + Len(s) \in 1..(Len(s) + Len(t))
                               /\ (s \o t)[i + Len(s)] = t[i]
      /\ \A i \in 1..Len(s), k \in 1..Len(t) : i # k + Len(s)
      /\ \A i, k \in 1..Len(t) : i + Len(s) = k + Len(s) => i = k
  BY <1>1
<1>3. \A i, k \in 1..(Len(s) + Len(t)) : (s \o t)[i] = (s \o t)[k] => i = k
  BY <1>1 DEF IsInjective
<1> HIDE DEF IsInjective
<1>4. IsInjective(s)
  BY <1>1, <1>2, <1>3 DEF IsInjective
<1>5. IsInjective(t)
  BY <1>1, <1>2, <1>3 DEF IsInjective
<1>6. ASSUME NEW x \in Range(s), x \in Range(t) PROVE FALSE
  <2>1. PICK i \in 1..Len(s) : s[i] = x
    BY <1>1 DEF Range
  <2>2. PICK k \in 1..Len(t) : t[k] = x
    BY <1>1, <1>6 DEF Range
  <2> QED BY <1>2, <1>3, <2>1, <2>2
<1> QED BY <1>4, <1>5, <1>6

-----------------------------------------------------------------------------
(* Folds over lists, by the least number of steps after which what is      *)
(* claimed would fail.                                                     *)

(* A set that has 0 and the successor of what it has, has every number. *)
LEMMA NatInductionSet ==
  ASSUME NEW T, 0 \in T, \A n \in Nat : n \in T => n + 1 \in T
  PROVE  \A n \in Nat : n \in T
<1>1. SUFFICES ASSUME NEW n0 \in Nat, n0 \notin T PROVE FALSE
  OBVIOUS
<1> DEFINE Bad == {n \in Nat : n \notin T}
<1>2. n0 \in Bad /\ Bad \subseteq Nat
  BY <1>1
<1>3. \E m \in Bad : \A n \in Bad : <<n, m>> \notin OpToRel(<, Nat)
  <2> HIDE DEF Bad
  <2> QED BY <1>2, WFMin, NatLessThanWellFounded, Zenon
<1>4. \E m \in Bad : \A n \in Bad : ~(n < m)
  <2> HIDE DEF Bad
  <2>1. \A n, m \in Bad : n \in Nat /\ m \in Nat
    BY <1>2
  <2> QED BY <1>3, <2>1, Zenon DEF OpToRel
<1>5. PICK m \in Bad : \A n \in Bad : ~(n < m)
  BY <1>4
<1>6. m # 0 /\ m \in Nat
  OBVIOUS
<1>7. m - 1 \in Nat /\ m - 1 < m /\ (m - 1) + 1 = m
  BY <1>6
<1>8. m - 1 \in T
  BY <1>5, <1>7
<1> QED BY <1>5, <1>7, <1>8

(* What holds of the start of a fold and is kept by each of its steps      *)
(* holds of its result.                                                    *)
LEMMA FoldKeeps ==
  ASSUME NEW V, NEW D, NEW fn \in [V \X D -> V], NEW b \in V, NEW s \in Seq(D),
         NEW Good, <<0, b>> \in Good,
         \A n \in 1..Len(s), v \in V : <<n - 1, v>> \in Good => <<n, fn[<<v, s[n]>>]>> \in Good
  PROVE  FoldBy(fn, b, s) \in V /\ <<Len(s), FoldBy(fn, b, s)>> \in Good
<1> DEFINE Runs(g, m) == /\ g \in [0..m -> V] /\ g[0] = b
                         /\ \A n \in 1..m : g[n] = fn[<<g[n - 1], s[n]>>]
           T == {m \in Nat : m <= Len(s) => \E g : Runs(g, m)}
           Eq(g) == g = [n \in 0..Len(s) |-> IF n = 0 THEN b ELSE fn[<<g[n - 1], s[n]>>]]
<1>0. Len(s) \in Nat /\ \A n \in 1..Len(s) : s[n] \in D
  OBVIOUS
<1>1. 0 \in T
  <2>1. Runs([n \in 0..0 |-> b], 0)
    OBVIOUS
  <2> QED BY <2>1
<1>2. ASSUME NEW m \in Nat, m \in T PROVE m + 1 \in T
  <2> SUFFICES ASSUME m + 1 <= Len(s) PROVE \E g : Runs(g, m + 1)
    OBVIOUS
  <2>1. PICK g : Runs(g, m)
    BY <1>0, <1>2
  <2>2. m + 1 \in 1..Len(s) /\ s[m + 1] \in D /\ g[m] \in V
    BY <1>0, <2>1
  <2>3. fn[<<g[m], s[m + 1]>>] \in V
    BY <2>2
  <2>4. PICK h : h = [n \in 0..(m + 1) |-> IF n = m + 1 THEN fn[<<g[m], s[m + 1]>>] ELSE g[n]]
    OBVIOUS
  <2>5. h \in [0..(m + 1) -> V]
    BY <2>1, <2>3, <2>4
  <2>6. h[0] = b
    BY <2>1, <2>4
  <2>7. ASSUME NEW n \in 1..(m + 1) PROVE h[n] = fn[<<h[n - 1], s[n]>>]
    <3>1. n \in 0..(m + 1) /\ n - 1 \in 0..(m + 1) /\ n # 0 /\ n - 1 # m + 1
      OBVIOUS
    <3>2. h[n - 1] = g[n - 1]
      BY <2>4, <3>1
    <3>3. CASE n = m + 1
      <4>1. h[n] = fn[<<g[m], s[m + 1]>>] /\ n - 1 = m
        BY <2>4, <3>1, <3>3
      <4> QED BY <3>2, <3>3, <4>1
    <3>4. CASE n # m + 1
      <4>1. n \in 1..m /\ h[n] = g[n]
        BY <2>4, <3>1, <3>4
      <4> QED BY <2>1, <3>2, <4>1
    <3> QED BY <3>3, <3>4
  <2>8. Runs(h, m + 1)
    BY <2>5, <2>6, <2>7
  <2> QED BY <2>8
<1>3. Len(s) \in T
  <2> HIDE DEF T
  <2> QED BY <1>0, <1>1, <1>2, NatInductionSet
<1>4. PICK g : Runs(g, Len(s))
  BY <1>0, <1>3
<1>5. Eq(g)
  BY <1>4
<1>6. PICK h : h = (CHOOSE acc : Eq(acc))
  OBVIOUS
<1>7. FoldBy(fn, b, s) = h[Len(s)]
  BY <1>6 DEF FoldBy
<1>8. Eq(h)
  <2> HIDE DEF Eq
  <2> QED BY <1>5, <1>6
<1> DEFINE U == {m \in Nat : m <= Len(s) => h[m] \in V /\ <<m, h[m]>> \in Good}
<1>9. 0 \in U
  BY <1>0, <1>8
<1>10. ASSUME NEW m \in Nat, m \in U PROVE m + 1 \in U
  <2> SUFFICES ASSUME m + 1 <= Len(s) PROVE h[m + 1] \in V /\ <<m + 1, h[m + 1]>> \in Good
    OBVIOUS
  <2>1. m + 1 \in 1..Len(s) /\ (m + 1) - 1 = m /\ m <= Len(s)
    BY <1>0
  <2>2. h[m] \in V /\ <<m, h[m]>> \in Good
    BY <1>10, <2>1
  <2>3. h[m + 1] = fn[<<h[m], s[m + 1]>>]
    BY <1>8, <2>1
  <2>4. s[m + 1] \in D
    BY <1>0, <2>1
  <2> QED BY <2>1, <2>2, <2>3, <2>4
<1>11. Len(s) \in U
  <2> HIDE DEF U
  <2> QED BY <1>0, <1>9, <1>10, NatInductionSet
<1> QED BY <1>0, <1>7, <1>11

(* What is kept of a list is what it has in common with the set, and keeps *)
(* it free of duplicates.                                                  *)
LEMMA KeepIs ==
  ASSUME NEW S, NEW s \in Seq(S), NEW X
  PROVE  /\ Keep(s, X) \in Seq(S) /\ Range(Keep(s, X)) = Range(s) \intersect X
         /\ IsInjective(s) => IsInjective(Keep(s, X))
<1> DEFINE R == Range(s)
           V == Seq(R)
           First(n) == {s[i] : i \in 1..n}
           fn == [at \in V \X R |-> IF at[2] \in X THEN Append(at[1], at[2]) ELSE at[1]]
           Good == {gt \in Nat \X V : /\ Range(gt[2]) = First(gt[1]) \intersect X
                                      /\ IsInjective(s) => IsInjective(gt[2])}
<1>1. /\ Len(s) \in Nat /\ DOMAIN s = 1..Len(s) /\ R = First(Len(s)) /\ s \in Seq(R)
      /\ R \subseteq S
  <2>1. Len(s) \in Nat /\ DOMAIN s = 1..Len(s) /\ \A i \in 1..Len(s) : s[i] \in S
    OBVIOUS
  <2>2. R = First(Len(s)) /\ R \subseteq S
    BY <2>1 DEF Range
  <2>3. s \in Seq(R)
    BY <2>1, <2>2
  <2> QED BY <2>1, <2>2, <2>3
<1>2. <<>> \in V /\ <<0, <<>>>> \in Good
  <2>1. <<>> \in V /\ Range(<<>>) = {} /\ IsInjective(<<>>)
    BY EmptyList
  <2>2. First(0) = {}
    OBVIOUS
  <2> HIDE DEF First, V
  <2> QED BY <2>1, <2>2
<1>3. fn \in [V \X R -> V]
  <2>1. ASSUME NEW t \in V, NEW x \in R
        PROVE  (IF x \in X THEN Append(t, x) ELSE t) \in V
    BY AppendList
  <2> HIDE DEF V, R
  <2>2. ASSUME NEW at \in V \X R
        PROVE  (IF at[2] \in X THEN Append(at[1], at[2]) ELSE at[1]) \in V
    BY <2>1
  <2> QED BY <2>2
<1>4. ASSUME NEW n \in 1..Len(s), NEW t \in V, <<n - 1, t>> \in Good
      PROVE  <<n, fn[<<t, s[n]>>]>> \in Good
  <2>1. /\ n \in Nat /\ s[n] \in R /\ First(n) = First(n - 1) \union {s[n]}
        /\ IsInjective(s) => s[n] \notin First(n - 1)
    <3>1. n \in Nat /\ n \in DOMAIN s /\ \A i \in 1..(n - 1) : i \in DOMAIN s /\ i # n
      BY <1>1
    <3>2. \A i \in 1..n : i \in 1..(n - 1) \/ i = n
      OBVIOUS
    <3>3. \A i \in 1..(n - 1) : i \in 1..n
      BY <3>1
    <3>4. n \in 1..n
      BY <3>1
    <3>5. First(n) = First(n - 1) \union {s[n]}
      BY <3>2, <3>3, <3>4
    <3> QED BY <3>1, <3>5 DEF IsInjective, Range
  <2>2. Range(t) = First(n - 1) \intersect X /\ (IsInjective(s) => IsInjective(t))
    BY <1>4
  <2>3. CASE s[n] \in X
    <3>1. fn[<<t, s[n]>>] = Append(t, s[n])
      BY <2>1, <2>3
    <3>2. /\ Append(t, s[n]) \in V /\ Range(Append(t, s[n])) = Range(t) \union {s[n]}
          /\ IsInjective(t) /\ s[n] \notin Range(t) => IsInjective(Append(t, s[n]))
      BY <2>1, AppendList
    <3>3. Range(Append(t, s[n])) = First(n) \intersect X
      BY <2>1, <2>2, <2>3, <3>2
    <3>4. IsInjective(s) => IsInjective(Append(t, s[n]))
      BY <2>1, <2>2, <3>2
    <3> HIDE DEF First, V
    <3> QED BY <2>1, <3>1, <3>2, <3>3, <3>4
  <2>4. CASE s[n] \notin X
    <3>1. fn[<<t, s[n]>>] = t
      BY <2>1, <2>4
    <3>2. Range(t) = First(n) \intersect X
      BY <2>1, <2>2, <2>4
    <3> HIDE DEF First, V
    <3> QED BY <2>1, <2>2, <3>1, <3>2
  <2> QED BY <2>3, <2>4
<1>5. FoldBy(fn, <<>>, s) \in V /\ <<Len(s), FoldBy(fn, <<>>, s)>> \in Good
  <2>1. s \in Seq(R) /\ <<>> \in V /\ <<0, <<>>>> \in Good /\ fn \in [V \X R -> V]
    BY <1>1, <1>2, <1>3
  <2> HIDE DEF fn, V, R, Good, First
  <2>2. \A n \in 1..Len(s), t \in V : <<n - 1, t>> \in Good => <<n, fn[<<t, s[n]>>]>> \in Good
    BY <1>4
  <2> QED BY <2>1, <2>2, FoldKeeps
<1>6. Keep(s, X) = FoldBy(fn, <<>>, s)
  BY DEF Keep
<1>7. /\ Keep(s, X) \in V /\ Range(Keep(s, X)) = First(Len(s)) \intersect X
      /\ IsInjective(s) => IsInjective(Keep(s, X))
  <2> HIDE DEF fn, V, First
  <2> QED BY <1>5, <1>6
<1>8. V \subseteq Seq(S)
  BY <1>1
<1> HIDE DEF First, V
<1> QED BY <1>1, <1>7, <1>8
=============================================================================
