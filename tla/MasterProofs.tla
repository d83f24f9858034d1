----------------------------- MODULE MasterProofs -----------------------------
(***************************************************************************)
(* The invariant of Master that holds whatever happens, a fault included,  *)
(* for every value of the constants: its types, and what the threads know  *)
(* of each other (Shape).  One lemma per action.                           *)
(***************************************************************************)
EXTENDS Master, SequenceTheorems, FiniteSetTheorems, TLAPS

-----------------------------------------------------------------------------
(* Facts about the lists of commons/collections/list.h: RemoveFirst is     *)
(* list_remove_element, InsertAt is list_add_in_index, and a list without  *)
(* repetitions stands for a set.                                           *)

\* A set of numbers that is not empty has a least one: what inductions over data rest on.
LEMMA LeastNat ==
  ASSUME NEW T, T \subseteq Nat, T # {}
  PROVE  \E m \in T : \A n \in T : m <= n
<1> DEFINE R == {ss \in Nat \X Nat : ss[1] < ss[2]}
<1>1. IsWellFoundedOn(R, Nat)
  BY NatLessThanWellFounded DEF OpToRel
<1>2. PICK x \in T : \A y \in T : ~(<<y, x>> \in R)
  <2> HIDE DEF R
  <2> QED BY <1>1, WFMin
<1>3. ASSUME NEW y \in T PROVE x <= y
  <2>1. ~(<<y, x>> \in R) BY <1>2
  <2>2. ~(y < x) BY <2>1 DEF R
  <2> QED BY <2>2
<1> QED BY <1>3

\* Min returns that number.
LEMMA MinIsLeast ==
  ASSUME NEW T, T \subseteq Nat, T # {}
  PROVE  Min(T) \in T /\ \A n \in T : Min(T) <= n
BY LeastNat DEF Min

\* A list without x is not changed by removing x.
LEMMA RemoveAbsent ==
  ASSUME NEW s, NEW x, \A i \in 1 .. Len(s) : s[i] # x
  PROVE  RemoveFirst(s, x) = s
BY DEF RemoveFirst

\* What is left of the places of a list after one of them is removed.
LEMMA RemoveAtPlaces ==
  ASSUME NEW S, NEW s \in Seq(S), NEW k \in 1 .. Len(s)
  PROVE  /\ RemoveAt(s, k) \in Seq(S)
         /\ Len(RemoveAt(s, k)) = Len(s) - 1
         /\ \A i \in 1 .. Len(s) - 1 : RemoveAt(s, k)[i] = s[IF i < k THEN i ELSE i + 1]
<1> DEFINE a == SubSeq(s, 1, k - 1)
           b == SubSeq(s, k + 1, Len(s))
<1>1. a \in Seq(S) /\ Len(a) = k - 1 /\ \A i \in 1 .. k - 1 : a[i] = s[i]
  BY SubSeqProperties, ElementOfSeq, LenProperties
<1>2. b \in Seq(S) /\ Len(b) = Len(s) - k /\ \A i \in 1 .. Len(s) - k : b[i] = s[i + k]
  BY SubSeqProperties, ElementOfSeq, LenProperties
<1>3. RemoveAt(s, k) = a \o b
  BY DEF RemoveAt
<1> HIDE DEF a, b
<1>4. a \o b \in Seq(S) /\ Len(a \o b) = Len(s) - 1
  <2>1. a \o b \in Seq(S) /\ Len(a \o b) = Len(a) + Len(b)
    BY <1>1, <1>2, ConcatProperties
  <2> QED BY <2>1, <1>1, <1>2, LenProperties
<1>5. ASSUME NEW i \in 1 .. Len(s) - 1 PROVE (a \o b)[i] = s[IF i < k THEN i ELSE i + 1]
  <2>1. (a \o b)[i] = IF i <= Len(a) THEN a[i] ELSE b[i - Len(a)]
    BY <1>1, <1>2, <1>4, ConcatProperties, LenProperties
  <2>2. Len(s) \in Nat /\ Len(a) = k - 1
    BY <1>1, LenProperties
  <2>3. CASE i < k
    <3>1. i \in 1 .. k - 1 /\ i <= Len(a)
      BY <2>2, <2>3
    <3> QED BY <2>1, <2>3, <3>1, <1>1
  <2>4. CASE ~(i < k)
    <3>1. i - Len(a) \in 1 .. Len(s) - k /\ ~(i <= Len(a)) /\ (i - Len(a)) + k = i + 1
      BY <2>2, <2>4
    <3> QED BY <2>1, <2>4, <3>1, <1>2
  <2> QED BY <2>3, <2>4
<1> QED
  BY <1>3, <1>4, <1>5

\* Removing x from a list that has it takes out one place that held x, the first.
LEMMA RemovePresent ==
  ASSUME NEW S, NEW s \in Seq(S), NEW x, \E i \in 1 .. Len(s) : s[i] = x
  PROVE  \E k \in 1 .. Len(s) :
            /\ s[k] = x /\ \A j \in 1 .. k - 1 : s[j] # x
            /\ RemoveFirst(s, x) = RemoveAt(s, k)
<1> DEFINE I == {i \in 1 .. Len(s) : s[i] = x}
<1>1. I \subseteq Nat /\ I # {}
  BY LenProperties
<1>2. Min(I) \in I /\ \A n \in I : Min(I) <= n
  <2> HIDE DEF I
  <2> QED BY <1>1, MinIsLeast
<1>3. SelectInSeq(s, LAMBDA v : v = x) = Min(I)
  BY <1>1 DEF SelectInSeq
<1>4. RemoveFirst(s, x) = RemoveAt(s, Min(I))
  BY <1>3 DEF RemoveFirst
<1> QED
  <2> DEFINE k == Min(I)
  <2>1. k \in 1 .. Len(s) /\ s[k] = x BY <1>2
  <2>2. \A j \in 1 .. k - 1 : s[j] # x
    <3> SUFFICES ASSUME NEW j \in 1 .. k - 1, s[j] = x PROVE FALSE
      OBVIOUS
    <3>1. j \in I BY <2>1, LenProperties
    <3>2. k <= j BY <1>2, <3>1
    <3> HIDE DEF k
    <3> QED BY <2>1, <3>2, LenProperties
  <2> HIDE DEF k
  <2>3. RemoveFirst(s, x) = RemoveAt(s, k) BY <1>4 DEF k
  <2> QED BY <2>1, <2>2, <2>3

\* Removing leaves a list of the same kind.
LEMMA RemoveType ==
  ASSUME NEW S, NEW s \in Seq(S), NEW x
  PROVE  RemoveFirst(s, x) \in Seq(S)
<1>1. CASE \E i \in 1 .. Len(s) : s[i] = x
  <2>1. PICK k \in 1 .. Len(s) : RemoveFirst(s, x) = RemoveAt(s, k)
    BY <1>1, RemovePresent
  <2> QED BY <2>1, RemoveAtPlaces
<1>2. CASE \A i \in 1 .. Len(s) : s[i] # x
  BY <1>2, RemoveAbsent
<1> QED BY <1>1, <1>2

\* The places of a list after an insertion.
LEMMA InsertPlaces ==
  ASSUME NEW S, NEW s \in Seq(S), NEW k \in 1 .. Len(s) + 1, NEW x \in S
  PROVE  /\ InsertAt(s, k, x) \in Seq(S)
         /\ Len(InsertAt(s, k, x)) = Len(s) + 1
         /\ \A i \in 1 .. Len(s) + 1 :
               InsertAt(s, k, x)[i] = IF i < k THEN s[i] ELSE IF i = k THEN x ELSE s[i - 1]
<1> DEFINE a == SubSeq(s, 1, k - 1)
           b == SubSeq(s, k, Len(s))
           c == a \o <<x>>
<1>1. a \in Seq(S) /\ Len(a) = k - 1 /\ \A i \in 1 .. k - 1 : a[i] = s[i]
  BY SubSeqProperties, ElementOfSeq, LenProperties
<1>2. b \in Seq(S) /\ Len(b) = Len(s) - k + 1 /\ \A i \in 1 .. Len(s) - k + 1 : b[i] = s[i + k - 1]
  BY SubSeqProperties, ElementOfSeq, LenProperties
<1>3. InsertAt(s, k, x) = c \o b
  BY DEF InsertAt
<1>4. /\ <<x>> \in Seq(S) /\ Len(<<x>>) = 1 /\ <<x>>[1] = x
  OBVIOUS
<1>5. c \in Seq(S) /\ Len(c) = k /\ \A i \in 1 .. k : c[i] = IF i < k THEN s[i] ELSE x
  <2> HIDE DEF a, b
  <2> QED BY <1>1, <1>4, ConcatProperties, LenProperties
<1> HIDE DEF a, b, c
<1>6. c \o b \in Seq(S) /\ Len(c \o b) = Len(s) + 1
  <2>1. c \o b \in Seq(S) /\ Len(c \o b) = Len(c) + Len(b)
    BY <1>2, <1>5, ConcatProperties
  <2> QED BY <2>1, <1>2, <1>5, LenProperties
<1>7. ASSUME NEW i \in 1 .. Len(s) + 1
      PROVE  (c \o b)[i] = IF i < k THEN s[i] ELSE IF i = k THEN x ELSE s[i - 1]
  <2>1. (c \o b)[i] = IF i <= Len(c) THEN c[i] ELSE b[i - Len(c)]
    BY <1>2, <1>5, <1>6, ConcatProperties, LenProperties
  <2> QED BY <2>1, <1>2, <1>5, LenProperties
<1> QED
  BY <1>3, <1>6, <1>7

-----------------------------------------------------------------------------
(* Lists without repetitions.                                              *)

\* Removing an element removes it from the set the list stands for and leaves no repetition.
LEMMA RemoveDistinct ==
  ASSUME NEW S, NEW s \in Seq(S), IsInjective(s), NEW x \in Range(s)
  PROVE  /\ RemoveFirst(s, x) \in Seq(S)
         /\ Len(RemoveFirst(s, x)) = Len(s) - 1
         /\ IsInjective(RemoveFirst(s, x))
         /\ Range(RemoveFirst(s, x)) = Range(s) \ {x}
<1>1. DOMAIN s = 1 .. Len(s) /\ Len(s) \in Nat
  BY LenProperties
<1>2. PICK k \in 1 .. Len(s) : s[k] = x /\ RemoveFirst(s, x) = RemoveAt(s, k)
  <2>1. \E i \in 1 .. Len(s) : s[i] = x
    BY <1>1 DEF Range
  <2> QED BY <2>1, RemovePresent
<1> DEFINE t == RemoveAt(s, k)
<1>3. /\ t \in Seq(S) /\ Len(t) = Len(s) - 1
      /\ \A i \in 1 .. Len(s) - 1 : t[i] = s[IF i < k THEN i ELSE i + 1]
  BY RemoveAtPlaces
<1> HIDE DEF t
<1>4. DOMAIN t = 1 .. Len(s) - 1
  BY <1>3, LenProperties
<1>5. IsInjective(t)
  <2> SUFFICES ASSUME NEW i \in 1 .. Len(s) - 1, NEW j \in 1 .. Len(s) - 1, t[i] = t[j]
               PROVE  i = j
    BY <1>4 DEF IsInjective
  <2>1. s[IF i < k THEN i ELSE i + 1] = s[IF j < k THEN j ELSE j + 1]
    BY <1>3
  <2>2. (IF i < k THEN i ELSE i + 1) \in DOMAIN s /\ (IF j < k THEN j ELSE j + 1) \in DOMAIN s
    BY <1>1
  <2>3. (IF i < k THEN i ELSE i + 1) = (IF j < k THEN j ELSE j + 1)
    BY <2>1, <2>2 DEF IsInjective
  <2> QED BY <2>3, <1>1
<1>6. ASSUME NEW y PROVE y \in Range(t) <=> y \in Range(s) \ {x}
  <2>1. ASSUME NEW i \in 1 .. Len(s) - 1, y = t[i] PROVE y \in Range(s) \ {x}
    <3>0. t[i] = s[IF i < k THEN i ELSE i + 1]
      BY <1>3
    <3>1. PICK j \in 1 .. Len(s) : y = s[j] /\ j # k
      <4>1. (IF i < k THEN i ELSE i + 1) \in 1 .. Len(s) /\ (IF i < k THEN i ELSE i + 1) # k
        BY <1>1
      <4> QED BY <4>1, <3>0, <2>1
    <3> QED BY <3>1, <1>1, <1>2 DEF Range, IsInjective
  <2>2. ASSUME NEW j \in 1 .. Len(s), y = s[j], y # x PROVE \E i \in 1 .. Len(s) - 1 : y = t[i]
    <3>1. j # k BY <2>2, <1>2
    <3>2. CASE j < k BY <3>2, <2>2, <1>3, <1>1
    <3>3. CASE j > k
      <4>1. j - 1 \in 1 .. Len(s) - 1 /\ ~(j - 1 < k) /\ (j - 1) + 1 = j BY <3>3, <1>1
      <4> QED BY <4>1, <2>2, <1>3
    <3> QED BY <3>1, <3>2, <3>3, <1>1
  <2> QED BY <2>1, <2>2, <1>1, <1>4 DEF Range
<1>7. Range(t) = Range(s) \ {x}
  BY <1>6
<1> QED
  BY <1>2, <1>3, <1>5, <1>7 DEF t

\* Inserting an element that was not there adds it to the set and repeats nothing.
LEMMA InsertDistinct ==
  ASSUME NEW S, NEW s \in Seq(S), NEW x \in S, NEW k \in 1 .. Len(s) + 1
  PROVE  /\ InsertAt(s, k, x) \in Seq(S)
         /\ Len(InsertAt(s, k, x)) = Len(s) + 1
         /\ Range(InsertAt(s, k, x)) = Range(s) \cup {x}
         /\ IsInjective(s) /\ x \notin Range(s) => IsInjective(InsertAt(s, k, x))
<1>1. DOMAIN s = 1 .. Len(s) /\ Len(s) \in Nat
  BY LenProperties
<1> DEFINE t == InsertAt(s, k, x)
<1> HIDE DEF t
<1>2. /\ t \in Seq(S)
      /\ Len(t) = Len(s) + 1
      /\ \A i \in 1 .. Len(s) + 1 : t[i] = IF i < k THEN s[i] ELSE IF i = k THEN x ELSE s[i - 1]
  <2>1. /\ InsertAt(s, k, x) \in Seq(S)
        /\ Len(InsertAt(s, k, x)) = Len(s) + 1
        /\ \A i \in 1 .. Len(s) + 1 :
              InsertAt(s, k, x)[i] = IF i < k THEN s[i] ELSE IF i = k THEN x ELSE s[i - 1]
    BY InsertPlaces
  <2> QED BY <2>1 DEF t
<1>3. DOMAIN t = 1 .. Len(s) + 1
  BY <1>2, LenProperties
<1>4. ASSUME NEW y PROVE y \in Range(t) <=> y \in Range(s) \cup {x}
  <2>1. ASSUME NEW i \in 1 .. Len(s) + 1, y = t[i] PROVE y \in Range(s) \cup {x}
    <3>1. y = x \/ \E j \in 1 .. Len(s) : y = s[j]
      BY <2>1, <1>2, <1>1
    <3> QED BY <3>1, <1>1 DEF Range
  <2>2. x \in Range(t)
    <3>1. t[k] = x BY <1>2, <1>1
    <3> QED BY <3>1, <1>1, <1>3 DEF Range
  <2>3. ASSUME NEW j \in 1 .. Len(s), y = s[j] PROVE \E i \in 1 .. Len(s) + 1 : y = t[i]
    <3>1. CASE j < k BY <3>1, <2>3, <1>2, <1>1
    <3>2. CASE j >= k
      <4>1. j + 1 \in 1 .. Len(s) + 1 /\ ~(j + 1 < k) /\ j + 1 # k /\ (j + 1) - 1 = j
        BY <3>2, <1>1
      <4> QED BY <4>1, <2>3, <1>2
    <3> QED BY <3>1, <3>2, <1>1
  <2> QED BY <2>1, <2>2, <2>3, <1>1, <1>3 DEF Range
<1>5. ASSUME IsInjective(s), x \notin Range(s) PROVE IsInjective(t)
  <2> SUFFICES ASSUME NEW i \in 1 .. Len(s) + 1, NEW j \in 1 .. Len(s) + 1, i < j
               PROVE  t[i] # t[j]
    BY <1>1, <1>3 DEF IsInjective
  <2>1. \A m \in 1 .. Len(s) : s[m] # x
    BY <1>5, <1>1 DEF Range
  <2>2. \A m, n \in 1 .. Len(s) : m # n => s[m] # s[n]
    BY <1>5, <1>1 DEF IsInjective
  <2>3. CASE i = k
    BY <2>3, <2>1, <1>2, <1>1
  <2>4. CASE j = k
    BY <2>4, <2>1, <1>2, <1>1
  <2>5. CASE i # k /\ j # k
    BY <2>5, <2>2, <1>2, <1>1
  <2> QED BY <2>3, <2>4, <2>5
<1> QED
  BY <1>2, <1>4, <1>5 DEF t

\* The same at the end.
LEMMA AppendDistinct ==
  ASSUME NEW S, NEW s \in Seq(S), NEW x \in S
  PROVE  /\ Append(s, x) \in Seq(S) /\ Len(Append(s, x)) = Len(s) + 1
         /\ Range(Append(s, x)) = Range(s) \cup {x}
         /\ IsInjective(s) /\ x \notin Range(s) => IsInjective(Append(s, x))
<1>1. DOMAIN s = 1 .. Len(s) /\ Len(s) \in Nat
  BY LenProperties
<1> DEFINE t == Append(s, x)
<1>2. /\ t \in Seq(S) /\ Len(t) = Len(s) + 1 /\ t[Len(s) + 1] = x
      /\ \A i \in 1 .. Len(s) : t[i] = s[i]
  BY AppendProperties, LenProperties
<1> HIDE DEF t
<1>3. DOMAIN t = 1 .. Len(s) + 1
  BY <1>2, LenProperties
<1>4. ASSUME NEW y PROVE y \in Range(t) <=> y \in Range(s) \cup {x}
  BY <1>1, <1>2, <1>3 DEF Range
<1>5. ASSUME IsInjective(s), x \notin Range(s) PROVE IsInjective(t)
  <2> SUFFICES ASSUME NEW i \in 1 .. Len(s) + 1, NEW j \in 1 .. Len(s) + 1, i < j
               PROVE  t[i] # t[j]
    BY <1>1, <1>3 DEF IsInjective
  <2>1. \A m \in 1 .. Len(s) : s[m] # x
    BY <1>5, <1>1 DEF Range
  <2>2. \A m, n \in 1 .. Len(s) : m # n => s[m] # s[n]
    BY <1>5, <1>1 DEF IsInjective
  <2> QED BY <2>1, <2>2, <1>2, <1>1
<1> QED
  BY <1>2, <1>4, <1>5 DEF t

\* Taking the head of a list is removing it.
LEMMA HeadIsFirst ==
  ASSUME NEW S, NEW s \in Seq(S), s # <<>>
  PROVE  /\ Head(s) \in Range(s) /\ Head(s) = s[1] /\ Head(s) \in S
         /\ Tail(s) = RemoveFirst(s, Head(s))
<1>1. DOMAIN s = 1 .. Len(s) /\ Len(s) \in Nat /\ Len(s) >= 1 /\ Head(s) = s[1]
  BY LenProperties, HeadTailProperties, EmptySeq
<1>2. PICK k \in 1 .. Len(s) :
         /\ s[k] = s[1] /\ \A j \in 1 .. k - 1 : s[j] # s[1]
         /\ RemoveFirst(s, s[1]) = RemoveAt(s, k)
  BY <1>1, RemovePresent
<1>3. k = 1
  BY <1>1, <1>2
<1>4. Tail(s) = RemoveAt(s, 1)
  <2>0. 1 \in 1 .. Len(s)
    BY <1>1
  <2>1. /\ RemoveAt(s, 1) \in Seq(S)
        /\ Len(RemoveAt(s, 1)) = Len(s) - 1
        /\ \A i \in 1 .. Len(s) - 1 : RemoveAt(s, 1)[i] = s[IF i < 1 THEN i ELSE i + 1]
    BY <2>0, RemoveAtPlaces, Zenon
  <2>2. Tail(s) \in Seq(S) /\ Len(Tail(s)) = Len(s) - 1
        /\ \A i \in 1 .. Len(s) - 1 : Tail(s)[i] = s[i + 1]
    BY <1>1, HeadTailProperties, LenProperties
  <2> QED BY <2>1, <2>2, <1>1, SeqEqual
<1> QED BY <1>1, <1>2, <1>3, <1>4, HeadTailProperties DEF Range

\* A list without repetitions has as many places as the set has members.
LEMMA DistinctCount ==
  ASSUME NEW S, NEW s \in Seq(S), IsInjective(s)
  PROVE  IsFiniteSet(Range(s)) /\ Cardinality(Range(s)) = Len(s)
<1>1. DOMAIN s = 1 .. Len(s) /\ Len(s) \in Nat
  BY LenProperties
<1>2. IsFiniteSet(1 .. Len(s)) /\ Cardinality(1 .. Len(s)) = Len(s)
  BY <1>1, FS_Interval
<1>3. ExistsBijection(1 .. Len(s), Range(s))
  <2>1. s \in Bijection(1 .. Len(s), Range(s))
    BY <1>1, LenProperties DEF Bijection, Injection, Surjection, IsInjective, Range
  <2> QED BY <2>1 DEF ExistsBijection
<1> QED BY <1>1, <1>2, <1>3, FS_Bijection

\* The same for the places whose member is in a set, and for two lists one after the other.
LEMMA PlacesCounted ==
  ASSUME NEW S, NEW s \in Seq(S), IsInjective(s), NEW T
  PROVE  /\ IsFiniteSet({x \in Range(s) : x \in T})
         /\ Cardinality({i \in DOMAIN s : s[i] \in T}) = Cardinality({x \in Range(s) : x \in T})
<1>1. DOMAIN s = 1 .. Len(s) /\ Len(s) \in Nat
  BY LenProperties
<1> DEFINE I == {i \in DOMAIN s : s[i] \in T}
           X == {x \in Range(s) : x \in T}
           f == [i \in I |-> s[i]]
<1>2. IsFiniteSet(I)
  <2>1. I \subseteq 1 .. Len(s)
    BY <1>1
  <2>2. IsFiniteSet(1 .. Len(s))
    BY <1>1, FS_Interval
  <2> HIDE DEF I
  <2> QED BY <2>1, <2>2, FS_Subset
<1>3. f \in Bijection(I, X)
  <2>1. f \in [I -> X] /\ \A a, b \in I : f[a] = f[b] => a = b
    BY DEF Range, IsInjective
  <2>2. \A x \in X : \E i \in I : f[i] = x
    BY DEF Range
  <2> HIDE DEF I, X, f
  <2> QED BY <2>1, <2>2 DEF Bijection, Injection, Surjection, IsInjective
<1>4. ExistsBijection(I, X)
  BY <1>3 DEF ExistsBijection
<1> HIDE DEF I, X
<1>5. IsFiniteSet(X) /\ Cardinality(I) = Cardinality(X)
  BY <1>2, <1>4, FS_Bijection
<1> QED BY <1>5 DEF I, X

\* Two lists with nothing in common, one after the other.
LEMMA ConcatDistinct ==
  ASSUME NEW S, NEW s \in Seq(S), NEW t \in Seq(S), IsInjective(s), IsInjective(t),
         Range(s) \cap Range(t) = {}
  PROVE  /\ s \o t \in Seq(S) /\ IsInjective(s \o t)
         /\ Range(s \o t) = Range(s) \cup Range(t)
<1> DEFINE u == s \o t
<1>1. /\ Len(s) \in Nat /\ DOMAIN s = 1 .. Len(s) /\ Len(t) \in Nat /\ DOMAIN t = 1 .. Len(t)
  BY LenProperties
<1>2. /\ u \in Seq(S) /\ Len(u) = Len(s) + Len(t) /\ DOMAIN u = 1 .. Len(s) + Len(t)
      /\ \A i \in 1 .. Len(s) + Len(t) : u[i] = IF i <= Len(s) THEN s[i] ELSE t[i - Len(s)]
  BY ConcatProperties, LenProperties
<1> HIDE DEF u
<1>3. \A i \in 1 .. Len(s) : u[i] = s[i] /\ i \in DOMAIN u
  BY <1>1, <1>2
<1>4. \A i \in 1 .. Len(t) : u[i + Len(s)] = t[i] /\ i + Len(s) \in DOMAIN u
  BY <1>1, <1>2
<1>5. \A i \in DOMAIN u : \/ i \in 1 .. Len(s) /\ u[i] = s[i]
                          \/ i - Len(s) \in 1 .. Len(t) /\ u[i] = t[i - Len(s)]
  BY <1>1, <1>2
<1>6. Range(u) = Range(s) \cup Range(t)
  <2>1. ASSUME NEW x \in Range(s) \cup Range(t) PROVE x \in Range(u)
    BY <1>1, <1>3, <1>4, <2>1 DEF Range
  <2>2. ASSUME NEW x \in Range(u) PROVE x \in Range(s) \cup Range(t)
    BY <1>1, <1>5, <2>2 DEF Range
  <2> QED BY <2>1, <2>2
<1>7. IsInjective(u)
  <2> SUFFICES ASSUME NEW i \in DOMAIN u, NEW j \in DOMAIN u, u[i] = u[j] PROVE i = j
    BY DEF IsInjective
  <2>1. \A a \in 1 .. Len(s), b \in 1 .. Len(t) : s[a] # t[b]
    BY <1>1 DEF Range
  <2>2. /\ \A a, b \in 1 .. Len(s) : s[a] = s[b] => a = b
        /\ \A a, b \in 1 .. Len(t) : t[a] = t[b] => a = b
    BY <1>1 DEF IsInjective
  <2>3. i \in Int /\ j \in Int
    BY <1>1, <1>2
  <2>4. CASE i \in 1 .. Len(s) /\ u[i] = s[i]
    BY <2>1, <2>2, <2>4, <1>5
  <2>5. CASE i - Len(s) \in 1 .. Len(t) /\ u[i] = t[i - Len(s)]
    <3>1. j - Len(s) \in 1 .. Len(t) /\ u[j] = t[j - Len(s)]
      BY <2>1, <2>5, <1>5
    <3>2. i - Len(s) = j - Len(s)
      BY <2>2, <2>5, <3>1
    <3> QED BY <3>2, <2>3, <1>1
  <2> QED BY <2>4, <2>5, <1>5
<1> QED BY <1>2, <1>6, <1>7 DEF u

\* Among some places of a list of numbers there is a first one of the greatest.
LEMMA FirstGreatest ==
  ASSUME NEW n \in Nat, NEW P \in [1 .. n -> Nat], NEW C \in SUBSET (1 .. n), C # {}
  PROVE  \E i \in C : \A j \in C : P[j] < P[i] \/ (P[j] = P[i] /\ i <= j)
<1> DEFINE Best(i, m) == \A j \in C : j <= m => P[j] < P[i] \/ (P[j] = P[i] /\ i <= j)
           bad == {m \in 0 .. n : \A i \in C : ~Best(i, m)}
<1>1. ASSUME bad # {} PROVE FALSE
  <2>1. PICK m \in bad : \A l \in bad : m <= l
    <3>1. bad \subseteq Nat
      OBVIOUS
    <3> HIDE DEF bad
    <3> QED BY <1>1, <3>1, LeastNat
  <2>2. m \in 0 .. n /\ \A i \in C : ~Best(i, m)
    BY <2>1
  <2>3. m # 0
    <3>1. PICK i \in C : TRUE
      OBVIOUS
    <3>2. Best(i, 0)
      OBVIOUS
    <3> QED BY <3>1, <3>2, <2>2
  <2>4. m - 1 \in 0 .. n /\ m - 1 \notin bad
    <3>1. m - 1 \in 0 .. n /\ ~(m <= m - 1)
      BY <2>2, <2>3
    <3> HIDE DEF bad
    <3> QED BY <2>1, <3>1
  <2>5. PICK i \in C : Best(i, m - 1)
    BY <2>4
  <2>6. CASE m \in C /\ (P[i] < P[m] \/ (P[i] = P[m] /\ m < i))
    <3>1. ASSUME NEW j \in C, j <= m PROVE P[j] < P[m] \/ (P[j] = P[m] /\ m <= j)
      <4>1. CASE j = m
        BY <4>1, <2>2
      <4>2. CASE j # m
        <5>1. P[j] < P[i] \/ (P[j] = P[i] /\ i <= j)
          BY <4>2, <3>1, <2>2, <2>5
        <5>2. P[j] \in Nat /\ P[i] \in Nat /\ P[m] \in Nat /\ i \in Nat /\ j \in Nat /\ m \in Nat
          BY <2>6, <2>2
        <5> HIDE DEF Best, bad
        <5>3. CASE P[i] < P[m]
          BY <5>1, <5>2, <5>3
        <5>4. CASE P[i] = P[m] /\ m < i
          BY <5>1, <5>2, <5>4
        <5> QED BY <5>3, <5>4, <2>6
      <4> QED BY <4>1, <4>2
    <3>2. Best(m, m)
      BY <3>1
    <3> QED BY <3>2, <2>2, <2>6
  <2>7. CASE ~(m \in C /\ (P[i] < P[m] \/ (P[i] = P[m] /\ m < i)))
    <3>1. ASSUME NEW j \in C, j <= m PROVE P[j] < P[i] \/ (P[j] = P[i] /\ i <= j)
      <4>1. CASE j = m
        <5>1. P[i] \in Nat /\ P[m] \in Nat /\ i \in Nat /\ m \in Nat
          BY <2>2, <4>1
        <5> QED BY <5>1, <4>1, <2>7
      <4>2. CASE j # m
        BY <4>2, <3>1, <2>2, <2>5
      <4> QED BY <4>1, <4>2
    <3>2. Best(i, m)
      BY <3>1
    <3> QED BY <3>2, <2>2
  <2> QED BY <2>6, <2>7
<1>2. PICK i \in C : Best(i, n)
  <2>1. n \in 0 .. n
    OBVIOUS
  <2>2. n \notin bad
    <3> HIDE DEF bad
    <3> QED BY <1>1
  <2> HIDE DEF Best
  <2> QED BY <2>1, <2>2
<1>3. \A j \in C : j <= n
  OBVIOUS
<1> QED BY <1>2, <1>3

-----------------------------------------------------------------------------
(* The types, named.                                                       *)

QueryTypes  == [prioridad : Nat, interrumpir : BOOLEAN, worker : Workers \cup {None},
                state : {"READY", "EXEC", "FINISHED"}]
WorkerTypes == [state : {"READY", "EXEC"}, query : Queries \cup {None}, interrumpir : BOOLEAN,
                error : BOOLEAN, posted : BOOLEAN]
SemTypes    == [{"ready", "workers", "int", "asign", "check"} -> Nat]
LocTypes    == [{"query", "head", "victim"} -> Queries \cup {None}]

QueriesTyped == query \in [Queries -> QueryTypes]
WorkersTyped == worker \in [Workers -> WorkerTypes]
SyncTyped    == /\ sem \in SemTypes /\ signalAsign \in BOOLEAN
                /\ mutexReady \in Checkers \cup {None}
ListsTyped   == /\ ready \in Seq(Queries) /\ exec \in Seq(Queries) /\ workers \in Seq(Workers)
                /\ freed \subseteq Queries
ThreadsTyped ==
    /\ pc \in [Checkers -> {"idle", "post", "test", "sleep", "check", "look", "victim", "set",
                            "wait_int", "wait_asign"}]
    /\ plan \in {"wait", "pair", "signal"} /\ taken \in Queries \cup {None}
    /\ wpc \in [Workers -> {"off", "recv", "replied", "requeued", "over", "silent", "gone"}]
    /\ result \in [Workers -> BOOLEAN]
    /\ qpc \in [Queries -> {"off", "accepted", "recv", "copy", "blocked", "destroy", "gone"}]
    /\ up \in BOOLEAN /\ fault \in BOOLEAN
LocalsTyped == loc \in [Checkers -> LocTypes]

Types == QueriesTyped /\ WorkersTyped /\ SyncTyped /\ ListsTyped /\ ThreadsTyped /\ LocalsTyped

\* The type invariant in parts.
LEMMA TypeParts == Types <=> TypeOK
BY DEF Types, TypeOK, QueriesTyped, WorkersTyped, SyncTyped, ListsTyped, ThreadsTyped, LocalsTyped,
       QueryTypes, WorkerTypes, SemTypes, LocTypes

-----------------------------------------------------------------------------
(* The inductive invariant, part by part.                                  *)

Busy(w) == worker[w].state = "EXEC"
Alive   == {q \in Queries : qpc[q] # "off" /\ query[q].state # "FINISHED"}
Held    == IF plan = "pair" THEN {taken} ELSE {}

\* sem_check_prior lets one thread into check_prior, and who has looked keeps mutex_ready until
\* its answer comes.
OneChecker ==
    LET inside == {"look", "victim", "set", "wait_int", "wait_asign"}
    IN  /\ sem.check \in {0, 1}
        /\ \A c \in Checkers : pc[c] \in inside => sem.check = 0
        /\ \A c, d \in Checkers : pc[c] \in inside /\ pc[d] \in inside => c = d
        /\ \A c \in Checkers : mutexReady = c <=> pc[c] \in {"victim", "set", "wait_int"}

\* A thread that works on a query has one.
CheckersHave ==
    /\ \A c \in Checkers : pc[c] # "idle" => loc[c].query \in Queries
    /\ \A c \in Checkers : pc[c] \in {"set", "wait_int"} => loc[c].victim \in Queries
WorkersHave ==
    /\ \A w \in Workers : Busy(w) => worker[w].query \in Queries
    /\ \A w \in Workers : wpc[w] \in {"replied", "requeued", "over"} => Busy(w)
HaveQueries == CheckersHave /\ WorkersHave /\ (plan # "wait" => taken \in Queries)

\* The accept loop does not age and the aging threads do not accept; with FIFO nobody checks.
Roles ==
    /\ pc[Acceptor] \notin {"test", "sleep"}
    /\ \A a \in Agers : pc[a] # "post"
    /\ Algorithm = "FIFO" => \A c \in Checkers : pc[c] \in {"idle", "post"}

Shape == Types /\ OneChecker /\ HaveQueries /\ Roles

-----------------------------------------------------------------------------
(* Facts the steps need.                                                   *)

\* What the assumption on the constants says, in the parts the proofs cite.
LEMMA Constants ==
  /\ Algorithm \in {"FIFO", "PRIORIDADES"} /\ Priorities \subseteq Nat
  /\ Acceptor \notin Agers
  /\ None \notin Queries /\ None \notin Workers /\ None \notin Agers /\ None # Acceptor
  /\ Checkers = Agers \cup {Acceptor} /\ None \notin Checkers
BY MasterAssumption DEF Checkers

\* A sorted insertion is an insertion somewhere.
LEMMA SortedInserts ==
  ASSUME NEW s \in Seq(Queries), NEW q \in Queries, NEW p, NEW t \in Sorted(s, q, p)
  PROVE  /\ t \in Seq(Queries) /\ Len(t) = Len(s) + 1
         /\ Range(t) = Range(s) \cup {q}
         /\ IsInjective(s) /\ q \notin Range(s) => IsInjective(t)
         /\ \E k \in 1 .. Len(s) + 1 : t = InsertAt(s, k, q)
<1>1. PICK k \in 1 .. Len(s) + 1 : t = InsertAt(s, k, q)
  BY DEF Sorted
<1> QED BY <1>1, InsertDistinct

\* The victim is one of the queries that execute, and no candidate has a higher priority.
LEMMA VictimaExecutes ==
  ASSUME Types, exec # <<>>
  PROVE  Victima \in Range(exec) /\ Victima \in Queries
<1> DEFINE candidates == {i \in DOMAIN exec : \/ i = 1
                                              \/ ~Interrupted(exec[i])}
           P == [i \in 1 .. Len(exec) |-> Prior(exec[i])]
<1>1. /\ exec \in Seq(Queries) /\ Len(exec) \in Nat /\ Len(exec) >= 1
      /\ DOMAIN exec = 1 .. Len(exec)
  BY LenProperties, EmptySeq DEF Types, ListsTyped
<1>2. \A i \in 1 .. Len(exec) : Prior(exec[i]) \in Nat /\ exec[i] \in Queries
  BY <1>1, ElementOfSeq DEF Types, QueriesTyped, QueryTypes, Prior
<1>3. P \in [1 .. Len(exec) -> Nat]
  BY <1>2
<1>4. candidates \in SUBSET (1 .. Len(exec)) /\ 1 \in candidates
  BY <1>1
<1>5. \E i \in candidates : \A j \in candidates : P[j] < P[i] \/ (P[j] = P[i] /\ i <= j)
  <2> HIDE DEF candidates, P
  <2> QED BY <1>1, <1>3, <1>4, FirstGreatest
<1> DEFINE k == CHOOSE k \in candidates : \A j \in candidates :
                   \/ Prior(exec[j]) < Prior(exec[k])
                   \/ Prior(exec[j]) = Prior(exec[k]) /\ k <= j
<1>6. k \in candidates
  <2>1. \A i \in candidates : P[i] = Prior(exec[i])
    BY <1>4
  <2> HIDE DEF candidates, P
  <2> QED BY <1>5, <2>1
<1>7. Victima = exec[k]
  BY DEF Victima
<1> QED
  <2> HIDE DEF k
  <2>1. k \in 1 .. Len(exec) BY <1>6, <1>4
  <2> QED BY <2>1, <1>7, <1>1, <1>2 DEF Range

\* The planner hands the query to a worker of the list that is free.
LEMMA FreeWorker ==
  ASSUME Types, FreeWorkers # {}
  PROVE  LET w == workers[Min(FreeWorkers)]
         IN  w \in Workers /\ w \in Range(workers) /\ Free(w)
<1>1. FreeWorkers \subseteq Nat /\ workers \in Seq(Workers) /\ DOMAIN workers = 1 .. Len(workers)
  BY LenProperties DEF FreeWorkers, Types, ListsTyped
<1>2. Min(FreeWorkers) \in FreeWorkers
  BY <1>1, MinIsLeast
<1> QED BY <1>1, <1>2, ElementOfSeq DEF FreeWorkers, Range

\* A thread that returns from check_prior keeps its query and forgets the rest.
LEMMA Returned ==
  ASSUME Types, NEW c \in Checkers, CheckReturns(c)
  PROVE  /\ pc'[c] = IF c = Acceptor THEN "post" ELSE "test"
         /\ \A d \in Checkers : d # c => pc'[d] = pc[d] /\ loc'[d] = loc[d]
         /\ \A d \in Checkers : loc'[d].query = loc[d].query
<1>1. loc' = [loc EXCEPT ![c] = [@ EXCEPT !.head = None, !.victim = None]]
  BY DEF CheckReturns
<1>2. pc' = [pc EXCEPT ![c] = IF c = Acceptor THEN "post" ELSE "test"]
  BY DEF CheckReturns, Goto
<1> QED BY <1>1, <1>2 DEF Types, ThreadsTyped, LocalsTyped, LocTypes

-----------------------------------------------------------------------------
(* What an assignment to a field leaves of the types.                      *)

\* The assignments to a query_t keep it one.
LEMMA QueryFields ==
  ASSUME NEW f \in [Queries -> QueryTypes], NEW q
  PROVE  /\ \A v \in {"READY", "EXEC", "FINISHED"} : [f EXCEPT ![q].state = v] \in [Queries -> QueryTypes]
         /\ \A v \in BOOLEAN : [f EXCEPT ![q].interrumpir = v] \in [Queries -> QueryTypes]
         /\ \A v \in Nat : [f EXCEPT ![q].prioridad = v] \in [Queries -> QueryTypes]
         /\ \A v \in {"READY", "EXEC", "FINISHED"}, w \in Workers :
               [f EXCEPT ![q].worker = w, ![q].state = v] \in [Queries -> QueryTypes]
<1>1. ASSUME NEW r \in QueryTypes
      PROVE  /\ \A v \in {"READY", "EXEC", "FINISHED"} : [r EXCEPT !.state = v] \in QueryTypes
             /\ \A v \in BOOLEAN : [r EXCEPT !.interrumpir = v] \in QueryTypes
             /\ \A v \in Nat : [r EXCEPT !.prioridad = v] \in QueryTypes
             /\ \A w \in Workers : [r EXCEPT !.worker = w] \in QueryTypes
  BY DEF QueryTypes
<1>2. ASSUME NEW v \in {"READY", "EXEC", "FINISHED"}
      PROVE  [f EXCEPT ![q].state = v] \in [Queries -> QueryTypes]
  BY <1>1
<1>3. ASSUME NEW w \in Workers PROVE [f EXCEPT ![q].worker = w] \in [Queries -> QueryTypes]
  BY <1>1
<1>4. ASSUME NEW v \in {"READY", "EXEC", "FINISHED"}, NEW w \in Workers
      PROVE  [f EXCEPT ![q].worker = w, ![q].state = v] \in [Queries -> QueryTypes]
  <2> DEFINE g == [f EXCEPT ![q].worker = w]
  <2>1. g \in [Queries -> QueryTypes]
    BY <1>3
  <2> HIDE DEF g
  <2>2. [g EXCEPT ![q].state = v] \in [Queries -> QueryTypes]
    BY <2>1, <1>1
  <2> QED BY <2>2 DEF g
<1>5. ASSUME NEW v \in BOOLEAN PROVE [f EXCEPT ![q].interrumpir = v] \in [Queries -> QueryTypes]
  BY <1>1
<1>6. ASSUME NEW v \in Nat PROVE [f EXCEPT ![q].prioridad = v] \in [Queries -> QueryTypes]
  BY <1>1
<1> QED BY <1>2, <1>4, <1>5, <1>6

\* The assignments to a worker_t keep it one.
LEMMA WorkerFields ==
  ASSUME NEW f \in [Workers -> WorkerTypes], NEW w
  PROVE  /\ \A v \in BOOLEAN : [f EXCEPT ![w].interrumpir = v] \in [Workers -> WorkerTypes]
         /\ \A v \in BOOLEAN : [f EXCEPT ![w].error = v] \in [Workers -> WorkerTypes]
         /\ \A v \in BOOLEAN, u \in BOOLEAN :
               [f EXCEPT ![w].posted = v, ![w].error = u] \in [Workers -> WorkerTypes]
         /\ \A q \in Queries \cup {None}, v \in {"READY", "EXEC"} :
               [f EXCEPT ![w].query = q, ![w].state = v] \in [Workers -> WorkerTypes]
         /\ \A q \in Queries \cup {None}, v \in {"READY", "EXEC"}, u \in BOOLEAN :
               [f EXCEPT ![w].state = v, ![w].query = q, ![w].interrumpir = u]
                  \in [Workers -> WorkerTypes]
<1>1. ASSUME NEW r \in WorkerTypes
      PROVE  /\ \A v \in {"READY", "EXEC"} : [r EXCEPT !.state = v] \in WorkerTypes
             /\ \A v \in BOOLEAN : [r EXCEPT !.interrumpir = v] \in WorkerTypes
             /\ \A v \in BOOLEAN : [r EXCEPT !.error = v] \in WorkerTypes
             /\ \A v \in BOOLEAN : [r EXCEPT !.posted = v] \in WorkerTypes
             /\ \A q \in Queries \cup {None} : [r EXCEPT !.query = q] \in WorkerTypes
  BY DEF WorkerTypes
<1>2. ASSUME NEW v \in BOOLEAN
      PROVE  /\ [f EXCEPT ![w].interrumpir = v] \in [Workers -> WorkerTypes]
             /\ [f EXCEPT ![w].error = v] \in [Workers -> WorkerTypes]
             /\ [f EXCEPT ![w].posted = v] \in [Workers -> WorkerTypes]
  BY <1>1
<1>3. ASSUME NEW v \in BOOLEAN, NEW u \in BOOLEAN
      PROVE  [f EXCEPT ![w].posted = v, ![w].error = u] \in [Workers -> WorkerTypes]
  <2> DEFINE g == [f EXCEPT ![w].posted = v]
  <2>1. g \in [Workers -> WorkerTypes]
    BY <1>2
  <2> HIDE DEF g
  <2>2. [g EXCEPT ![w].error = u] \in [Workers -> WorkerTypes]
    BY <2>1, <1>1
  <2> QED BY <2>2 DEF g
<1>4. ASSUME NEW q \in Queries \cup {None}, NEW v \in {"READY", "EXEC"}
      PROVE  [f EXCEPT ![w].query = q, ![w].state = v] \in [Workers -> WorkerTypes]
  <2> DEFINE g == [f EXCEPT ![w].query = q]
  <2>1. g \in [Workers -> WorkerTypes]
    BY <1>1
  <2> HIDE DEF g
  <2>2. [g EXCEPT ![w].state = v] \in [Workers -> WorkerTypes]
    BY <2>1, <1>1
  <2> QED BY <2>2 DEF g
<1>5. ASSUME NEW q \in Queries \cup {None}, NEW v \in {"READY", "EXEC"}, NEW u \in BOOLEAN
      PROVE  [f EXCEPT ![w].state = v, ![w].query = q, ![w].interrumpir = u]
                \in [Workers -> WorkerTypes]
  <2> DEFINE g == [f EXCEPT ![w].state = v]
             h == [g EXCEPT ![w].query = q]
  <2>1. g \in [Workers -> WorkerTypes]
    BY <1>1
  <2> HIDE DEF g
  <2>2. h \in [Workers -> WorkerTypes]
    BY <2>1, <1>1
  <2> HIDE DEF h
  <2>3. [h EXCEPT ![w].interrumpir = u] \in [Workers -> WorkerTypes]
    BY <2>2, <1>1
  <2> QED BY <2>3 DEF g, h
<1> QED BY <1>2, <1>3, <1>4, <1>5

\* sem_post, and sem_wait on a positive semaphore, keep the values natural.
LEMMA SemFields ==
  ASSUME NEW s \in SemTypes
  PROVE  /\ \A x \in {"ready", "workers", "int", "asign", "check"} :
               /\ [s EXCEPT ![x] = @ + 1] \in SemTypes
               /\ s[x] > 0 => [s EXCEPT ![x] = @ - 1] \in SemTypes
         /\ s.ready > 0 /\ s.workers > 0 =>
               [s EXCEPT !.ready = @ - 1, !.workers = @ - 1] \in SemTypes
         /\ [s EXCEPT !.ready = @ + 1, !.int = @ + 1] \in SemTypes
         /\ s.asign > 0 => [s EXCEPT !.asign = @ - 1, !.check = @ + 1] \in SemTypes
<1>1. /\ s["ready"] \in Nat /\ s["workers"] \in Nat /\ s["int"] \in Nat /\ s["asign"] \in Nat
      /\ s["check"] \in Nat
  BY DEF SemTypes
<1>2. \A f \in SemTypes, x \in {"ready", "workers", "int", "asign", "check"}, n \in Nat :
         [f EXCEPT ![x] = n] \in SemTypes
  BY DEF SemTypes
<1>3. ASSUME NEW x \in {"ready", "workers", "int", "asign", "check"}
      PROVE  /\ [s EXCEPT ![x] = @ + 1] \in SemTypes
             /\ s[x] > 0 => [s EXCEPT ![x] = @ - 1] \in SemTypes
  <2>1. s[x] \in Nat
    BY DEF SemTypes
  <2>2. [s EXCEPT ![x] = s[x] + 1] \in SemTypes
    BY <1>2, <2>1
  <2>3. ASSUME s[x] > 0 PROVE [s EXCEPT ![x] = s[x] - 1] \in SemTypes
    BY <1>2, <2>1, <2>3
  <2> QED BY <2>2, <2>3
<1>4. ASSUME NEW x \in {"ready", "workers", "int", "asign", "check"}, NEW m \in Nat,
             NEW y \in {"ready", "workers", "int", "asign", "check"}, NEW n \in Nat
      PROVE  [s EXCEPT ![x] = m, ![y] = n] \in SemTypes
  <2> DEFINE g == [s EXCEPT ![x] = m]
  <2>1. g \in SemTypes
    BY <1>2
  <2> HIDE DEF g
  <2>2. [g EXCEPT ![y] = n] \in SemTypes
    BY <1>2, <2>1
  <2> QED BY <2>2 DEF g
<1>5. ASSUME s.ready > 0, s.workers > 0
      PROVE  [s EXCEPT !.ready = s.ready - 1, !.workers = s.workers - 1] \in SemTypes
  <2>1. s.ready - 1 \in Nat /\ s.workers - 1 \in Nat
    BY <1>1, <1>5
  <2>2. /\ "ready" \in {"ready", "workers", "int", "asign", "check"}
        /\ "workers" \in {"ready", "workers", "int", "asign", "check"}
    OBVIOUS
  <2> QED BY <2>1, <2>2, <1>4, Zenon
<1>6. [s EXCEPT !.ready = s.ready + 1, !.int = s.int + 1] \in SemTypes
  <2>1. s.ready + 1 \in Nat /\ s.int + 1 \in Nat
    BY <1>1
  <2>2. /\ "ready" \in {"ready", "workers", "int", "asign", "check"}
        /\ "int" \in {"ready", "workers", "int", "asign", "check"}
    OBVIOUS
  <2> QED BY <2>1, <2>2, <1>4, Zenon
<1>7. ASSUME s.asign > 0
      PROVE  [s EXCEPT !.asign = s.asign - 1, !.check = s.check + 1] \in SemTypes
  <2>1. s.asign - 1 \in Nat /\ s.check + 1 \in Nat
    BY <1>1, <1>7
  <2>2. /\ "asign" \in {"ready", "workers", "int", "asign", "check"}
        /\ "check" \in {"ready", "workers", "int", "asign", "check"}
    OBVIOUS
  <2> QED BY <2>1, <2>2, <1>4, Zenon
<1>8. /\ [s EXCEPT !.ready = @ - 1, !.workers = @ - 1]
            = [s EXCEPT !.ready = s.ready - 1, !.workers = s.workers - 1]
      /\ [s EXCEPT !.ready = @ + 1, !.int = @ + 1] = [s EXCEPT !.ready = s.ready + 1, !.int = s.int + 1]
      /\ [s EXCEPT !.asign = @ - 1, !.check = @ + 1]
            = [s EXCEPT !.asign = s.asign - 1, !.check = s.check + 1]
  BY DEF SemTypes
<1> QED BY <1>3, <1>5, <1>6, <1>7, <1>8
\* The assignments to the locals of check_prior keep them queries.
LEMMA LocFields ==
  ASSUME NEW f \in [Checkers -> LocTypes], NEW c
  PROVE  /\ [f EXCEPT ![c] = NoLocals] \in [Checkers -> LocTypes]
         /\ [f EXCEPT ![c] = [@ EXCEPT !.head = None, !.victim = None]] \in [Checkers -> LocTypes]
         /\ \A q \in Queries \cup {None} :
               /\ [f EXCEPT ![c].query = q] \in [Checkers -> LocTypes]
               /\ [f EXCEPT ![c].head = q] \in [Checkers -> LocTypes]
               /\ [f EXCEPT ![c].victim = q] \in [Checkers -> LocTypes]
<1>1. NoLocals \in LocTypes
  BY DEF NoLocals, LocTypes
<1>2. \A r \in LocTypes, q \in Queries \cup {None} :
         /\ [r EXCEPT !.query = q] \in LocTypes
         /\ [r EXCEPT !.head = q] \in LocTypes
         /\ [r EXCEPT !.victim = q] \in LocTypes
  BY DEF LocTypes
<1>3. ASSUME c \in Checkers PROVE [f[c] EXCEPT !.head = None, !.victim = None] \in LocTypes
  <2> DEFINE r == [f[c] EXCEPT !.head = None]
  <2>1. r \in LocTypes
    BY <1>2, <1>3
  <2> HIDE DEF r
  <2>2. [r EXCEPT !.victim = None] \in LocTypes
    BY <2>1, <1>2
  <2> QED BY <2>2 DEF r
<1>4. [f EXCEPT ![c] = [f[c] EXCEPT !.head = None, !.victim = None]] \in [Checkers -> LocTypes]
  BY <1>3
<1> QED BY <1>1, <1>2, <1>4


-----------------------------------------------------------------------------
(* Every step keeps Shape.                                                 *)

\* The lemmas XxxShape: the action Xxx keeps Shape, one step per part of it that the action disturbs.
LEMMA AcceptWorkerShape ==
  ASSUME Shape, NEW w \in Workers, AcceptWorker(w)
  PROVE  Shape'
<1> USE Constants DEF Shape, Types, lists, objects, sync, checker, planner, handler
<1>1. Types'
  <2>1. SyncTyped'
    BY SemFields DEF SyncTyped, AcceptWorker, Post
  <2>2. ListsTyped'
    BY AppendProperties DEF ListsTyped, AcceptWorker, Post
  <2>3. ThreadsTyped'
    BY DEF ThreadsTyped, AcceptWorker, Post
  <2>4. QueriesTyped' /\ WorkersTyped' /\ LocalsTyped'
    BY DEF QueriesTyped, WorkersTyped, LocalsTyped, AcceptWorker, Post
  <2> QED BY <2>1, <2>2, <2>3, <2>4
<1>2. OneChecker'
  BY DEF OneChecker, Roles, AcceptWorker, Post, ThreadsTyped, LocalsTyped, SyncTyped, SemTypes,
     LocTypes
<1>3. HaveQueries'
  BY DEF HaveQueries, CheckersHave, WorkersHave, Busy, Roles, AcceptWorker, Post, ThreadsTyped, LocalsTyped, SyncTyped,
     LocTypes, ListsTyped, QueriesTyped, WorkersTyped, QueryTypes, WorkerTypes
<1>4. Roles'
  BY DEF Roles, AcceptWorker, Post, ThreadsTyped, LocalsTyped, SyncTyped
<1> QED BY <1>1, <1>2, <1>3, <1>4

LEMMA AcceptQueryShape ==
  ASSUME Shape, NEW q \in Queries, AcceptQuery(q)
  PROVE  Shape'
<1> USE Constants DEF Shape, Types, lists, objects, sync, checker, planner, handler
<1>1. Types'
  <2>1. ListsTyped'
    <3>1. \A t \in Sorted(ready, q, Prior(q)) : t \in Seq(Queries)
      BY SortedInserts DEF ListsTyped
    <3>2. Append(ready, q) \in Seq(Queries)
      BY AppendProperties DEF ListsTyped
    <3> QED BY <3>1, <3>2 DEF ListsTyped, AcceptQuery
  <2>2. ThreadsTyped'
    BY DEF ThreadsTyped, AcceptQuery
  <2>3. LocalsTyped'
    BY LocFields DEF LocalsTyped, AcceptQuery
  <2>4. QueriesTyped' /\ WorkersTyped' /\ SyncTyped'
    BY DEF QueriesTyped, WorkersTyped, SyncTyped, AcceptQuery
  <2> QED BY <2>1, <2>2, <2>3, <2>4
<1>2. OneChecker'
  BY DEF OneChecker, Roles, AcceptQuery, ThreadsTyped, LocalsTyped, SyncTyped, SemTypes,
     LocTypes
<1>3. HaveQueries'
  BY DEF HaveQueries, CheckersHave, WorkersHave, Busy, Roles, AcceptQuery, ThreadsTyped, LocalsTyped, SyncTyped, LocTypes,
     ListsTyped, QueriesTyped, WorkersTyped, QueryTypes, WorkerTypes
<1>4. Roles'
  BY DEF Roles, AcceptQuery, ThreadsTyped, LocalsTyped, SyncTyped
<1> QED BY <1>1, <1>2, <1>3, <1>4

LEMMA PostQueryShape ==
  ASSUME Shape, PostQuery
  PROVE  Shape'
<1> USE Constants DEF Shape, Types, lists, objects, sync, checker, planner, handler
<1>1. Types'
  <2>1. SyncTyped'
    BY SemFields DEF SyncTyped, PostQuery, Spawn, Post
  <2>2. ThreadsTyped'
    BY DEF ThreadsTyped, PostQuery, Spawn, Post
  <2>3. LocalsTyped'
    <3>1. loc[Acceptor].query \in Queries \cup {None}
      BY DEF LocalsTyped, LocTypes
    <3>2. \A a : [loc EXCEPT ![a].query = loc[Acceptor].query] \in [Checkers -> LocTypes]
      BY <3>1, LocFields DEF LocalsTyped
    <3> QED BY <3>2 DEF LocalsTyped, PostQuery, Spawn
  <2>4. QueriesTyped' /\ WorkersTyped' /\ ListsTyped'
    BY DEF QueriesTyped, WorkersTyped, ListsTyped, PostQuery, Spawn, Post
  <2> QED BY <2>1, <2>2, <2>3, <2>4
<1>2. OneChecker'
  BY DEF OneChecker, Roles, PostQuery, Spawn, Post, ThreadsTyped, LocalsTyped, SyncTyped,
     SemTypes, LocTypes
<1>3. HaveQueries'
  <2>1. loc[Acceptor].query \in Queries
    BY DEF PostQuery, HaveQueries, CheckersHave
  <2>2. CheckersHave'
    <3>1. CASE Algorithm = "PRIORIDADES" /\ Aging
      <4>1. PICK a \in Agers : /\ pc' = [[pc EXCEPT ![Acceptor] = "idle"] EXCEPT ![a] = "test"]
                               /\ loc' = [loc EXCEPT ![a].query = loc[Acceptor].query]
        BY <3>1 DEF PostQuery, Spawn
      <4> QED BY <2>1, <4>1 DEF HaveQueries, CheckersHave, ThreadsTyped, LocalsTyped, LocTypes
    <3>2. CASE ~(Algorithm = "PRIORIDADES" /\ Aging)
      BY <3>2 DEF PostQuery, Spawn, HaveQueries, CheckersHave, ThreadsTyped
    <3> QED BY <3>1, <3>2
  <2>3. WorkersHave' /\ (plan # "wait" => taken \in Queries)'
    BY DEF PostQuery, HaveQueries, WorkersHave, Busy
  <2> QED BY <2>2, <2>3 DEF HaveQueries
<1>4. Roles'
  BY DEF Roles, PostQuery, Spawn, Post, ThreadsTyped, LocalsTyped, SyncTyped
<1> QED BY <1>1, <1>2, <1>3, <1>4

LEMMA CheckEnterShape ==
  ASSUME Shape, NEW c \in Checkers, CheckEnter(c)
  PROVE  Shape'
<1> USE Constants DEF Shape, Types, lists, objects, sync, checker, planner, handler
<1>1. Types'
  <2>1. SyncTyped'
    BY SemFields DEF SyncTyped, CheckEnter, Goto
  <2>2. ThreadsTyped'
    BY DEF ThreadsTyped, CheckEnter, Goto
  <2>3. QueriesTyped' /\ WorkersTyped' /\ ListsTyped' /\ LocalsTyped'
    BY DEF QueriesTyped, WorkersTyped, ListsTyped, LocalsTyped, CheckEnter, Goto
  <2> QED BY <2>1, <2>2, <2>3
<1>2. OneChecker'
  BY DEF OneChecker, Roles, CheckEnter, Goto, ThreadsTyped, LocalsTyped, SyncTyped, SemTypes,
     LocTypes
<1>3. HaveQueries'
  BY DEF HaveQueries, CheckersHave, WorkersHave, Busy, Roles, CheckEnter, Goto, ThreadsTyped, LocalsTyped, SyncTyped,
     LocTypes, ListsTyped, QueriesTyped, WorkersTyped, QueryTypes, WorkerTypes
<1>4. Roles'
  BY DEF Roles, CheckEnter, Goto, ThreadsTyped, LocalsTyped, SyncTyped
<1> QED BY <1>1, <1>2, <1>3, <1>4

LEMMA CheckLookShape ==
  ASSUME Shape, NEW c \in Checkers, CheckLook(c)
  PROVE  Shape'
<1> USE Constants DEF Shape, Types, lists, objects, sync, checker, planner, handler
<1>1. Types'
  <2>1. SyncTyped'
    BY SemFields DEF SyncTyped, CheckLook, CheckReturns, Goto, Post
  <2>2. ThreadsTyped'
    BY DEF ThreadsTyped, CheckLook, CheckReturns, Goto, Post
  <2>3. LocalsTyped'
    <3>1. (IF ready = <<>> THEN None ELSE Head(ready)) \in Queries \cup {None}
      BY HeadTailProperties DEF ListsTyped
    <3>2. /\ [loc EXCEPT ![c].head = IF ready = <<>> THEN None ELSE Head(ready)]
                \in [Checkers -> LocTypes]
          /\ [loc EXCEPT ![c] = [@ EXCEPT !.head = None, !.victim = None]] \in [Checkers -> LocTypes]
      BY <3>1, LocFields DEF LocalsTyped
    <3> QED BY <3>2 DEF LocalsTyped, CheckLook, CheckReturns
  <2>4. QueriesTyped' /\ WorkersTyped' /\ ListsTyped'
    BY DEF QueriesTyped, WorkersTyped, ListsTyped, CheckLook, CheckReturns, Goto, Post
  <2> QED BY <2>1, <2>2, <2>3, <2>4
<1>2. OneChecker'
  BY DEF OneChecker, Roles, CheckLook, CheckReturns, Goto, Post, ThreadsTyped, LocalsTyped,
     SyncTyped, SemTypes, LocTypes
<1>3. HaveQueries'
  <2>1. CheckersHave'
    <3>1. CASE workers = <<>> \/ FreeWorkers # {}
      <4>1. pc' = [pc EXCEPT ![c] = IF c = Acceptor THEN "post" ELSE "test"] /\ pc[c] = "look"
        BY <3>1 DEF CheckLook, CheckReturns, Goto
      <4>2. \A d \in Checkers : loc'[d].query = loc[d].query /\ (d # c => loc'[d] = loc[d])
        BY <3>1, Returned DEF CheckLook
      <4> QED BY <4>1, <4>2 DEF HaveQueries, CheckersHave, ThreadsTyped
    <3>2. CASE ~(workers = <<>> \/ FreeWorkers # {})
      BY <3>2 DEF CheckLook, Goto, HaveQueries, CheckersHave, ThreadsTyped, LocalsTyped, LocTypes
    <3> QED BY <3>1, <3>2
  <2>2. WorkersHave' /\ (plan # "wait" => taken \in Queries)'
    BY DEF CheckLook, HaveQueries, WorkersHave, Busy
  <2> QED BY <2>1, <2>2 DEF HaveQueries
<1>4. Roles'
  BY DEF Roles, CheckLook, CheckReturns, Goto, Post, ThreadsTyped, LocalsTyped, SyncTyped
<1> QED BY <1>1, <1>2, <1>3, <1>4

LEMMA CheckVictimShape ==
  ASSUME Shape, NEW c \in Checkers, CheckVictim(c)
  PROVE  Shape'
<1> USE Constants DEF Shape, Types, lists, objects, sync, checker, planner, handler
<1>1. Types'
  <2>1. ThreadsTyped'
    BY DEF ThreadsTyped, CheckVictim, Goto, Dies
  <2>2. LocalsTyped'
    <3>1. CASE exec = <<>>
      BY <3>1 DEF LocalsTyped, CheckVictim, Dies
    <3>2. CASE exec # <<>>
      <4>1. Victima \in Queries \cup {None}
        BY <3>2, VictimaExecutes DEF Types
      <4>2. [loc EXCEPT ![c].victim = Victima] \in [Checkers -> LocTypes]
        BY <4>1, LocFields DEF LocalsTyped
      <4> QED BY <3>2, <4>2 DEF LocalsTyped, CheckVictim
    <3> QED BY <3>1, <3>2
  <2>3. QueriesTyped' /\ WorkersTyped' /\ SyncTyped' /\ ListsTyped'
    BY DEF QueriesTyped, WorkersTyped, SyncTyped, ListsTyped, CheckVictim, Goto, Dies
  <2> QED BY <2>1, <2>2, <2>3
<1>2. OneChecker'
  BY DEF OneChecker, Roles, CheckVictim, Goto, Dies, ThreadsTyped, LocalsTyped, SyncTyped,
     SemTypes, LocTypes
<1>3. HaveQueries'
  <2>1. CheckersHave'
    <3>1. CASE exec = <<>>
      BY <3>1 DEF CheckVictim, Dies, HaveQueries, CheckersHave
    <3>2. CASE exec # <<>>
      <4>1. Victima \in Queries
        BY <3>2, VictimaExecutes DEF Types
      <4>2. loc' = [loc EXCEPT ![c].victim = Victima] /\ pc' = [pc EXCEPT ![c] = "set"]
            /\ pc[c] = "victim"
        BY <3>2 DEF CheckVictim, Goto
      <4> QED BY <4>1, <4>2 DEF HaveQueries, CheckersHave, ThreadsTyped, LocalsTyped, LocTypes
    <3> QED BY <3>1, <3>2
  <2>2. WorkersHave' /\ (plan # "wait" => taken \in Queries)'
    BY DEF CheckVictim, HaveQueries, WorkersHave, Busy
  <2> QED BY <2>1, <2>2 DEF HaveQueries
<1>4. Roles'
  BY DEF Roles, CheckVictim, Goto, Dies, ThreadsTyped, LocalsTyped, SyncTyped
<1> QED BY <1>1, <1>2, <1>3, <1>4

LEMMA CheckSetShape ==
  ASSUME Shape, NEW c \in Checkers, CheckSet(c)
  PROVE  Shape'
<1> USE Constants DEF Shape, Types, lists, objects, sync, checker, planner, handler
<1>1. Types'
  <2>1. WorkersTyped'
    <3>1. \A w : [worker EXCEPT ![w].interrumpir = TRUE] \in [Workers -> WorkerTypes]
      BY WorkerFields DEF WorkersTyped
    <3> QED BY <3>1 DEF WorkersTyped, CheckSet
  <2>2. SyncTyped'
    BY SemFields DEF SyncTyped, CheckSet, CheckReturns, Goto, Dies, Post
  <2>3. ThreadsTyped'
    BY DEF ThreadsTyped, CheckSet, CheckReturns, Goto, Dies, Post
  <2>4. LocalsTyped'
    <3>1. [loc EXCEPT ![c] = [@ EXCEPT !.head = None, !.victim = None]] \in [Checkers -> LocTypes]
      BY LocFields DEF LocalsTyped
    <3> QED BY <3>1 DEF LocalsTyped, CheckSet, CheckReturns, Dies
  <2>5. QueriesTyped' /\ ListsTyped'
    BY DEF QueriesTyped, ListsTyped, CheckSet, CheckReturns, Goto, Dies, Post
  <2> QED BY <2>1, <2>2, <2>3, <2>4, <2>5
<1>2. OneChecker'
  BY DEF OneChecker, Roles, CheckSet, CheckReturns, Goto, Dies, Post, ThreadsTyped,
     LocalsTyped, SyncTyped, SemTypes, LocTypes
<1>3. HaveQueries'
  <2>1. CheckersHave'
    <3>1. CASE UNCHANGED <<pc, loc>>
      BY <3>1 DEF HaveQueries, CheckersHave
    <3>2. CASE pc' = [pc EXCEPT ![c] = "wait_int"] /\ loc' = loc
      BY <3>2 DEF CheckSet, HaveQueries, CheckersHave, ThreadsTyped
    <3>3. CASE CheckReturns(c)
      BY <3>3 DEF CheckSet, CheckReturns, Goto, HaveQueries, CheckersHave, ThreadsTyped, LocalsTyped,
         LocTypes
    <3> QED BY <3>1, <3>2, <3>3 DEF CheckSet, Dies, Goto
  <2>2. WorkersHave'
    <3>1. \A v \in Workers : worker'[v].state = worker[v].state /\ worker'[v].query = worker[v].query
      BY DEF CheckSet, WorkersTyped, WorkerTypes
    <3> QED BY <3>1 DEF CheckSet, HaveQueries, WorkersHave, Busy
  <2>3. (plan # "wait" => taken \in Queries)'
    BY DEF CheckSet, HaveQueries
  <2> QED BY <2>1, <2>2, <2>3 DEF HaveQueries
<1>4. Roles'
  BY DEF Roles, CheckSet, CheckReturns, Goto, Dies, Post, ThreadsTyped, LocalsTyped, SyncTyped
<1> QED BY <1>1, <1>2, <1>3, <1>4

LEMMA CheckIntShape ==
  ASSUME Shape, NEW c \in Checkers, CheckInt(c)
  PROVE  Shape'
<1> USE Constants DEF Shape, Types, lists, objects, sync, checker, planner, handler
<1>1. Types'
  <2>1. SyncTyped'
    BY SemFields DEF SyncTyped, CheckInt, Goto
  <2>2. ThreadsTyped'
    BY DEF ThreadsTyped, CheckInt, Goto
  <2>3. QueriesTyped' /\ WorkersTyped' /\ ListsTyped' /\ LocalsTyped'
    BY DEF QueriesTyped, WorkersTyped, ListsTyped, LocalsTyped, CheckInt, Goto
  <2> QED BY <2>1, <2>2, <2>3
<1>2. OneChecker'
  BY DEF OneChecker, Roles, CheckInt, Goto, ThreadsTyped, LocalsTyped, SyncTyped, SemTypes,
     LocTypes
<1>3. HaveQueries'
  BY DEF HaveQueries, CheckersHave, WorkersHave, Busy, Roles, CheckInt, Goto, ThreadsTyped, LocalsTyped, SyncTyped,
     LocTypes, ListsTyped, QueriesTyped, WorkersTyped, QueryTypes, WorkerTypes
<1>4. Roles'
  BY DEF Roles, CheckInt, Goto, ThreadsTyped, LocalsTyped, SyncTyped
<1> QED BY <1>1, <1>2, <1>3, <1>4

LEMMA CheckAsignShape ==
  ASSUME Shape, NEW c \in Checkers, CheckAsign(c)
  PROVE  Shape'
<1> USE Constants DEF Shape, Types, lists, objects, sync, checker, planner, handler
<1>1. Types'
  <2>1. SyncTyped'
    BY SemFields DEF SyncTyped, CheckAsign, CheckReturns, Goto
  <2>2. ThreadsTyped'
    BY DEF ThreadsTyped, CheckAsign, CheckReturns, Goto
  <2>3. LocalsTyped'
    BY LocFields DEF LocalsTyped, CheckAsign, CheckReturns, Goto
  <2>4. QueriesTyped' /\ WorkersTyped' /\ ListsTyped'
    BY DEF QueriesTyped, WorkersTyped, ListsTyped, CheckAsign, CheckReturns, Goto
  <2> QED BY <2>1, <2>2, <2>3, <2>4
<1>2. OneChecker'
  BY DEF OneChecker, Roles, CheckAsign, CheckReturns, Goto, ThreadsTyped, LocalsTyped,
     SyncTyped, SemTypes, LocTypes
<1>3. HaveQueries'
  BY DEF HaveQueries, CheckersHave, WorkersHave, Busy, Roles, CheckAsign, CheckReturns, Goto, ThreadsTyped, LocalsTyped,
     SyncTyped, LocTypes, ListsTyped, QueriesTyped, WorkersTyped, QueryTypes, WorkerTypes
<1>4. Roles'
  BY DEF Roles, CheckAsign, CheckReturns, Goto, ThreadsTyped, LocalsTyped, SyncTyped
<1> QED BY <1>1, <1>2, <1>3, <1>4

LEMMA AgerTestShape ==
  ASSUME Shape, NEW a \in Agers, AgerTest(a)
  PROVE  Shape'
<1> USE Constants DEF Shape, Types, lists, objects, sync, checker, planner, handler
<1>1. Types'
  <2>1. ThreadsTyped'
    BY DEF ThreadsTyped, AgerTest, Goto
  <2>2. LocalsTyped'
    <3>1. [loc EXCEPT ![a] = NoLocals] \in [Checkers -> LocTypes]
      BY LocFields DEF LocalsTyped
    <3> QED BY <3>1 DEF LocalsTyped, AgerTest
  <2>3. QueriesTyped' /\ WorkersTyped' /\ SyncTyped' /\ ListsTyped'
    BY DEF QueriesTyped, WorkersTyped, SyncTyped, ListsTyped, AgerTest, Goto
  <2> QED BY <2>1, <2>2, <2>3
<1>2. OneChecker'
  BY DEF OneChecker, Roles, AgerTest, Goto, ThreadsTyped, LocalsTyped, SyncTyped, SemTypes,
     LocTypes
<1>3. HaveQueries'
  <2>1. CheckersHave'
    BY DEF HaveQueries, CheckersHave, Roles, AgerTest, Goto, ThreadsTyped, LocalsTyped, LocTypes
  <2>2. WorkersHave' /\ (plan' # "wait" => taken' \in Queries)
    BY DEF HaveQueries, WorkersHave, Busy, AgerTest
  <2> QED BY <2>1, <2>2 DEF HaveQueries
<1>4. Roles'
  BY DEF Roles, AgerTest, Goto, ThreadsTyped, LocalsTyped, SyncTyped
<1> QED BY <1>1, <1>2, <1>3, <1>4

LEMMA AgerWakeShape ==
  ASSUME Shape, NEW a \in Agers, AgerWake(a)
  PROVE  Shape'
<1> USE Constants DEF Shape, Types, lists, objects, sync, checker, planner, handler
<1>1. Types'
  <2>1. QueriesTyped'
    <3> DEFINE p == Prior(loc[a].query) - 1
    <3>1. CASE In(ready, loc[a].query) /\ p >= 0
      <4>1. loc[a].query \in Queries
        BY <3>1, LenProperties, ElementOfSeq DEF In, ListsTyped
      <4>2. p \in Nat
        BY <3>1, <4>1 DEF QueriesTyped, QueryTypes, Prior
      <4>3. [query EXCEPT ![loc[a].query].prioridad = p] \in [Queries -> QueryTypes]
        BY <4>2, QueryFields DEF QueriesTyped
      <4> QED BY <3>1, <4>3 DEF QueriesTyped, AgerWake
    <3>2. CASE ~(In(ready, loc[a].query) /\ p >= 0)
      BY <3>2 DEF QueriesTyped, AgerWake
    <3> QED BY <3>1, <3>2
  <2>2. ListsTyped'
    BY RemoveType, SortedInserts, LenProperties, ElementOfSeq DEF ListsTyped, AgerWake, Goto,
       In, Prior, HaveQueries, QueriesTyped, QueryTypes, Busy
  <2>3. ThreadsTyped'
    BY DEF ThreadsTyped, AgerWake, Goto
  <2>4. LocalsTyped'
    <3>1. [loc EXCEPT ![a] = NoLocals] \in [Checkers -> LocTypes]
      BY LocFields DEF LocalsTyped
    <3> QED BY <3>1 DEF LocalsTyped, AgerWake
  <2>5. WorkersTyped' /\ SyncTyped'
    BY DEF WorkersTyped, SyncTyped, AgerWake, Goto
  <2> QED BY <2>1, <2>2, <2>3, <2>4, <2>5
<1>2. OneChecker'
  BY DEF OneChecker, Roles, AgerWake, Goto, ThreadsTyped, LocalsTyped, SyncTyped, SemTypes,
     LocTypes
<1>3. HaveQueries'
  <2>1. CheckersHave'
    BY DEF HaveQueries, CheckersHave, Roles, AgerWake, Goto, ThreadsTyped, LocalsTyped, LocTypes
  <2>2. WorkersHave' /\ (plan' # "wait" => taken' \in Queries)
    BY DEF HaveQueries, WorkersHave, Busy, AgerWake
  <2> QED BY <2>1, <2>2 DEF HaveQueries
<1>4. Roles'
  BY DEF Roles, AgerWake, Goto, ThreadsTyped, LocalsTyped, SyncTyped
<1> QED BY <1>1, <1>2, <1>3, <1>4

LEMMA PlanTakeShape ==
  ASSUME Shape, PlanTake
  PROVE  Shape'
<1> USE Constants DEF Shape, Types, lists, objects, sync, checker, planner, handler
<1>1. Types'
  <2>1. SyncTyped'
    BY SemFields DEF SyncTyped, PlanTake
  <2>2. ListsTyped'
    BY HeadTailProperties DEF ListsTyped, PlanTake
  <2>3. ThreadsTyped'
    <3>1. ready # <<>> => Head(ready) \in Queries
      BY HeadTailProperties DEF ListsTyped
    <3> QED BY <3>1 DEF ThreadsTyped, PlanTake
  <2>4. QueriesTyped' /\ WorkersTyped' /\ LocalsTyped'
    BY DEF QueriesTyped, WorkersTyped, LocalsTyped, PlanTake
  <2> QED BY <2>1, <2>2, <2>3, <2>4
<1>2. OneChecker'
  BY DEF OneChecker, Roles, PlanTake, ThreadsTyped, LocalsTyped, SyncTyped, SemTypes, LocTypes
<1>3. HaveQueries'
  BY DEF HaveQueries, CheckersHave, WorkersHave, Busy, Roles, PlanTake, ThreadsTyped, LocalsTyped, SyncTyped, LocTypes,
     ListsTyped, QueriesTyped, WorkersTyped, QueryTypes, WorkerTypes
<1>4. Roles'
  BY DEF Roles, PlanTake, ThreadsTyped, LocalsTyped, SyncTyped
<1> QED BY <1>1, <1>2, <1>3, <1>4

LEMMA PlanPairShape ==
  ASSUME Shape, PlanPair
  PROVE  Shape'
<1> USE Constants DEF Shape, Types, lists, objects, sync, checker, planner, handler
<1>1. CASE FreeWorkers = {}
  <2>1. UNCHANGED <<exec, query, worker, result, plan, ready, workers, freed, sync, checker, taken, wpc,
                    qpc, fault>> /\ up' = FALSE
    BY <1>1 DEF PlanPair
  <2>2. QueriesTyped' /\ WorkersTyped' /\ SyncTyped' /\ ListsTyped' /\ ThreadsTyped' /\ LocalsTyped'
    BY <2>1 DEF QueriesTyped, WorkersTyped, SyncTyped, ListsTyped, ThreadsTyped, LocalsTyped
  <2>3. OneChecker' /\ HaveQueries' /\ Roles'
    BY <2>1 DEF OneChecker, HaveQueries, CheckersHave, WorkersHave, Roles, Busy
  <2> QED BY <2>2, <2>3
<1>2. CASE FreeWorkers # {}
  <2> DEFINE m == workers[Min(FreeWorkers)]
  <2>1. m \in Workers /\ Free(m)
    BY <1>2, FreeWorker
  <2>2. taken \in Queries
    BY DEF PlanPair, HaveQueries
  <2> HIDE DEF m
  <2>3. PICK w \in Workers : w = m
    BY <2>1
  <2>4. /\ exec' = Append(exec, taken)
        /\ query' = [query EXCEPT ![taken].worker = w, ![taken].state = "EXEC"]
        /\ worker' = [worker EXCEPT ![w].query = taken, ![w].state = "EXEC"]
        /\ result' = [result EXCEPT ![w] = FALSE]
        /\ plan' = "signal"
        /\ UNCHANGED <<ready, workers, freed, sync, checker, taken, wpc, qpc, up, fault>>
    BY <1>2, <2>3 DEF PlanPair, m
  <2>5. QueriesTyped'
    BY <2>4, QueryFields DEF QueriesTyped
  <2>6. WorkersTyped'
    BY <2>2, <2>4, WorkerFields DEF WorkersTyped
  <2>7. ListsTyped'
    BY <2>2, <2>4, AppendProperties DEF ListsTyped
  <2>8. ThreadsTyped' /\ SyncTyped' /\ LocalsTyped'
    BY <2>4 DEF ThreadsTyped, SyncTyped, LocalsTyped
  <2>9. OneChecker' /\ Roles'
    BY <2>4 DEF OneChecker, Roles
  <2>10. HaveQueries'
    BY <2>2, <2>4 DEF HaveQueries, CheckersHave, WorkersHave, Busy, WorkersTyped, WorkerTypes
  <2> QED BY <2>5, <2>6, <2>7, <2>8, <2>9, <2>10
<1> QED BY <1>1, <1>2

LEMMA PlanSignalShape ==
  ASSUME Shape, PlanSignal
  PROVE  Shape'
<1> USE Constants DEF Shape, Types, lists, objects, sync, checker, planner, handler
<1>1. Types'
  <2>1. SyncTyped'
    BY SemFields DEF SyncTyped, PlanSignal, Post
  <2>2. ThreadsTyped'
    BY DEF ThreadsTyped, PlanSignal, Post
  <2>3. QueriesTyped' /\ WorkersTyped' /\ ListsTyped' /\ LocalsTyped'
    BY DEF QueriesTyped, WorkersTyped, ListsTyped, LocalsTyped, PlanSignal, Post
  <2> QED BY <2>1, <2>2, <2>3
<1>2. OneChecker'
  BY DEF OneChecker, Roles, PlanSignal, Post, ThreadsTyped, LocalsTyped, SyncTyped, SemTypes,
     LocTypes
<1>3. HaveQueries'
  BY DEF HaveQueries, CheckersHave, WorkersHave, Busy, Roles, PlanSignal, Post, ThreadsTyped, LocalsTyped, SyncTyped,
     LocTypes, ListsTyped, QueriesTyped, WorkersTyped, QueryTypes, WorkerTypes
<1>4. Roles'
  BY DEF Roles, PlanSignal, Post, ThreadsTyped, LocalsTyped, SyncTyped
<1> QED BY <1>1, <1>2, <1>3, <1>4

LEMMA KilledShape ==
  ASSUME Shape, Killed
  PROVE  Shape'
<1> USE Constants DEF Shape, Types, lists, objects, sync, checker, planner, handler
<1>1. Types'
  <2>1. ThreadsTyped'
    BY DEF ThreadsTyped, Killed
  <2>2. QueriesTyped' /\ WorkersTyped' /\ SyncTyped' /\ ListsTyped' /\ LocalsTyped'
    BY DEF QueriesTyped, WorkersTyped, SyncTyped, ListsTyped, LocalsTyped, Killed
  <2> QED BY <2>1, <2>2
<1>2. OneChecker'
  BY DEF OneChecker, Roles, Killed, ThreadsTyped, LocalsTyped, SyncTyped, SemTypes, LocTypes
<1>3. HaveQueries'
  BY DEF HaveQueries, CheckersHave, WorkersHave, Busy, Roles, Killed, ThreadsTyped, LocalsTyped, SyncTyped, LocTypes,
     ListsTyped, QueriesTyped, WorkersTyped, QueryTypes, WorkerTypes
<1>4. Roles'
  BY DEF Roles, Killed, ThreadsTyped, LocalsTyped, SyncTyped
<1> QED BY <1>1, <1>2, <1>3, <1>4

LEMMA RequeueShape ==
  ASSUME Shape, NEW w \in Workers, Requeue(w)
  PROVE  Shape'
<1> USE Constants DEF Shape, Types, lists, objects, sync, checker, planner, handler
<1>1. Types'
  <2>1. QueriesTyped'
    BY QueryFields DEF QueriesTyped, Requeue, Spawn, WGoto
  <2>2. SyncTyped'
    BY SemFields DEF SyncTyped, Requeue, Spawn, WGoto
  <2>3. ListsTyped'
    <3>1. worker[w].query \in Queries
      BY DEF Requeue, HaveQueries, WorkersHave
    <3>2. \A t \in Sorted(ready, worker[w].query, Prior(worker[w].query)) : t \in Seq(Queries)
      BY <3>1, SortedInserts DEF ListsTyped
    <3>3. RemoveFirst(exec, worker[w].query) \in Seq(Queries)
      BY RemoveType DEF ListsTyped
    <3> QED BY <3>2, <3>3 DEF ListsTyped, Requeue
  <2>4. ThreadsTyped'
    BY DEF ThreadsTyped, Requeue, Spawn, WGoto
  <2>5. LocalsTyped'
    <3>1. worker[w].query \in Queries \cup {None}
      BY DEF WorkersTyped, WorkerTypes
    <3>2. \A a : [loc EXCEPT ![a].query = worker[w].query] \in [Checkers -> LocTypes]
      BY <3>1, LocFields DEF LocalsTyped
    <3> QED BY <3>2 DEF LocalsTyped, Requeue, Spawn
  <2>6. WorkersTyped'
    BY DEF WorkersTyped, Requeue, Spawn, WGoto
  <2> QED BY <2>1, <2>2, <2>3, <2>4, <2>5, <2>6
<1>2. OneChecker'
  BY DEF OneChecker, Roles, Requeue, Spawn, WGoto, ThreadsTyped, LocalsTyped, SyncTyped,
     SemTypes, LocTypes
<1>3. HaveQueries'
  <2>1. worker[w].query \in Queries
    BY DEF Requeue, HaveQueries, WorkersHave
  <2>2. CheckersHave'
    <3>1. CASE Algorithm = "PRIORIDADES" /\ Aging
      <4>1. PICK a \in Agers : /\ pc' = [pc EXCEPT ![a] = "test"] /\ pc[a] = "idle"
                               /\ loc' = [loc EXCEPT ![a].query = worker[w].query]
        BY <3>1 DEF Requeue, Spawn
      <4> QED BY <2>1, <4>1 DEF HaveQueries, CheckersHave, ThreadsTyped, LocalsTyped, LocTypes
    <3>2. CASE ~(Algorithm = "PRIORIDADES" /\ Aging)
      BY <3>2 DEF Requeue, Spawn, HaveQueries, CheckersHave
    <3> QED BY <3>1, <3>2
  <2>3. WorkersHave' /\ (plan # "wait" => taken \in Queries)'
    BY DEF Requeue, WGoto, HaveQueries, WorkersHave, Busy, ThreadsTyped
  <2> QED BY <2>2, <2>3 DEF HaveQueries
<1>4. Roles'
  BY DEF Roles, Requeue, Spawn, WGoto, ThreadsTyped, LocalsTyped, SyncTyped
<1> QED BY <1>1, <1>2, <1>3, <1>4

LEMMA ConsultEndShape ==
  ASSUME Shape, NEW w \in Workers, ConsultEnd(w)
  PROVE  Shape'
<1> USE Constants DEF Shape, Types, lists, objects, sync, checker, planner, handler
<1>1. Types'
  <2>1. WorkersTyped'
    BY WorkerFields DEF WorkersTyped, ConsultEnd, WGoto, HaveQueries, WorkerTypes,
       QueriesTyped, QueryTypes, Busy
  <2>2. ThreadsTyped'
    BY DEF ThreadsTyped, ConsultEnd, WGoto
  <2>3. QueriesTyped' /\ SyncTyped' /\ ListsTyped' /\ LocalsTyped'
    BY DEF QueriesTyped, SyncTyped, ListsTyped, LocalsTyped, ConsultEnd, WGoto
  <2> QED BY <2>1, <2>2, <2>3
<1>2. OneChecker'
  BY DEF OneChecker, Roles, ConsultEnd, WGoto, ThreadsTyped, LocalsTyped, SyncTyped, SemTypes,
     LocTypes
<1>3. HaveQueries'
  BY DEF HaveQueries, CheckersHave, WorkersHave, Busy, Roles, ConsultEnd, WGoto, ThreadsTyped, LocalsTyped, SyncTyped,
     LocTypes, ListsTyped, QueriesTyped, WorkersTyped, QueryTypes, WorkerTypes
<1>4. Roles'
  BY DEF Roles, ConsultEnd, WGoto, ThreadsTyped, LocalsTyped, SyncTyped
<1> QED BY <1>1, <1>2, <1>3, <1>4

LEMMA WorkerFreedShape ==
  ASSUME Shape, NEW w \in Workers, WorkerFreed(w)
  PROVE  Shape'
<1> USE Constants DEF Shape, Types, lists, objects, sync, checker, planner, handler
<1>1. Types'
  <2>1. WorkersTyped'
    BY WorkerFields DEF WorkersTyped, WorkerFreed, WGoto, Post, HaveQueries, WorkerTypes,
       QueriesTyped, QueryTypes, Busy
  <2>2. SyncTyped'
    BY SemFields DEF SyncTyped, WorkerFreed, WGoto, Post
  <2>3. ThreadsTyped'
    BY DEF ThreadsTyped, WorkersTyped, WorkerTypes, WorkerFreed, WGoto, Post
  <2>4. QueriesTyped' /\ ListsTyped' /\ LocalsTyped'
    BY DEF QueriesTyped, ListsTyped, LocalsTyped, WorkerFreed, WGoto, Post
  <2> QED BY <2>1, <2>2, <2>3, <2>4
<1>2. OneChecker'
  BY DEF OneChecker, Roles, WorkerFreed, WGoto, Post, ThreadsTyped, LocalsTyped, SyncTyped,
     SemTypes, LocTypes
<1>3. HaveQueries'
  BY DEF HaveQueries, CheckersHave, WorkersHave, Busy, Roles, WorkerFreed, WGoto, Post, ThreadsTyped, LocalsTyped,
     SyncTyped, LocTypes, ListsTyped, QueriesTyped, WorkersTyped, QueryTypes, WorkerTypes
<1>4. Roles'
  BY DEF Roles, WorkerFreed, WGoto, Post, ThreadsTyped, LocalsTyped, SyncTyped
<1> QED BY <1>1, <1>2, <1>3, <1>4

LEMMA ConsultReplyShape ==
  ASSUME Shape, NEW w \in Workers, ConsultReply(w)
  PROVE  Shape'
<1> USE Constants DEF Shape, Types, lists, objects, sync, checker, planner, handler
<1>1. Types'
  <2>1. ThreadsTyped'
    BY DEF ThreadsTyped, ConsultReply, WGoto, Running
  <2>2. QueriesTyped' /\ WorkersTyped' /\ SyncTyped' /\ ListsTyped' /\ LocalsTyped'
    BY DEF QueriesTyped, WorkersTyped, SyncTyped, ListsTyped, LocalsTyped, ConsultReply, WGoto,
       Running
  <2> QED BY <2>1, <2>2
<1>2. OneChecker'
  BY DEF OneChecker, Roles, ConsultReply, WGoto, Running, ThreadsTyped, LocalsTyped, SyncTyped,
     SemTypes, LocTypes
<1>3. HaveQueries'
  BY DEF HaveQueries, CheckersHave, WorkersHave, Busy, Roles, ConsultReply, WGoto, Running, ThreadsTyped, LocalsTyped,
     SyncTyped, LocTypes, ListsTyped, QueriesTyped, WorkersTyped, QueryTypes, WorkerTypes
<1>4. Roles'
  BY DEF Roles, ConsultReply, WGoto, Running, ThreadsTyped, LocalsTyped, SyncTyped
<1> QED BY <1>1, <1>2, <1>3, <1>4

LEMMA EndShape ==
  ASSUME Shape, NEW w \in Workers, End(w)
  PROVE  Shape'
<1> USE Constants DEF Shape, Types, lists, objects, sync, checker, planner, handler
<1>1. Types'
  <2>1. QueriesTyped'
    BY QueryFields DEF QueriesTyped, End, Finish, WGoto, Running
  <2>2. ListsTyped'
    BY RemoveType DEF ListsTyped, End, Finish, WGoto, Running
  <2>3. ThreadsTyped'
    BY DEF ThreadsTyped, End, Finish, WGoto, Running
  <2>4. WorkersTyped' /\ SyncTyped' /\ LocalsTyped'
    BY DEF WorkersTyped, SyncTyped, LocalsTyped, End, Finish, WGoto, Running
  <2> QED BY <2>1, <2>2, <2>3, <2>4
<1>2. OneChecker'
  BY DEF OneChecker, Roles, End, Finish, WGoto, Running, ThreadsTyped, LocalsTyped, SyncTyped,
     SemTypes, LocTypes
<1>3. HaveQueries'
  BY DEF HaveQueries, CheckersHave, WorkersHave, Busy, Roles, End, Finish, WGoto, Running, ThreadsTyped, LocalsTyped,
     SyncTyped, LocTypes, ListsTyped, QueriesTyped, WorkersTyped, QueryTypes, WorkerTypes
<1>4. Roles'
  BY DEF Roles, End, Finish, WGoto, Running, ThreadsTyped, LocalsTyped, SyncTyped
<1> QED BY <1>1, <1>2, <1>3, <1>4

LEMMA ErrorAtExecShape ==
  ASSUME Shape, NEW w \in Workers, ErrorAtExec(w)
  PROVE  Shape'
<1> USE Constants DEF Shape, Types, lists, objects, sync, checker, planner, handler
<1>1. Types'
  <2>1. QueriesTyped'
    BY QueryFields DEF QueriesTyped, ErrorAtExec, Finish, Running
  <2>2. WorkersTyped'
    BY WorkerFields DEF WorkersTyped, ErrorAtExec, Finish, Running, HaveQueries, WorkerTypes,
       QueriesTyped, QueryTypes, Busy
  <2>3. ListsTyped'
    BY RemoveType DEF ListsTyped, ErrorAtExec, Finish, Running
  <2>4. ThreadsTyped'
    BY DEF ThreadsTyped, ErrorAtExec, Finish, Running
  <2>5. SyncTyped' /\ LocalsTyped'
    BY DEF SyncTyped, LocalsTyped, ErrorAtExec, Finish, Running
  <2> QED BY <2>1, <2>2, <2>3, <2>4, <2>5
<1>2. OneChecker'
  BY DEF OneChecker, Roles, ErrorAtExec, Finish, Running, ThreadsTyped, LocalsTyped, SyncTyped,
     SemTypes, LocTypes
<1>3. HaveQueries'
  BY DEF HaveQueries, CheckersHave, WorkersHave, Busy, Roles, ErrorAtExec, Finish, Running, ThreadsTyped, LocalsTyped,
     SyncTyped, LocTypes, ListsTyped, QueriesTyped, WorkersTyped, QueryTypes, WorkerTypes
<1>4. Roles'
  BY DEF Roles, ErrorAtExec, Finish, Running, ThreadsTyped, LocalsTyped, SyncTyped
<1> QED BY <1>1, <1>2, <1>3, <1>4

LEMMA RunsOutShape ==
  ASSUME Shape, NEW w \in Workers, RunsOut(w)
  PROVE  Shape'
<1> USE Constants DEF Shape, Types, lists, objects, sync, checker, planner, handler
<1>1. Types'
  <2>1. ThreadsTyped'
    BY DEF ThreadsTyped, WorkersTyped, WorkerTypes, RunsOut, WGoto, Running
  <2>2. QueriesTyped' /\ WorkersTyped' /\ SyncTyped' /\ ListsTyped' /\ LocalsTyped'
    BY DEF QueriesTyped, WorkersTyped, SyncTyped, ListsTyped, LocalsTyped, RunsOut, WGoto, Running
  <2> QED BY <2>1, <2>2
<1>2. OneChecker'
  BY DEF OneChecker, Roles, RunsOut, WGoto, Running, ThreadsTyped, LocalsTyped, SyncTyped,
     SemTypes, LocTypes
<1>3. HaveQueries'
  BY DEF HaveQueries, CheckersHave, WorkersHave, Busy, Roles, RunsOut, WGoto, Running,
     ThreadsTyped, LocalsTyped, SyncTyped, LocTypes, ListsTyped, QueriesTyped, WorkersTyped,
     QueryTypes, WorkerTypes
<1>4. Roles'
  BY DEF Roles, RunsOut, WGoto, Running, ThreadsTyped, LocalsTyped, SyncTyped
<1> QED BY <1>1, <1>2, <1>3, <1>4

LEMMA WorkerLeavesShape ==
  ASSUME Shape, NEW w \in Workers, WorkerLeaves(w)
  PROVE  Shape'
<1> USE Constants DEF Shape, Types, lists, objects, sync, checker, planner, handler
<1>1. Types'
  <2>1. QueriesTyped'
    <3>1. \A q : [query EXCEPT ![q].state = "FINISHED"] \in [Queries -> QueryTypes]
      BY QueryFields DEF QueriesTyped
    <3> QED BY <3>1 DEF QueriesTyped, WorkerLeaves, Finish
  <2>2. ListsTyped'
    BY RemoveType DEF ListsTyped, WorkerLeaves, Finish, WGoto, Free
  <2>3. ThreadsTyped'
    BY DEF ThreadsTyped, WorkerLeaves, Finish, WGoto, Free
  <2>4. WorkersTyped' /\ SyncTyped' /\ LocalsTyped'
    BY DEF WorkersTyped, SyncTyped, LocalsTyped, WorkerLeaves, Finish, WGoto, Free
  <2> QED BY <2>1, <2>2, <2>3, <2>4
<1>2. OneChecker'
  BY DEF OneChecker, Roles, WorkerLeaves, Finish, WGoto, Free, ThreadsTyped, LocalsTyped,
     SyncTyped, SemTypes, LocTypes
<1>3. HaveQueries'
  BY DEF HaveQueries, CheckersHave, WorkersHave, Busy, Roles, WorkerLeaves, Finish, WGoto, Free, ThreadsTyped,
     LocalsTyped, SyncTyped, LocTypes, ListsTyped, QueriesTyped, WorkersTyped, QueryTypes,
     WorkerTypes
<1>4. Roles'
  BY DEF Roles, WorkerLeaves, Finish, WGoto, Free, ThreadsTyped, LocalsTyped, SyncTyped
<1> QED BY <1>1, <1>2, <1>3, <1>4

LEMMA ReplyFailsShape ==
  ASSUME Shape, NEW w \in Workers, ReplyFails(w)
  PROVE  Shape'
<1> USE Constants DEF Shape, Types, lists, objects, sync, checker, planner, handler
<1>1. Types'
  <2>1. ListsTyped'
    BY RemoveType DEF ListsTyped, ReplyFails, WGoto, Running
  <2>2. ThreadsTyped'
    BY DEF ThreadsTyped, ReplyFails, WGoto, Running
  <2>3. QueriesTyped' /\ WorkersTyped' /\ SyncTyped' /\ LocalsTyped'
    BY DEF QueriesTyped, WorkersTyped, SyncTyped, LocalsTyped, ReplyFails, WGoto, Running
  <2> QED BY <2>1, <2>2, <2>3
<1>2. OneChecker'
  BY DEF OneChecker, Roles, ReplyFails, WGoto, Running, ThreadsTyped, LocalsTyped, SyncTyped,
     SemTypes, LocTypes
<1>3. HaveQueries'
  BY DEF HaveQueries, CheckersHave, WorkersHave, Busy, Roles, ReplyFails, WGoto, Running, ThreadsTyped, LocalsTyped,
     SyncTyped, LocTypes, ListsTyped, QueriesTyped, WorkersTyped, QueryTypes, WorkerTypes
<1>4. Roles'
  BY DEF Roles, ReplyFails, WGoto, Running, ThreadsTyped, LocalsTyped, SyncTyped
<1> QED BY <1>1, <1>2, <1>3, <1>4

LEMMA LateErrorShape ==
  ASSUME Shape, NEW w \in Workers, LateError(w)
  PROVE  Shape'
<1> USE Constants DEF Shape, Types, lists, objects, sync, checker, planner, handler
<1>1. Types'
  <2>1. ThreadsTyped'
    BY DEF ThreadsTyped, LateError
  <2>2. QueriesTyped' /\ WorkersTyped' /\ SyncTyped' /\ ListsTyped' /\ LocalsTyped'
    BY DEF QueriesTyped, WorkersTyped, SyncTyped, ListsTyped, LocalsTyped, LateError
  <2> QED BY <2>1, <2>2
<1>2. OneChecker'
  BY DEF OneChecker, Roles, LateError, ThreadsTyped, LocalsTyped, SyncTyped, SemTypes, LocTypes
<1>3. HaveQueries'
  BY DEF HaveQueries, CheckersHave, WorkersHave, Busy, Roles, LateError, ThreadsTyped, LocalsTyped, SyncTyped, LocTypes,
     ListsTyped, QueriesTyped, WorkersTyped, QueryTypes, WorkerTypes
<1>4. Roles'
  BY DEF Roles, LateError, ThreadsTyped, LocalsTyped, SyncTyped
<1> QED BY <1>1, <1>2, <1>3, <1>4

LEMMA QueryLeavesShape ==
  ASSUME Shape, NEW q \in Queries, QueryLeaves(q)
  PROVE  Shape'
<1> USE Constants DEF Shape, Types, lists, objects, sync, checker, planner, handler
<1>1. Types'
  <2>1. QueriesTyped'
    <3>1. [query EXCEPT ![q].interrumpir = TRUE] \in [Queries -> QueryTypes]
      BY QueryFields DEF QueriesTyped
    <3> QED BY <3>1 DEF QueriesTyped, QueryLeaves
  <2>2. ThreadsTyped'
    BY DEF ThreadsTyped, QueryLeaves, QGoto
  <2>3. WorkersTyped' /\ SyncTyped' /\ ListsTyped' /\ LocalsTyped'
    BY DEF WorkersTyped, SyncTyped, ListsTyped, LocalsTyped, QueryLeaves, QGoto
  <2> QED BY <2>1, <2>2, <2>3
<1>2. OneChecker'
  BY DEF OneChecker, Roles, QueryLeaves, QGoto, ThreadsTyped, LocalsTyped, SyncTyped, SemTypes,
     LocTypes
<1>3. HaveQueries'
  BY DEF HaveQueries, CheckersHave, WorkersHave, Busy, Roles, QueryLeaves, QGoto, ThreadsTyped, LocalsTyped, SyncTyped,
     LocTypes, ListsTyped, QueriesTyped, WorkersTyped, QueryTypes, WorkerTypes
<1>4. Roles'
  BY DEF Roles, QueryLeaves, QGoto, ThreadsTyped, LocalsTyped, SyncTyped
<1> QED BY <1>1, <1>2, <1>3, <1>4

LEMMA CopySemShape ==
  ASSUME Shape, NEW q \in Queries, CopySem(q)
  PROVE  Shape'
<1> USE Constants DEF Shape, Types, lists, objects, sync, checker, planner, handler
<1>1. Types'
  <2>1. ThreadsTyped'
    BY DEF ThreadsTyped, CopySem, QGoto
  <2>2. QueriesTyped' /\ WorkersTyped' /\ SyncTyped' /\ ListsTyped' /\ LocalsTyped'
    BY DEF QueriesTyped, WorkersTyped, SyncTyped, ListsTyped, LocalsTyped, CopySem, QGoto
  <2> QED BY <2>1, <2>2
<1>2. OneChecker'
  BY DEF OneChecker, Roles, CopySem, QGoto, ThreadsTyped, LocalsTyped, SyncTyped, SemTypes,
     LocTypes
<1>3. HaveQueries'
  BY DEF HaveQueries, CheckersHave, WorkersHave, Busy, Roles, CopySem, QGoto, ThreadsTyped, LocalsTyped, SyncTyped,
     LocTypes, ListsTyped, QueriesTyped, WorkersTyped, QueryTypes, WorkerTypes
<1>4. Roles'
  BY DEF Roles, CopySem, QGoto, ThreadsTyped, LocalsTyped, SyncTyped
<1> QED BY <1>1, <1>2, <1>3, <1>4

LEMMA DestroyShape ==
  ASSUME Shape, NEW q \in Queries, Destroy(q)
  PROVE  Shape'
<1> USE Constants DEF Shape, Types, lists, objects, sync, checker, planner, handler
<1>1. Types'
  <2>1. ListsTyped'
    BY RemoveType DEF ListsTyped, Destroy, QGoto
  <2>2. ThreadsTyped'
    BY DEF ThreadsTyped, Destroy, QGoto
  <2>3. QueriesTyped' /\ WorkersTyped' /\ SyncTyped' /\ LocalsTyped'
    BY DEF QueriesTyped, WorkersTyped, SyncTyped, LocalsTyped, Destroy, QGoto
  <2> QED BY <2>1, <2>2, <2>3
<1>2. OneChecker'
  BY DEF OneChecker, Roles, Destroy, QGoto, ThreadsTyped, LocalsTyped, SyncTyped, SemTypes,
     LocTypes
<1>3. HaveQueries'
  BY DEF HaveQueries, CheckersHave, WorkersHave, Busy, Roles, Destroy, QGoto, ThreadsTyped, LocalsTyped, SyncTyped,
     LocTypes, ListsTyped, QueriesTyped, WorkersTyped, QueryTypes, WorkerTypes
<1>4. Roles'
  BY DEF Roles, Destroy, QGoto, ThreadsTyped, LocalsTyped, SyncTyped
<1> QED BY <1>1, <1>2, <1>3, <1>4


\* Shape holds at the start, and every step keeps it, after a fault too.
LEMMA ShapeInit == Init => Shape
<1> SUFFICES ASSUME Init PROVE Shape
  OBVIOUS
<1> USE Constants DEF Init
<1>1. QueriesTyped /\ WorkersTyped
  BY DEF QueriesTyped, WorkersTyped, QueryTypes, WorkerTypes
<1>2. SyncTyped
  <2>1. [ready |-> 0, workers |-> 0, int |-> 0, asign |-> 0, check |-> 1] \in SemTypes
    BY DEF SemTypes
  <2> QED BY <2>1 DEF SyncTyped
<1>3. LocalsTyped
  <2>1. NoLocals \in LocTypes
    BY DEF NoLocals, LocTypes
  <2> QED BY <2>1 DEF LocalsTyped
<1>4. ListsTyped
  <2>1. \A S : <<>> \in Seq(S)
    BY EmptySeq
  <2> QED BY <2>1 DEF ListsTyped
<1>5. ThreadsTyped
  BY DEF ThreadsTyped
<1>6. OneChecker /\ HaveQueries /\ Roles
  BY DEF OneChecker, HaveQueries, CheckersHave, WorkersHave, Roles, Busy
<1> QED BY <1>1, <1>2, <1>3, <1>4, <1>5, <1>6 DEF Shape, Types

LEMMA ShapeNext == Shape /\ [Next]_vars => Shape'
<1> SUFFICES ASSUME Shape, [Next]_vars PROVE Shape'
  OBVIOUS
<1>1. CASE UNCHANGED vars
  BY <1>1 DEF vars, Shape, Types, QueriesTyped, WorkersTyped, SyncTyped, ListsTyped, ThreadsTyped,
     LocalsTyped, OneChecker, HaveQueries, CheckersHave, WorkersHave, Roles, Busy
<1>2. CASE Connect \/ PostQuery \/ Plan \/ Killed
  BY <1>2, AcceptWorkerShape, AcceptQueryShape, PostQueryShape, PlanTakeShape, PlanPairShape,
     PlanSignalShape, KilledShape DEF Connect, Plan
<1>3. ASSUME NEW c \in Checkers, Check(c) PROVE Shape'
  BY <1>3, CheckEnterShape, CheckLookShape, CheckVictimShape, CheckSetShape, CheckIntShape,
     CheckAsignShape DEF Check
<1>4. ASSUME NEW a \in Agers, AgerTest(a) \/ AgerWake(a) PROVE Shape'
  BY <1>4, AgerTestShape, AgerWakeShape
<1>5. ASSUME NEW w \in Workers, Handle(w) \/ Works(w) \/ Leaves(w) PROVE Shape'
  BY <1>5, RequeueShape, ConsultEndShape, WorkerFreedShape, ConsultReplyShape, EndShape,
     ErrorAtExecShape, RunsOutShape, WorkerLeavesShape, ReplyFailsShape, LateErrorShape DEF Handle, Works, Leaves
<1>6. ASSUME NEW q \in Queries, QueryLeaves(q) \/ CopySem(q) \/ Destroy(q) PROVE Shape'
  BY <1>6, QueryLeavesShape, CopySemShape, DestroyShape
<1> QED BY <1>1, <1>2, <1>3, <1>4, <1>5, <1>6 DEF Next

=============================================================================
