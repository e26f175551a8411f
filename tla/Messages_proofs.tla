---------------------------- MODULE Messages_proofs ----------------------------
(***************************************************************************)
(* Theorems about the messages a browser has of a conversation.            *)
(*                                                                         *)
(* How the older ones are obtained (History), for every size of the cache, *)
(* of a replay, of a page and of a scrolled page, and any number of        *)
(* messages, losses, reloads and requests: a backfill that is over has     *)
(* left no hole the cache could fill, and scrolling back does not give up  *)
(* before a message it could have had.                                     *)
(*                                                                         *)
(* How they are shown and sent (ClientStore), for any messages, capacity   *)
(* of the queue and number of reloads: map, index and array of the         *)
(* conversation are one as long as no record has its number changed, and   *)
(* a text that was sent is queued until its ACK.                           *)
(*                                                                         *)
(* What the sidebar says of them (ConvList), for any number of messages,   *)
(* texts, breaks and reloads: the preview is the newest message, and the   *)
(* badge is no less than what waits to be read.                            *)
(***************************************************************************)
EXTENDS History, ClientStore, ConvList, FiniteSetTheorems, SequenceTheorems, WellFoundedInduction,
        TLAPS

-----------------------------------------------------------------------------
(***************************************************************************)
(* Sets of numbers                                                         *)
(***************************************************************************)

\* A set of natural numbers that is not empty has a least one.
LEMMA LeastExists ==
    ASSUME NEW S \in SUBSET Nat, S # {}
    PROVE  \E m \in S : \A k \in S : m <= k
<1> DEFINE R == OpToRel(<, Nat)
<1>1. IsWellFoundedOn(R, Nat)
  BY NatLessThanWellFounded
<1>2. \A x, y \in Nat : <<y, x>> \in R <=> y < x
  BY DEF OpToRel
<1> HIDE DEF R
<1>3. \E x \in S : \A y \in S : ~(<<y, x>> \in R)
  BY <1>1, WFMin
<1>4. \E x \in S : \A y \in S : ~(y < x)
  BY <1>2, <1>3, Zenon
<1> QED
  BY <1>4

\* One that is bounded has a greatest one, and is finite.
LEMMA GreatestExists ==
    ASSUME NEW b \in Nat, NEW S \in SUBSET (0..b), S # {}
    PROVE  \E m \in S : \A k \in S : k <= m
<1> DEFINE U == {u \in Nat : \A x \in S : x <= u}
<1>1. b \in U
  OBVIOUS
<1>2. PICK u \in U : \A v \in U : u <= v
  <2> HIDE DEF U
  <2>1. U \subseteq Nat
    BY DEF U
  <2> QED
    BY <1>1, <2>1, LeastExists
<1>3. u \in S
  <2> SUFFICES ASSUME u \notin S PROVE FALSE
    OBVIOUS
  <2>1. u \in Nat /\ \A x \in S : x \in Nat /\ x <= u - 1
    OBVIOUS
  <2>2. PICK x \in S : x \in Nat /\ x <= u - 1
    BY <2>1
  <2>3. u - 1 \in U
    BY <2>1, <2>2
  <2> QED
    BY <1>2, <2>1, <2>3
<1> QED
  BY <1>3

\* What is a set of numbers that the counter has issued.
LEMMA Bounded ==
    ASSUME NEW b \in Nat, NEW S \in SUBSET (0..b)
    PROVE  /\ IsFiniteSet(S) /\ Cardinality(S) \in Nat
           /\ \A T \in SUBSET S :
                 /\ IsFiniteSet(T) /\ Cardinality(T) \in Nat /\ Cardinality(T) <= Cardinality(S)
                 /\ Cardinality(T) = Cardinality(S) => T = S
                 /\ T # S => Cardinality(T) < Cardinality(S)
<1>1. IsFiniteSet(0..b)
  BY FS_Interval
<1>2. IsFiniteSet(S)
  BY <1>1, FS_Subset
<1>3. ASSUME NEW T \in SUBSET S
      PROVE  /\ IsFiniteSet(T) /\ Cardinality(T) \in Nat /\ Cardinality(T) <= Cardinality(S)
             /\ Cardinality(T) = Cardinality(S) => T = S
  BY <1>2, FS_Subset, FS_CardinalityType
<1>4. Cardinality(S) \in Nat
  BY <1>2, FS_CardinalityType
<1>5. \A T \in SUBSET S : T # S => Cardinality(T) < Cardinality(S)
  BY <1>3, <1>4
<1> QED
  BY <1>2, <1>3, <1>4, <1>5

\* Min and Max are what they are called.
LEMMA Extremes ==
    ASSUME NEW b \in Nat, NEW S \in SUBSET (0..b), S # {}
    PROVE  /\ Min(S) \in S /\ \A x \in S : Min(S) <= x
           /\ Max(S) \in S /\ \A x \in S : x <= Max(S)
<1>1. \E m \in S : \A k \in S : m <= k
  BY LeastExists
<1>2. \E m \in S : \A k \in S : m >= k
  BY GreatestExists
<1> QED
  BY <1>1, <1>2 DEF Min, Max

-----------------------------------------------------------------------------
(* The smallest and the largest of a set.                                  *)

\* What the four sets have in them.
LEMMA Members ==
    ASSUME NEW A, NEW n, NEW x
    PROVE  /\ x \in Above(A, n) <=> x \in A /\ x > n
           /\ x \in Below(A, n) <=> x \in A /\ x < n
           /\ x \in Smallest(A, n) <=> x \in A /\ Cardinality(Below(A, x)) < n
           /\ x \in Largest(A, n) <=> x \in A /\ Cardinality(Above(A, x)) < n
  BY DEF Above, Below, Smallest, Largest

\* How they are nested.
LEMMA Nested ==
    ASSUME NEW A \in SUBSET Int, NEW n \in Int, NEW x \in Int, n <= x
    PROVE  Below(A, n) \subseteq Below(A, x) /\ Above(A, x) \subseteq Above(A, n)
<1>1. \A y \in A : y \in Int /\ (y < n => y < x) /\ (y > x => y > n)
  OBVIOUS
<1> QED
  BY <1>1, Members

\* A number is neither below nor above itself.
LEMMA NotItself ==
    ASSUME NEW A, NEW n \in Int
    PROVE  n \notin Below(A, n) /\ n \notin Above(A, n)
<1>1. ~(n < n) /\ ~(n > n)
  OBVIOUS
<1> QED
  BY <1>1, Members

\* Sets of numbers up to a bound, and the parts that are taken of them.
LEMMA NumbersInSets ==
    ASSUME NEW b \in Nat, NEW A \in SUBSET (0..b)
    PROVE  /\ A \subseteq Nat /\ A \subseteq Int
           /\ \A x \in A : x \in Nat /\ x \in Int /\ x <= b
           /\ \A n \in Int : Below(A, n) \in SUBSET (0..b) /\ Above(A, n) \in SUBSET (0..b)
           /\ \A k : /\ Smallest(A, k) \subseteq A /\ Smallest(A, k) \in SUBSET (0..b)
                    /\ Largest(A, k) \subseteq A /\ Largest(A, k) \in SUBSET (0..b)
<1>1. /\ A \subseteq Nat /\ A \subseteq Int
      /\ \A x \in A : x \in Nat /\ x \in Int /\ x <= b
  OBVIOUS
<1> QED
  BY <1>1, Members

\* What is below one of the k smallest is one, too.
LEMMA SmallestBelow ==
    ASSUME NEW b \in Nat, NEW A \in SUBSET (0..b), NEW k \in Nat,
           NEW x \in Smallest(A, k), NEW n \in A, n <= x
    PROVE  n \in Smallest(A, k)
<1>1. x \in A /\ Cardinality(Below(A, x)) < k /\ x \in Int /\ n \in Int
  BY Members, NumbersInSets
<1>2. Below(A, x) \in SUBSET (0..b) /\ Below(A, n) \in SUBSET Below(A, x)
  BY <1>1, Nested, NumbersInSets
<1>3. /\ Cardinality(Below(A, n)) <= Cardinality(Below(A, x))
      /\ Cardinality(Below(A, n)) \in Nat /\ Cardinality(Below(A, x)) \in Nat
  BY <1>2, Bounded
<1>4. Cardinality(Below(A, n)) < k
  BY <1>1, <1>3
<1> QED
  BY <1>4, Members

\* If one is not among the k smallest there are k of them.
LEMMA SmallestFull ==
    ASSUME NEW b \in Nat, NEW A \in SUBSET (0..b), NEW k \in Nat,
           NEW n \in A, n \notin Smallest(A, k)
    PROVE  Cardinality(Smallest(A, k)) >= k
<1>1. (A \ Smallest(A, k)) \in SUBSET Nat /\ A \ Smallest(A, k) # {}
  BY NumbersInSets
<1>2. PICK m \in A \ Smallest(A, k) : \A x \in A \ Smallest(A, k) : m <= x
  BY <1>1, LeastExists
<1>3. Below(A, m) \in SUBSET Smallest(A, k)
  <2>1. \A x \in A : x \in Int /\ m \in Int /\ (x < m => ~(m <= x))
    BY NumbersInSets
  <2> QED
    BY <1>2, <2>1, Members
<1>4. ~(Cardinality(Below(A, m)) < k)
  BY <1>2, Members
<1>5. /\ Cardinality(Below(A, m)) <= Cardinality(Smallest(A, k))
      /\ Cardinality(Below(A, m)) \in Nat /\ Cardinality(Smallest(A, k)) \in Nat
  BY <1>3, NumbersInSets, Bounded
<1> QED
  BY <1>4, <1>5

\* What is above one of the k largest is one, too.
LEMMA LargestAbove ==
    ASSUME NEW b \in Nat, NEW A \in SUBSET (0..b), NEW k \in Nat,
           NEW x \in Largest(A, k), NEW n \in A, x <= n
    PROVE  n \in Largest(A, k)
<1>1. x \in A /\ Cardinality(Above(A, x)) < k /\ x \in Int /\ n \in Int
  BY Members, NumbersInSets
<1>2. Above(A, x) \in SUBSET (0..b) /\ Above(A, n) \in SUBSET Above(A, x)
  BY <1>1, Nested, NumbersInSets
<1>3. /\ Cardinality(Above(A, n)) <= Cardinality(Above(A, x))
      /\ Cardinality(Above(A, n)) \in Nat /\ Cardinality(Above(A, x)) \in Nat
  BY <1>2, Bounded
<1>4. Cardinality(Above(A, n)) < k
  BY <1>1, <1>3
<1> QED
  BY <1>4, Members

\* There are no more than k of them.
LEMMA LargestCounted ==
    ASSUME NEW b \in Nat, NEW A \in SUBSET (0..b), NEW k \in Nat
    PROVE  Cardinality(Largest(A, k)) <= k
<1>1. CASE Largest(A, k) = {}
  BY <1>1, FS_EmptySet
<1>2. CASE Largest(A, k) # {}
  <2>1. Largest(A, k) \in SUBSET Nat
    BY NumbersInSets
  <2>2. PICK m \in Largest(A, k) : \A x \in Largest(A, k) : m <= x
    BY <1>2, <2>1, LeastExists
  <2>3. m \in A /\ Cardinality(Above(A, m)) < k /\ m \in Int
    BY <2>2, Members, NumbersInSets
  <2>4. Above(A, m) \in SUBSET (0..b) /\ m \notin Above(A, m)
    BY <2>3, NumbersInSets, NotItself
  <2>5. Largest(A, k) \in SUBSET (Above(A, m) \cup {m})
    <3>1. \A x \in Largest(A, k) : x \in A /\ x \in Int
      BY NumbersInSets
    <3>2. \A x \in Largest(A, k) : x = m \/ x > m
      BY <2>2, <2>3, <3>1
    <3> QED
      BY <3>1, <3>2, Members
  <2>6. IsFiniteSet(Above(A, m)) /\ Cardinality(Above(A, m)) \in Nat
    BY <2>4, Bounded
  <2>7. /\ IsFiniteSet(Above(A, m) \cup {m})
        /\ Cardinality(Above(A, m) \cup {m}) = Cardinality(Above(A, m)) + 1
    BY <2>4, <2>6, FS_AddElement
  <2>8. /\ Cardinality(Largest(A, k)) <= Cardinality(Above(A, m) \cup {m})
        /\ Cardinality(Largest(A, k)) \in Nat
    BY <2>5, <2>7, FS_Subset, FS_CardinalityType
  <2> QED
    BY <2>3, <2>6, <2>7, <2>8
<1> QED
  BY <1>1, <1>2

\* The trim after each insertion keeps the largest of all that was inserted.
LEMMA LargestOfMore ==
    ASSUME NEW b \in Nat, NEW A \in SUBSET (0..b), NEW k \in Nat \ {0}
    PROVE  Largest(Largest(A, k) \cup {b + 1}, k) = Largest(A \cup {b + 1}, k)
<1> DEFINE C == Largest(A, k)
           t == b + 1
           B == A \cup {t}
           D == C \cup {t}
<1>0. C \subseteq A /\ \A x \in A : x \in 0..b
  BY NumbersInSets
<1>1. /\ C \subseteq A /\ t \in Nat /\ t \in Int /\ t \in B /\ t \in D
      /\ B \in SUBSET (0..t) /\ D \in SUBSET (0..t)
      /\ \A x \in A : x \in Int /\ x < t /\ ~(x > t)
  <2> HIDE DEF C
  <2>1. \A x \in A : x \in Int /\ x < t /\ ~(x > t) /\ x \in 0..t
    BY <1>0
  <2>2. t \in 0..t /\ t \in Int
    OBVIOUS
  <2> HIDE DEF t
  <2> QED
    BY <1>0, <2>1, <2>2
<1>2. /\ \A x : x \in B <=> x \in A \/ x = t
      /\ \A x : x \in D <=> x \in C \/ x = t
  OBVIOUS
<1>3. \A x \in A : x \in C <=> Cardinality(Above(A, x)) < k
  BY Members
<1>4. ASSUME NEW x \in C, NEW y \in A, y > x
      PROVE  y \in C
  <2>1. x <= y
    BY <1>1, <1>4
  <2> QED
    BY <2>1, LargestAbove
<1> HIDE DEF C, t, B, D
<1>5. Above(D, t) = {} /\ Above(B, t) = {}
  <2>1. ~(t > t)
    BY <1>1
  <2>2. \A x : (x \in D => ~(x > t)) /\ (x \in B => ~(x > t))
    BY <1>1, <1>2, <2>1
  <2>3. \A x : x \notin Above(D, t) /\ x \notin Above(B, t)
    BY <2>2, Members
  <2> QED
    BY <2>3
<1>6. ASSUME NEW x \in C  PROVE Above(D, x) = Above(B, x)
  <2>1. \A y : y \in D /\ y > x <=> y \in B /\ y > x
    BY <1>1, <1>2, <1>4
  <2>2. \A y : y \in Above(D, x) <=> y \in Above(B, x)
    BY <2>1, Members
  <2> QED
    BY <2>2
<1>7. ASSUME NEW x \in A, x \notin C  PROVE x \notin Largest(B, k)
  <2>1. Above(A, x) \in SUBSET Above(B, x)
    BY <1>2, Members
  <2>2. Above(B, x) \in SUBSET (0..t)
    BY <1>1, NumbersInSets
  <2>3. /\ Cardinality(Above(A, x)) <= Cardinality(Above(B, x))
        /\ Cardinality(Above(A, x)) \in Nat /\ Cardinality(Above(B, x)) \in Nat
    BY <1>1, <2>1, <2>2, Bounded
  <2>4. ~(Cardinality(Above(B, x)) < k)
    BY <1>3, <1>7, <2>3
  <2> QED
    BY <2>4, Members
<1>8. t \in Largest(D, k) /\ t \in Largest(B, k)
  <2>1. 0 < k
    OBVIOUS
  <2> QED
    BY <1>1, <1>5, <2>1, FS_EmptySet, Members
<1>9. \A x \in C : x \in Largest(D, k) <=> x \in Largest(B, k)
  BY <1>1, <1>2, <1>6, Members
<1>10. Largest(D, k) \subseteq D /\ Largest(B, k) \subseteq B
  BY Members
<1>11. \A x : x \in Largest(D, k) <=> x \in Largest(B, k)
  BY <1>1, <1>2, <1>7, <1>8, <1>9, <1>10
<1>12. Largest(D, k) = Largest(B, k)
  BY <1>11
<1> QED
  BY <1>12 DEF B, C, D, t

\* All there is, if there are no more than k.
LEMMA LargestIsAll ==
    ASSUME NEW b \in Nat, NEW A \in SUBSET (0..b), NEW k \in Nat, NEW n \in Int,
           Cardinality(Above(A, n)) <= k
    PROVE  Above(A, n) \subseteq Largest(A, k)
<1> SUFFICES ASSUME NEW x \in Above(A, n)  PROVE x \in Largest(A, k)
  OBVIOUS
<1>1. x \in A /\ x \in Int /\ n <= x
  <2>1. x \in A /\ x > n
    BY Members
  <2>2. x \in Int
    BY <2>1, NumbersInSets
  <2> QED
    BY <2>1, <2>2
<1>2. /\ Above(A, n) \in SUBSET (0..b) /\ Above(A, x) \in SUBSET Above(A, n)
      /\ x \notin Above(A, x)
  BY <1>1, NumbersInSets, Nested, NotItself
<1>3. /\ Cardinality(Above(A, x)) < Cardinality(Above(A, n))
      /\ Cardinality(Above(A, x)) \in Nat /\ Cardinality(Above(A, n)) \in Nat
  BY <1>2, Bounded
<1>4. Cardinality(Above(A, x)) < k
  BY <1>3
<1> QED
  BY <1>1, <1>4, Members

\* Each member has a place of its own among those below it.
LEMMA Ranks ==
    ASSUME NEW b \in Nat, NEW A \in SUBSET (0..b)
    PROVE  /\ \A n \in A :
                Cardinality(Below(A, n)) \in Nat /\ Cardinality(Below(A, n)) < Cardinality(A)
           /\ \A n, m \in A : n < m => Cardinality(Below(A, n)) < Cardinality(Below(A, m))
           /\ \A n, m \in A : Cardinality(Below(A, n)) = Cardinality(Below(A, m)) => n = m
           /\ \A i \in 1..Cardinality(A) : \E n \in A : Cardinality(Below(A, n)) = i - 1
<1>1. ASSUME NEW n \in A
      PROVE  Cardinality(Below(A, n)) \in Nat /\ Cardinality(Below(A, n)) < Cardinality(A)
  <2>1. n \in Int /\ Below(A, n) \subseteq A /\ Below(A, n) # A
    BY NumbersInSets, NotItself, Members
  <2> QED
    BY <2>1, Bounded
<1>2. ASSUME NEW n \in A, NEW m \in A, n < m
      PROVE  Cardinality(Below(A, n)) < Cardinality(Below(A, m))
  <2>1. n \in Int /\ m \in Int /\ n <= m
    BY <1>2, NumbersInSets
  <2>2. n \in Below(A, m) /\ n \notin Below(A, n) /\ Below(A, n) \subseteq Below(A, m)
    BY <1>2, <2>1, NumbersInSets, NotItself, Members, Nested
  <2>3. Below(A, m) \in SUBSET (0..b)
    BY <2>1, NumbersInSets
  <2> QED
    BY <2>2, <2>3, Bounded
<1>3. ASSUME NEW n \in A, NEW m \in A, Cardinality(Below(A, n)) = Cardinality(Below(A, m))
      PROVE  n = m
  <2>1. n \in Int /\ m \in Int
    BY NumbersInSets
  <2>2. ~(n < m) /\ ~(m < n)
    BY <1>1, <1>2, <1>3
  <2> QED
    BY <2>1, <2>2
<1>4. ASSUME NEW i \in 1..Cardinality(A)
      PROVE  \E n \in A : Cardinality(Below(A, n)) = i - 1
  <2> DEFINE S == {n \in A : Cardinality(Below(A, n)) >= i - 1}
  <2>1. IsFiniteSet(A) /\ Cardinality(A) \in Nat /\ A # {}
    <3>1. IsFiniteSet(A) /\ Cardinality(A) \in Nat
      BY Bounded
    <3>2. Cardinality(A) # 0
      BY <3>1
    <3> QED
      BY <3>1, <3>2, FS_EmptySet
  <2>2. ASSUME NEW m \in A, NEW g \in Below(A, m), \A x \in Below(A, m) : x <= g
        PROVE  /\ g \in A /\ g < m
               /\ Cardinality(Below(A, m)) = Cardinality(Below(A, g)) + 1
    <3>1. g \in A /\ g < m /\ g \in Int /\ m \in Int /\ g <= m
      <4>1. g \in A /\ g < m
        BY Members
      <4>2. g \in Int /\ m \in Int
        BY <4>1, NumbersInSets
      <4> QED
        BY <4>1, <4>2
    <3>2. \A x : x \in Below(A, m) => x \in Below(A, g) \cup {g}
      <4>1. \A x \in Below(A, m) : x \in A /\ x \in Int /\ x <= g
        BY <2>2, Members, NumbersInSets
      <4>2. \A x \in Below(A, m) : x < g \/ x = g
        BY <3>1, <4>1
      <4> QED
        BY <4>1, <4>2, Members
    <3>3. Below(A, g) \subseteq Below(A, m)
      BY <3>1, NumbersInSets, Nested
    <3>4. Below(A, m) = Below(A, g) \cup {g}
      BY <3>2, <3>3
    <3>5. g \notin Below(A, g) /\ Below(A, g) \in SUBSET (0..b)
      BY <3>1, NotItself, NumbersInSets
    <3>6. IsFiniteSet(Below(A, g))
      BY <3>5, Bounded
    <3> QED
      BY <3>1, <3>4, <3>5, <3>6, FS_AddElement
  <2>3. S # {}
    <3>1. PICK g \in A : \A x \in A : x <= g
      BY <2>1, GreatestExists
    <3>2. g \in Int /\ Below(A, g) \subseteq A \ {g}
      BY NumbersInSets, NotItself, Members
    <3>3. A \ {g} \subseteq Below(A, g)
      <4>1. \A x \in A : x \in Int /\ (x # g => x < g)
        BY <3>1, <3>2, NumbersInSets
      <4> QED
        BY <4>1, Members
    <3>4. Cardinality(Below(A, g)) = Cardinality(A) - 1
      <4>1. Below(A, g) = A \ {g}
        BY <3>2, <3>3
      <4> QED
        BY <2>1, <4>1, FS_RemoveElement
    <3>5. Cardinality(Below(A, g)) >= i - 1
      BY <2>1, <3>4
    <3> QED
      BY <3>5
  <2>4. S \in SUBSET Nat /\ S \subseteq A
    BY NumbersInSets
  <2>5. \A n : n \in S <=> n \in A /\ Cardinality(Below(A, n)) >= i - 1
    OBVIOUS
  <2> HIDE DEF S
  <2>6. PICK m \in S : \A x \in S : m <= x
    BY <2>3, <2>4, LeastExists
  <2>7. m \in A /\ Cardinality(Below(A, m)) >= i - 1 /\ m \in Int
    BY <2>4, <2>5, <2>6
  <2>8. Cardinality(Below(A, m)) \in Nat
    BY <1>1, <2>7
  <2>9. CASE Cardinality(Below(A, m)) > i - 1
    <3>1. Below(A, m) # {}
      BY <2>9, FS_EmptySet
    <3>2. Below(A, m) \in SUBSET (0..b)
      BY <2>7, NumbersInSets
    <3>3. PICK g \in Below(A, m) : \A x \in Below(A, m) : x <= g
      BY <3>1, <3>2, GreatestExists
    <3>4. g \in A /\ g < m /\ Cardinality(Below(A, m)) = Cardinality(Below(A, g)) + 1
      BY <2>2, <2>7, <3>3
    <3>5. g \in Int /\ Cardinality(Below(A, g)) \in Nat
      BY <1>1, <3>4, NumbersInSets
    <3>6. Cardinality(Below(A, g)) >= i - 1
      BY <2>9, <3>4, <3>5
    <3>7. m <= g
      BY <2>5, <2>6, <3>4, <3>6
    <3> QED
      BY <2>7, <3>4, <3>5, <3>7
  <2>10. CASE ~(Cardinality(Below(A, m)) > i - 1)
    <3>1. Cardinality(Below(A, m)) = i - 1
      BY <2>7, <2>8, <2>10
    <3> QED
      BY <2>7, <3>1
  <2> QED
    BY <2>9, <2>10
<1> QED
  BY <1>1, <1>2, <1>3, <1>4

-----------------------------------------------------------------------------
(***************************************************************************)
(* The types                                                               *)
(***************************************************************************)

WireFrames == [type : {"MSG"}, seq : stored] \cup [type : {"SYNC_GAP"}, seq : 0..top]

\* The types, with those the module leaves open; the cache has the newest messages.
HistoryTyped ==
    /\ HistoryTypeOK
    /\ cached = Trimmed(stored)
    /\ wire \in Seq(WireFrames)
    /\ fetches \subseteq [from : 0..top, cursor : 0..top]
    /\ timers \subseteq [seen : Int, asked : BOOLEAN]
    /\ drops \in Nat

\* The parameters, as assumed.
LEMMA Parameters ==
    /\ CacheMax \in Nat \ {0} /\ LiveMax \in Nat \ {0} /\ PageMax \in Nat \ {0}
    /\ ScrollMax \in Nat \ {0} /\ MinKeep \in Nat \ {0}
    /\ MaxNumber \in Nat /\ MaxDrops \in Nat
  BY HistoryAssumption DEF HistoryParametersOK

\* All sets are of numbers the counter has issued.
LEMMA Issued ==
    ASSUME HistoryTyped
    PROVE  /\ top \in Nat
           /\ stored \in SUBSET (0..top) /\ cached \in SUBSET (0..top)
           /\ mem \in SUBSET (0..top) /\ idb \in SUBSET (0..top)
           /\ cached \subseteq stored /\ mem \subseteq stored /\ idb \subseteq stored
           /\ \A n \in stored : n \in Nat /\ n \in Int /\ 1 <= n /\ n <= top
           /\ lastSeq \in 0..top
<1>1. top \in Nat
  BY Parameters DEF HistoryTyped, HistoryTypeOK
<1>2. /\ stored \subseteq 1..top /\ cached \subseteq stored /\ mem \subseteq stored
      /\ idb \subseteq stored /\ lastSeq \in stored \cup {0}
  BY DEF HistoryTyped, HistoryTypeOK
<1>3. \A n \in stored : n \in 0..top /\ n \in Nat /\ n \in Int /\ 1 <= n /\ n <= top
  BY <1>1, <1>2
<1> QED
  BY <1>1, <1>2, <1>3

\* A batch is of messages above the cursor it was asked with.
LEMMA BatchAbove ==
    ASSUME HistoryTyped, NEW from \in Int, NEW k
    PROVE  /\ Batch(from, k) \subseteq Above(stored, from) /\ Batch(from, k) \subseteq stored
           /\ Batch(from, k) \in SUBSET (0..top)
<1>1. Batch(from, k) \subseteq Above(cached, from) \cup Above(stored, from)
  BY Members DEF Batch
<1>2. Above(cached, from) \subseteq Above(stored, from)
  BY Issued, Members
<1>3. Above(stored, from) \subseteq stored
  BY Members
<1> QED
  BY <1>1, <1>2, <1>3, Issued

\* A replay sends what is in its batch, and nothing else.
LEMMA ReplaySends ==
    ASSUME HistoryTyped, NEW from \in Int
    PROVE  /\ Replay(from) \in Seq(WireFrames)
           /\ \A n \in Batch(from, Cardinality(stored)) :
                 \E i \in DOMAIN Replay(from) :
                    Replay(from)[i].type = "MSG" /\ Replay(from)[i].seq = n
<1> DEFINE all == Batch(from, Cardinality(stored))
           Nth(i) == CHOOSE n \in all : Cardinality(Below(all, n)) = i - 1
<1>1. all \in SUBSET (0..top) /\ all \subseteq stored /\ top \in Nat
  BY BatchAbove, Issued
<1>2. Cardinality(all) \in Nat
  BY <1>1, Bounded
<1>3. Replay(from) = [i \in 1..Cardinality(all) |-> [type |-> "MSG", seq |-> Nth(i)]]
  BY DEF Replay
<1> HIDE DEF all
<1>4. ASSUME NEW i \in 1..Cardinality(all)
      PROVE  Nth(i) \in all /\ Cardinality(Below(all, Nth(i))) = i - 1
  <2>1. \E n \in all : Cardinality(Below(all, n)) = i - 1
    BY <1>1, Ranks
  <2> QED
    BY <2>1
<1>5. ASSUME NEW n \in all
      PROVE  \E i \in 1..Cardinality(all) : Nth(i) = n
  <2>1. Cardinality(Below(all, n)) \in Nat /\ Cardinality(Below(all, n)) < Cardinality(all)
    BY <1>1, Ranks
  <2> DEFINE i == Cardinality(Below(all, n)) + 1
  <2>2. i \in 1..Cardinality(all) /\ i - 1 = Cardinality(Below(all, n))
    BY <1>2, <2>1
  <2> HIDE DEF i
  <2>3. Nth(i) \in all /\ Cardinality(Below(all, Nth(i))) = Cardinality(Below(all, n))
    BY <1>4, <2>2
  <2> HIDE DEF Nth
  <2>4. Nth(i) = n
    BY <1>1, <2>3, Ranks
  <2> QED
    BY <2>2, <2>4
<1> HIDE DEF Nth
<1>6. \A i \in 1..Cardinality(all) : [type |-> "MSG", seq |-> Nth(i)] \in WireFrames
  BY <1>1, <1>4 DEF WireFrames
<1>7. Replay(from) \in Seq(WireFrames) /\ DOMAIN Replay(from) = 1..Cardinality(all)
  BY <1>2, <1>3, <1>6
<1>8. \A n \in all : \E i \in DOMAIN Replay(from) :
         Replay(from)[i].type = "MSG" /\ Replay(from)[i].seq = n
  BY <1>3, <1>5, <1>7
<1> QED
  BY <1>7, <1>8 DEF all

\* What answers a HELLO or a SYNC_REQ is frames.
LEMMA AnswerSends ==
    ASSUME HistoryTyped, NEW from \in 0..top
    PROVE  Answer(from) \in Seq(WireFrames)
<1>1. from \in Int
  OBVIOUS
<1>2. Replay(from) \in Seq(WireFrames)
  BY <1>1, ReplaySends
<1>3. << [type |-> "SYNC_GAP", seq |-> from] >> \in Seq(WireFrames)
  BY DEF WireFrames
<1> QED
  BY <1>2, <1>3 DEF Answer

\* A page that is not the last one ends above the cursor it was asked with.
LEMMA PageEnds ==
    ASSUME HistoryTyped, NEW from \in 0..top, ~LastPage(Batch(from, PageMax))
    PROVE  LET page == Batch(from, PageMax)
           IN  /\ Max(page) \in page /\ \A n \in page : n <= Max(page)
               /\ Max(page) \in 0..top /\ from < Max(page)
<1> DEFINE page == Batch(from, PageMax)
<1>1. from \in Int /\ top \in Nat
  BY Issued
<1>2. page \subseteq Above(stored, from) /\ page \in SUBSET (0..top)
  BY <1>1, BatchAbove
<1>3. page # {}
  <2>1. 0 < PageMax
    BY Parameters
  <2> QED
    BY <2>1, FS_EmptySet DEF LastPage
<1> HIDE DEF page
<1>4. Max(page) \in page /\ \A n \in page : n <= Max(page)
  BY <1>1, <1>2, <1>3, Extremes
<1>5. Max(page) \in Above(stored, from) /\ Max(page) \in 0..top
  BY <1>2, <1>4
<1>6. Max(page) > from
  BY <1>5, Members
<1>7. from < Max(page)
  BY <1>1, <1>5, <1>6
<1> QED
  BY <1>4, <1>5, <1>7 DEF page

\* Where a scrolled page begins.
LEMMA WindowBegins ==
    ASSUME HistoryTyped, mem # {}
    PROVE  /\ Min(mem) \in mem /\ Min(mem) \in stored /\ \A n \in mem : Min(mem) <= n
           /\ Window(Min(mem)) \in 0..top
           /\ \A n \in stored : n > Min(mem) - ScrollMax => n > Window(Min(mem))
<1>1. Min(mem) \in mem /\ Min(mem) \in stored /\ \A n \in mem : Min(mem) <= n
  BY Issued, Extremes
<1>2. Min(mem) \in Nat /\ Min(mem) <= top /\ top \in Nat
  BY <1>1, Issued
<1> QED
  BY <1>1, <1>2, Parameters, Issued DEF Window

\* The types hold at the start.
LEMMA TypedInit == HistoryInit => HistoryTyped
<1> SUFFICES ASSUME HistoryInit PROVE HistoryTyped
  OBVIOUS
<1>1. Largest({}, CacheMax) = {} /\ Cardinality({}) = 0
  BY FS_EmptySet DEF Largest
<1>2. wire \in Seq(WireFrames)
  BY DEF HistoryInit
<1>3. top \in 0..MaxNumber /\ 0 <= CacheMax
  BY Parameters DEF HistoryInit
<1>4. HistoryTypeOK
  BY <1>1, <1>3 DEF HistoryInit, HistoryTypeOK
<1> QED
  BY <1>1, <1>2, <1>4 DEF HistoryInit, HistoryTyped, Trimmed

\* Every step keeps the types.
LEMMA TypedStep ==
    ASSUME HistoryTyped, [HistoryNext]_historyVars
    PROVE  HistoryTyped'
<1>1. /\ top \in Nat /\ top \in 0..MaxNumber
      /\ stored \in SUBSET (0..top) /\ stored \subseteq 1..top /\ cached \subseteq stored
      /\ mem \subseteq stored /\ idb \subseteq stored /\ lastSeq \in stored \cup {0}
      /\ \A n \in stored : n \in 0..top /\ n \in Nat
      /\ wire \in Seq(WireFrames)
      /\ \A f \in fetches : /\ f \in [from : 0..top, cursor : 0..top]
                            /\ f.from \in 0..top /\ f.cursor \in f.from..top
  BY Issued DEF HistoryTyped, HistoryTypeOK
<1>2. CASE Message \/ Control
  <2>1. top' = top + 1 /\ top < MaxNumber
    BY <1>2 DEF Message, Control
  <2>2. top' \in 0..MaxNumber /\ 0..top \subseteq 0..top' /\ 1..top \subseteq 1..top'
    BY <1>1, <2>1, Parameters
  <2>3. /\ UNCHANGED <<online, mem, idb, lastSeq, fetches, hasMore, timers, prune, drops>>
        /\ stored \subseteq stored' /\ stored' \subseteq 1..top' /\ cached' = Trimmed(stored')
        /\ wire' \in Seq(WireFrames')
    <3>1. stored \subseteq stored' => WireFrames \subseteq WireFrames'
      BY <2>2 DEF WireFrames
    <3>2. CASE Control
      <4>1. UNCHANGED <<stored, cached, wire>>
        BY <3>2 DEF Control
      <4>2. wire \in Seq(WireFrames')
        BY <1>1, <3>1, <4>1
      <4> QED
        BY <1>1, <2>2, <3>2, <4>1, <4>2 DEF Control, client, HistoryTyped, Trimmed
    <3>3. CASE Message
      <4>1. stored' = stored \cup {top + 1} /\ cached' = Trimmed(cached \cup {top + 1})
        BY <2>1, <3>3 DEF Message
      <4>2. cached' = Trimmed(stored')
        <5>1. cached = Largest(stored, CacheMax)
          BY DEF HistoryTyped, Trimmed
        <5>2. Largest(Largest(stored, CacheMax) \cup {top + 1}, CacheMax)
                = Largest(stored \cup {top + 1}, CacheMax)
          BY <1>1, LargestOfMore, Parameters
        <5> QED
          BY <4>1, <5>1, <5>2 DEF Trimmed
      <4>3. stored' \subseteq 1..top'
        BY <1>1, <2>1, <2>2, <4>1
      <4>4. [type |-> "MSG", seq |-> top'] \in WireFrames'
        BY <2>1, <4>1 DEF WireFrames
      <4>5. wire \in Seq(WireFrames')
        BY <1>1, <3>1, <4>1
      <4>6. wire' \in Seq(WireFrames')
        BY <3>3, <4>4, <4>5 DEF Message
      <4> QED
        BY <3>3, <4>1, <4>2, <4>3, <4>6 DEF Message, client
    <3> QED
      BY <1>2, <3>2, <3>3
  <2>4. cached' \subseteq stored' /\ Cardinality(cached') <= CacheMax
    <3>1. top' \in Nat /\ stored' \in SUBSET (0..top')
      BY <1>1, <2>1, <2>3
    <3> QED
      BY <2>3, <3>1, LargestCounted, Members, Parameters DEF Trimmed
  <2>5. \A f \in fetches' : /\ f \in [from : 0..top', cursor : 0..top']
                            /\ f.from \in 0..top' /\ f.cursor \in f.from..top'
    BY <1>1, <2>1, <2>3
  <2>6. mem' \subseteq stored' /\ idb' \subseteq stored' /\ lastSeq' \in stored' \cup {0}
    BY <1>1, <2>3
  <2> QED
    BY <2>2, <2>3, <2>4, <2>5, <2>6 DEF HistoryTyped, HistoryTypeOK
<1>3. ASSUME UNCHANGED <<top, stored, cached>>,
             online' \in BOOLEAN, hasMore' \in BOOLEAN, prune' \in BOOLEAN, drops' \in Nat,
             mem' \subseteq stored, idb' \subseteq stored, lastSeq' \in stored \cup {0},
             wire' \in Seq(WireFrames), timers' \subseteq [seen : Int, asked : BOOLEAN],
             \A f \in fetches' : /\ f \in [from : 0..top, cursor : 0..top]
                                 /\ f.from \in 0..top /\ f.cursor \in f.from..top
      PROVE  HistoryTyped'
  <2>1. HistoryTypeOK'
    BY <1>1, <1>3 DEF HistoryTyped, HistoryTypeOK
  <2>2. cached' = Trimmed(stored')
    BY <1>3 DEF HistoryTyped
  <2>3. wire' \in Seq(WireFrames')
    BY <1>3 DEF WireFrames
  <2> QED
    BY <1>3, <2>1, <2>2, <2>3 DEF HistoryTyped
<1>4. /\ online \in BOOLEAN /\ hasMore \in BOOLEAN /\ prune \in BOOLEAN /\ drops \in Nat
      /\ timers \subseteq [seen : Int, asked : BOOLEAN]
  BY DEF HistoryTyped, HistoryTypeOK
<1>5. CASE Drop
  <2>1. << >> \in Seq(WireFrames)
    OBVIOUS
  <2>2. /\ UNCHANGED <<top, stored, cached, mem, idb, lastSeq, fetches, hasMore, timers, prune>>
        /\ online' = FALSE /\ wire' = << >> /\ drops' = drops + 1
    BY <1>5 DEF Drop, server, client
  <2>3. online' \in BOOLEAN
    BY <2>2
  <2>4. drops' \in Nat
    BY <1>4, <2>2
  <2> QED
    BY <1>1, <1>3, <1>4, <2>1, <2>2, <2>3, <2>4
<1>6. CASE Hello
  <2>1. Answer(lastSeq) \in Seq(WireFrames)
    BY Issued, AnswerSends
  <2> QED
    BY <1>1, <1>3, <1>4, <1>6, <2>1 DEF Hello, server, client
<1>7. CASE Receive
  <2> DEFINE f == Head(wire)
  <2>1. f \in WireFrames /\ Tail(wire) \in Seq(WireFrames) /\ wire # << >>
    BY <1>1, <1>7 DEF Receive
  <2>2. f.type = "MSG" => f.seq \in stored
    BY <2>1 DEF WireFrames
  <2>3. f.type = "SYNC_GAP" => f.seq \in 0..top
    BY <2>1 DEF WireFrames
  <2> HIDE DEF f
  <2>4. /\ UNCHANGED <<top, stored, cached, online, hasMore, timers, prune, drops>>
        /\ wire' = Tail(wire)
        /\ \/ /\ f.type = "MSG" /\ mem' = mem \cup {f.seq} /\ idb' = idb \cup {f.seq}
              /\ lastSeq' = f.seq /\ UNCHANGED fetches
           \/ /\ f.type = "SYNC_GAP" /\ UNCHANGED <<mem, idb, lastSeq>>
              /\ fetches' = fetches \cup {[from |-> f.seq, cursor |-> f.seq]}
    BY <1>7 DEF Receive, server, f
  <2>5. CASE f.type = "MSG"
    <3>1. /\ mem' = mem \cup {f.seq} /\ idb' = idb \cup {f.seq} /\ lastSeq' = f.seq
          /\ UNCHANGED fetches
      BY <2>4, <2>5
    <3> QED
      BY <1>1, <1>3, <1>4, <2>1, <2>2, <2>4, <2>5, <3>1
  <2>6. CASE f.type = "SYNC_GAP"
    <3>1. /\ UNCHANGED <<mem, idb, lastSeq>>
          /\ fetches' = fetches \cup {[from |-> f.seq, cursor |-> f.seq]}
      BY <2>4, <2>6
    <3>2. \A g \in fetches' : /\ g \in [from : 0..top, cursor : 0..top]
                              /\ g.from \in 0..top /\ g.cursor \in g.from..top
      BY <1>1, <2>3, <2>6, <3>1
    <3> QED
      BY <1>1, <1>3, <1>4, <2>1, <2>4, <3>1, <3>2
  <2> QED
    BY <2>4, <2>5, <2>6
<1>8. ASSUME NEW f \in fetches, FetchPage(f)  PROVE HistoryTyped'
  <2> DEFINE page == Batch(f.cursor, PageMax)
  <2>1. f.cursor \in 0..top /\ f.cursor \in Int
    BY <1>1
  <2>2. page \subseteq stored
    BY <2>1, BatchAbove
  <2>3. ~LastPage(page) => Max(page) \in 0..top /\ f.cursor < Max(page)
    BY <2>1, PageEnds
  <2> HIDE DEF page
  <2>4. /\ UNCHANGED <<top, stored, cached, online, wire, lastSeq, hasMore, timers, prune,
                       drops>>
        /\ mem' = mem \cup page /\ idb' = idb \cup page
        /\ fetches' = IF LastPage(page) THEN fetches \ {f}
                      ELSE (fetches \ {f}) \cup {[f EXCEPT !.cursor = Max(page)]}
    BY <1>8 DEF FetchPage, server, page
  <2>5. \A g \in fetches' : /\ g \in [from : 0..top, cursor : 0..top]
                            /\ g.from \in 0..top /\ g.cursor \in g.from..top
    <3>1. CASE LastPage(page)
      BY <1>1, <2>4, <3>1
    <3>2. CASE ~LastPage(page)
      <4> DEFINE h == [f EXCEPT !.cursor = Max(page)]
      <4>1. /\ h.from = f.from /\ h.cursor = Max(page)
            /\ h \in [from : 0..top, cursor : 0..top]
        BY <1>1, <2>3, <3>2
      <4>2. h.cursor \in h.from..top
        BY <1>1, <2>1, <2>3, <3>2, <4>1
      <4> HIDE DEF h
      <4>3. \A g \in fetches' : g \in fetches \/ g = h
        BY <2>4, <3>2 DEF h
      <4> QED
        BY <1>1, <4>1, <4>2, <4>3
    <3> QED
      BY <3>1, <3>2
  <2> QED
    BY <1>1, <1>3, <1>4, <2>2, <2>4, <2>5
<1>9. ASSUME NEW f \in fetches, FetchFailed(f)  PROVE HistoryTyped'
  BY <1>1, <1>3, <1>4, <1>9 DEF FetchFailed, server
<1>10. CASE LoadMore
  <2>1. CASE mem = {} \/ Min(mem) <= 1
    BY <1>1, <1>3, <1>4, <1>10, <2>1 DEF LoadMore, server
  <2>2. CASE ~(mem = {} \/ Min(mem) <= 1)
    <3> DEFINE page == Largest(Below(idb, Min(mem)), ScrollMax)
    <3>1. page \subseteq stored
      <4>1. page \subseteq Below(idb, Min(mem)) /\ Below(idb, Min(mem)) \subseteq idb
        BY Members
      <4> QED
        BY <1>1, <4>1
    <3>2. Answer(Window(Min(mem))) \in Seq(WireFrames)
      BY <2>2, WindowBegins, AnswerSends
    <3>3. Cardinality(mem) \in Int
      <4>1. mem \in SUBSET (0..top)
        BY Issued
      <4>2. Cardinality(mem) \in Nat
        BY <1>1, <4>1, Bounded
      <4> QED
        BY <4>2
    <3> HIDE DEF page
    <3>4. /\ UNCHANGED <<top, stored, cached, online, idb, lastSeq, fetches, prune, drops,
                         hasMore>>
          /\ mem' = mem \cup page
          /\ timers' = IF page = {} THEN timers \cup {[seen |-> Cardinality(mem), asked |-> online]}
                       ELSE timers
          /\ wire' = IF page = {} /\ online THEN wire \o Answer(Window(Min(mem))) ELSE wire
      BY <1>10, <2>2 DEF LoadMore, server, page
    <3>5. timers' \subseteq [seen : Int, asked : BOOLEAN] /\ wire' \in Seq(WireFrames)
      <4>1. [seen |-> Cardinality(mem), asked |-> online] \in [seen : Int, asked : BOOLEAN]
        BY <1>4, <3>3
      <4> QED
        BY <1>1, <1>4, <3>2, <3>4, <4>1
    <3> QED
      BY <1>1, <1>3, <1>4, <3>1, <3>4, <3>5
  <2> QED
    BY <2>1, <2>2
<1>11. ASSUME NEW t \in timers, Timeout(t)  PROVE HistoryTyped'
  <2>1. /\ UNCHANGED <<top, stored, cached, online, wire, mem, idb, lastSeq, fetches, prune,
                       drops>>
        /\ timers' = timers \ {t} /\ hasMore' = (hasMore /\ Cardinality(mem) # t.seen)
    BY <1>11 DEF Timeout, server
  <2>2. hasMore' \in BOOLEAN
    BY <2>1
  <2> QED
    BY <1>1, <1>3, <1>4, <2>1, <2>2
<1>12. CASE Reload
  <2>1. << >> \in Seq(WireFrames)
    OBVIOUS
  <2>2. /\ UNCHANGED <<top, stored, cached, idb, lastSeq, drops>>
        /\ online' = FALSE /\ wire' = << >> /\ fetches' = {} /\ mem' = idb /\ hasMore' = TRUE
        /\ prune' = TRUE /\ timers' = {}
    BY <1>12 DEF Reload, server, Loaded
  <2> QED
    BY <1>1, <1>3, <1>4, <2>1, <2>2
<1>13. ASSUME NEW cut \in 1..MaxNumber, Prune(cut)  PROVE HistoryTyped'
  <2>1. /\ UNCHANGED <<top, stored, cached, online, wire, mem, lastSeq, fetches, hasMore,
                       timers,
                        drops>>
        /\ prune' = FALSE /\ idb' = Largest(idb, MinKeep) \cup Above(idb, cut)
    BY <1>13 DEF Prune, server
  <2>2. Largest(idb, MinKeep) \subseteq idb /\ Above(idb, cut) \subseteq idb
    BY Members
  <2> QED
    BY <1>1, <1>3, <1>4, <2>1, <2>2
<1>14. CASE UNCHANGED historyVars
  BY <1>1, <1>3, <1>4, <1>14 DEF historyVars
<1> QED
  BY <1>2, <1>5, <1>6, <1>7, <1>8, <1>9, <1>10, <1>11, <1>12, <1>13, <1>14 DEF HistoryNext

\* Nothing is shown, kept or cached that is not stored, and the cache is never larger than
\* CACHE_MAX.
THEOREM HistoryTypeCorrect == HistorySpec => []HistoryTypeOK
<1>1. HistoryTyped => HistoryTypeOK
  BY DEF HistoryTyped
<1> QED
  BY <1>1, TypedInit, TypedStep, PTL DEF HistorySpec

-----------------------------------------------------------------------------
(***************************************************************************)
(* A backfill                                                              *)
(***************************************************************************)

\* A page leaves out nothing that the cache has between its cursor and its end.
LEMMA PageBrings ==
    ASSUME HistoryTyped, NEW from \in 0..top, NEW n \in Above(cached, from),
           LastPage(Batch(from, PageMax)) \/ n <= Max(Batch(from, PageMax))
    PROVE  n \in Batch(from, PageMax)
<1> DEFINE A == Above(cached, from)
           page == Batch(from, PageMax)
<1>1. A \in SUBSET (0..top) /\ top \in Nat /\ PageMax \in Nat
  <2>1. top \in Nat /\ cached \in SUBSET (0..top) /\ from \in Int
    BY Issued
  <2> QED
    BY <2>1, NumbersInSets, Parameters
<1>2. page = Smallest(A, PageMax)
  BY DEF Batch
<1> SUFFICES ASSUME n \notin page PROVE FALSE
  OBVIOUS
<1>3. Cardinality(page) >= PageMax
  BY <1>1, <1>2, SmallestFull
<1>4. ~LastPage(page)
  <2>1. page \in SUBSET (0..top)
    <3> HIDE DEF page, A
    <3> QED
      BY <1>1, <1>2, NumbersInSets
  <2>2. Cardinality(page) \in Nat
    BY <1>1, <2>1, Bounded
  <2> HIDE DEF page
  <2> QED
    BY <1>1, <1>3, <2>2 DEF LastPage
<1>5. Max(page) \in page
  BY <1>4, PageEnds
<1>6. n <= Max(page)
  BY <1>4
<1> HIDE DEF page, A
<1>7. n \in A
  BY DEF A
<1> QED
  BY <1>1, <1>2, <1>5, <1>6, <1>7, SmallestBelow

\* As long as the cache can hold what is above the start of a backfill, everything up to
\* its cursor is there.
FetchesBring ==
    \A f \in fetches : Cardinality(Above(stored, f.from)) <= CacheMax
        => \A n \in Above(stored, f.from) : n <= f.cursor => n \in mem

\* The cache does have it then.
LEMMA CacheReaches ==
    ASSUME HistoryTyped, NEW from \in 0..top, Cardinality(Above(stored, from)) <= CacheMax
    PROVE  Above(stored, from) \subseteq cached
<1>1. from \in Int /\ CacheMax \in Nat
  BY Parameters, Issued
<1> QED
  BY <1>1, Issued, LargestIsAll DEF HistoryTyped, Trimmed

\* Every step keeps what the fetches under way still have to bring.
LEMMA FetchesStep ==
    ASSUME HistoryTyped, HistoryTyped', FetchesBring, [HistoryNext]_historyVars
    PROVE  FetchesBring'
<1>1. /\ top \in Nat /\ stored \in SUBSET (0..top) /\ \A n \in stored : n \in Int /\ n <= top
      /\ \A f \in fetches : /\ f \in [from : 0..top, cursor : 0..top]
                            /\ f.from \in 0..top /\ f.cursor \in 0..top /\ f.cursor \in f.from..top
  BY Issued DEF HistoryTyped, HistoryTypeOK
<1>2. ASSUME UNCHANGED <<stored, mem>>, fetches' \subseteq fetches  PROVE FetchesBring'
  BY <1>2 DEF FetchesBring, Above
<1>3. CASE Message
  <2>1. /\ top' = top + 1 /\ stored' = stored \cup {top + 1} /\ UNCHANGED <<mem, fetches>>
    BY <1>3 DEF Message, client
  <2>2. SUFFICES ASSUME NEW f \in fetches, Cardinality(Above(stored', f.from)) <= CacheMax,
                        NEW n \in Above(stored', f.from), n <= f.cursor
                 PROVE  n \in mem
    BY <2>1 DEF FetchesBring, Above
  <2>3. n \in Above(stored, f.from)
    <3>1. n \in stored' /\ n > f.from
      BY Members
    <3>2. n # top + 1
      BY <1>1, <2>2
    <3> QED
      BY <2>1, <3>1, <3>2, Members
  <2>4. Cardinality(Above(stored, f.from)) <= CacheMax
    <3>1. /\ Above(stored, f.from) \in SUBSET Above(stored', f.from)
          /\ Above(stored', f.from) \in SUBSET (0..top') /\ top' \in Nat
      <4>1. stored' \in SUBSET (0..top') /\ top' \in Nat
        BY <1>1, <2>1
      <4> QED
        BY <2>1, <4>1, Members
    <3>2. /\ Cardinality(Above(stored, f.from)) <= Cardinality(Above(stored', f.from))
          /\ Cardinality(Above(stored, f.from)) \in Nat
          /\ Cardinality(Above(stored', f.from)) \in Nat
      BY <3>1, Bounded
    <3> QED
      BY <2>2, <3>2, Parameters
  <2> QED
    BY <2>2, <2>3, <2>4 DEF FetchesBring
<1>4. CASE Receive
  <2> DEFINE g == [from |-> Head(wire).seq, cursor |-> Head(wire).seq]
  <2>1. UNCHANGED stored /\ mem \subseteq mem' /\ fetches' \subseteq fetches \cup {g}
    BY <1>4 DEF Receive, server
  <2>2. g \in fetches' => g.from = g.cursor /\ g.from \in Int
    BY DEF HistoryTyped, HistoryTypeOK
  <2>3. SUFFICES ASSUME NEW f \in fetches', Cardinality(Above(stored, f.from)) <= CacheMax,
                        NEW n \in Above(stored, f.from), n <= f.cursor
                 PROVE  n \in mem'
    BY <2>1 DEF FetchesBring, Above
  <2>4. CASE f \in fetches
    BY <2>1, <2>3, <2>4 DEF FetchesBring
  <2>5. CASE f = g
    <3>1. n \in Int /\ n > g.from /\ n <= g.cursor
      BY <1>1, <2>3, <2>5, Members
    <3> HIDE DEF g
    <3> QED
      BY <2>2, <2>5, <3>1
  <2> QED
    BY <2>1, <2>4, <2>5
<1>5. ASSUME NEW f \in fetches, FetchPage(f)  PROVE FetchesBring'
  <2> DEFINE page == Batch(f.cursor, PageMax)
             h == [f EXCEPT !.cursor = Max(page)]
  <2>1. /\ UNCHANGED stored /\ mem' = mem \cup page
        /\ fetches' \subseteq fetches \cup (IF LastPage(page) THEN {} ELSE {h})
    BY <1>5 DEF FetchPage, server
  <2>2. h.from = f.from /\ h.cursor = Max(page)
    BY <1>1
  <2>3. SUFFICES ASSUME NEW g \in fetches', Cardinality(Above(stored, g.from)) <= CacheMax,
                        NEW n \in Above(stored, g.from), n <= g.cursor
                 PROVE  n \in mem'
    BY <2>1 DEF FetchesBring, Above
  <2>4. CASE g \in fetches
    BY <2>1, <2>3, <2>4 DEF FetchesBring
  <2>5. CASE ~LastPage(page) /\ g = h
    <3>1. n \in Above(stored, f.from) /\ n <= Max(page) /\ n \in stored /\ n \in Int
      BY <1>1, <2>2, <2>3, <2>5, Members
    <3>2. Cardinality(Above(stored, f.from)) <= CacheMax
      BY <2>2, <2>3, <2>5
    <3> HIDE DEF page, h
    <3>3. CASE n <= f.cursor
      BY <2>1, <3>1, <3>2, <3>3 DEF FetchesBring
    <3>4. CASE ~(n <= f.cursor)
      <4>1. n > f.cursor
        BY <1>1, <3>1, <3>4
      <4>2. n \in Above(cached, f.cursor)
        BY <1>1, <3>1, <3>2, <4>1, CacheReaches, Members
      <4> QED
        BY <1>1, <2>1, <3>1, <4>2, PageBrings DEF page
    <3> QED
      BY <3>3, <3>4
  <2> HIDE DEF h, page
  <2> QED
    BY <2>1, <2>4, <2>5
<1>6. CASE Drop \/ Hello \/ Control \/ UNCHANGED historyVars
  BY <1>2, <1>6 DEF Drop, Hello, Control, historyVars, server, client
<1>7. ASSUME NEW f \in fetches, FetchFailed(f)  PROVE FetchesBring'
  BY <1>2, <1>7 DEF FetchFailed, server
<1>8. CASE LoadMore
  <2>1. UNCHANGED <<stored, fetches>> /\ mem \subseteq mem'
    BY <1>8 DEF LoadMore, server
  <2> QED
    BY <2>1 DEF FetchesBring, Above
<1>9. ASSUME NEW t \in timers, Timeout(t)  PROVE FetchesBring'
  BY <1>2, <1>9 DEF Timeout, server
<1>10. CASE Reload
  BY <1>10 DEF Reload, FetchesBring
<1>11. ASSUME NEW cut \in 1..MaxNumber, Prune(cut)  PROVE FetchesBring'
  BY <1>2, <1>11 DEF Prune, server
<1> QED
  BY <1>3, <1>4, <1>5, <1>6, <1>7, <1>8, <1>9, <1>10, <1>11 DEF HistoryNext

\* A backfill that is over has brought everything above its start, however many messages
\* came in while it ran, as long as the cache can hold that much (server.js:193-217,
\* SyncClient.js:936-982).
THEOREM BackfillLeavesNoHole == HistorySpec => RecentBackfilled
<1>1. HistoryInit => FetchesBring
  BY DEF HistoryInit, FetchesBring
<1>2. HistoryTyped /\ FetchesBring => BringsAll
  <2> SUFFICES ASSUME HistoryTyped, FetchesBring, NEW f \in fetches, FetchPage(f),
                      LastPage(Batch(f.cursor, PageMax)),
                      Cardinality(Above(stored, f.from)) <= CacheMax,
                      NEW n \in Above(stored, f.from)
               PROVE  n \in mem'
    BY DEF BringsAll
  <2>1. f.from \in 0..top /\ f.cursor \in 0..top /\ n \in stored /\ n \in Int
    <3>1. f \in [from : 0..top, cursor : 0..top]
      BY DEF HistoryTyped
    <3>2. n \in stored
      BY Members
    <3> QED
      BY <3>1, <3>2, Issued
  <2>2. mem' = mem \cup Batch(f.cursor, PageMax)
    BY DEF FetchPage
  <2>3. CASE n <= f.cursor
    BY <2>2, <2>3 DEF FetchesBring
  <2>4. CASE ~(n <= f.cursor)
    <3>1. n > f.cursor
      BY <2>1, <2>4
    <3>2. n \in Above(cached, f.cursor)
      BY <2>1, <3>1, CacheReaches, Members
    <3> QED
      BY <2>1, <2>2, <3>2, PageBrings
  <2> QED
    BY <2>3, <2>4
<1>3. HistorySpec => [](HistoryTyped /\ FetchesBring)
  BY <1>1, TypedInit, TypedStep, FetchesStep, PTL DEF HistorySpec
<1> QED
  BY <1>2, <1>3, PTL DEF RecentBackfilled, HistorySpec

-----------------------------------------------------------------------------
(***************************************************************************)
(* Scrolling back                                                          *)
(***************************************************************************)

\* A frame is message n, or starts a backfill that will ask for it.
Brings(f, n) == (f.type = "MSG" /\ f.seq = n) \/ (f.type = "SYNC_GAP" /\ f.seq < n)

\* Message n is on its way.
Coming(n) ==
    (\E i \in DOMAIN wire : Brings(wire[i], n)) \/ \E f \in fetches : f.cursor < n

\* What was asked for is shown or on its way.
SoughtComes ==
    /\ sought \subseteq stored
    /\ drops = 0 =>
          /\ sought # {} => online
          /\ \A oldest \in sought : Near(oldest) \subseteq cached =>
                \A n \in Near(oldest) : n \in mem \/ Coming(n)

\* A timer that has seen nothing new runs in the window that was asked for.
TimersKnow ==
    \A t \in timers : t.asked /\ drops = 0 =>
        /\ mem # {} /\ t.seen <= Cardinality(mem)
        /\ Cardinality(mem) = t.seen => Min(mem) \in sought

\* The numbers near one that was asked for.
LEMMA NearIssued ==
    ASSUME HistoryTyped, NEW oldest \in stored
    PROVE  \A n : n \in Near(oldest) <=> n \in stored /\ n > oldest - ScrollMax
<1>1. oldest \in Int /\ ScrollMax \in Int
  BY Issued, Parameters
<1> QED
  BY <1>1, Members DEF Near

\* A step that asks for nothing new leaves on its way what was.
LEMMA StillComes ==
    ASSUME HistoryTyped, HistoryTyped', SoughtComes,
           UNCHANGED <<sought, drops, online>>, stored \subseteq stored', mem \subseteq mem',
           \A n \in stored : n \in cached' => n \in cached,
           \A n \in stored' : n \notin stored => (online /\ drops = 0 => Coming(n)'),
           \A n \in cached : n \notin mem' /\ Coming(n) => Coming(n)'
    PROVE  SoughtComes'
<1>1. sought' \subseteq stored' /\ sought' = sought /\ drops' = drops /\ online' = online
  BY DEF SoughtComes
<1>2. ASSUME drops = 0, NEW oldest \in sought, Near(oldest)' \subseteq cached', NEW n \in Near(oldest)'
      PROVE  n \in mem' \/ Coming(n)'
  <2>1. oldest \in stored /\ oldest \in stored' /\ online
    BY <1>2 DEF SoughtComes
  <2>2. \A x : x \in Near(oldest) <=> x \in stored /\ x > oldest - ScrollMax
    BY <2>1, NearIssued
  <2>3. \A x : x \in Near(oldest)' <=> x \in stored' /\ x > oldest - ScrollMax
    <3>1. oldest \in Int /\ ScrollMax \in Int
      BY <2>1, Issued, Parameters
    <3>2. Near(oldest)' = Above(stored', oldest - ScrollMax)
      BY DEF Near, Above
    <3> QED
      BY <3>1, <3>2, Members
  <2>4. CASE n \notin stored
    BY <1>2, <2>1, <2>3, <2>4
  <2>5. CASE n \in stored
    <3>1. n \in Near(oldest)
      BY <1>2, <2>2, <2>3, <2>5
    <3>2. Near(oldest) \subseteq cached
      <4>1. \A x \in Near(oldest) : x \in stored /\ x \in Near(oldest)'
        BY <2>2, <2>3
      <4> QED
        BY <1>2, <4>1
    <3>3. n \in mem \/ Coming(n)
      BY <1>2, <3>1, <3>2 DEF SoughtComes
    <3> QED
      BY <3>1, <3>2, <3>3
  <2> QED
    BY <2>4, <2>5
<1>3. sought' # {} /\ drops' = 0 => online'
  BY <1>1 DEF SoughtComes
<1> QED
  BY <1>1, <1>2, <1>3 DEF SoughtComes

\* What a SYNC_REQ is answered with.
LEMMA AnswerBrings ==
    ASSUME HistoryTyped, NEW from \in 0..top, NEW n \in Above(cached, from)
    PROVE  \E i \in DOMAIN Answer(from) : Brings(Answer(from)[i], n)
<1>1. n \in cached /\ n > from /\ from \in Int /\ n \in Int /\ n \in stored /\ from < n
  <2>1. n \in cached /\ n > from
    BY Members
  <2>2. n \in stored /\ n \in Int /\ from \in Int
    BY <2>1, Issued
  <2> QED
    BY <2>1, <2>2
<1>2. CASE top - from > LiveMax
  <2>1. Answer(from) = << [type |-> "SYNC_GAP", seq |-> from] >>
    BY <1>2 DEF Answer
  <2>2. 1 \in DOMAIN Answer(from) /\ Brings(Answer(from)[1], n)
    BY <1>1, <2>1 DEF Brings
  <2> QED
    BY <2>2
<1>3. CASE ~(top - from > LiveMax)
  <2> DEFINE A == Above(cached, from)
  <2>1. Batch(from, Cardinality(stored)) = Smallest(A, Cardinality(stored))
    BY DEF Batch
  <2>2. /\ stored \in SUBSET (0..top) /\ top \in Nat
        /\ Below(A, n) \subseteq stored /\ Below(A, n) # stored
    <3>1. A \subseteq stored
      BY Issued, Members
    <3>2. n \notin Below(A, n)
      BY <1>1, NotItself
    <3> QED
      BY <1>1, <3>1, <3>2, Issued, Members
  <2>3. Cardinality(Below(A, n)) < Cardinality(stored)
    BY <2>2, Bounded
  <2>4. n \in Batch(from, Cardinality(stored))
    BY <2>1, <2>3, Members
  <2>5. Answer(from) = Replay(from)
    BY <1>3 DEF Answer
  <2>6. PICK i \in DOMAIN Replay(from) : Replay(from)[i].type = "MSG" /\ Replay(from)[i].seq = n
    BY <1>1, <2>4, ReplaySends
  <2>7. Brings(Replay(from)[i], n)
    BY <2>6 DEF Brings
  <2> QED
    BY <2>5, <2>6, <2>7
<1> QED
  BY <1>2, <1>3

\* Every step keeps what is on its way into the windows that were asked for.
LEMMA SoughtStep ==
    ASSUME HistoryTyped, HistoryTyped', SoughtComes, [HistoryNext]_historyVars
    PROVE  SoughtComes'
<1>1. /\ top \in Nat /\ drops \in Nat /\ cached \subseteq stored /\ wire \in Seq(WireFrames)
      /\ \A n \in stored : n \in Int /\ n <= top
      /\ \A f \in fetches : f \in [from : 0..top, cursor : 0..top] /\ f.cursor \in 0..top
      /\ \A f \in fetches : f.cursor \in Int
  BY Issued DEF HistoryTyped
<1>2. ASSUME UNCHANGED <<sought, drops, online, stored, cached>>, mem \subseteq mem',
             \A n \in cached : n \notin mem' /\ Coming(n) => Coming(n)'
      PROVE  SoughtComes'
  BY <1>2, StillComes
<1>3. CASE Message
  <2>1. /\ UNCHANGED <<sought, drops, online, mem, fetches>>
        /\ stored' = stored \cup {top + 1}
        /\ cached' = Trimmed(cached \cup {top + 1})
        /\ online => wire' = Append(wire, [type |-> "MSG", seq |-> top + 1])
        /\ ~online => wire' = wire
    BY <1>3 DEF Message, client
  <2>2. cached' \subseteq cached \cup {top + 1}
    BY <2>1, Members DEF Trimmed
  <2>3. \A n : Coming(n) => Coming(n)'
    <3>1. CASE ~online
      BY <2>1, <3>1 DEF Coming
    <3>2. CASE online
      <4>1. \A i \in DOMAIN wire : i \in DOMAIN wire' /\ wire'[i] = wire[i]
        BY <1>1, <2>1, <3>2
      <4> QED
        BY <2>1, <4>1 DEF Coming
    <3> QED
      BY <2>1, <3>1, <3>2
  <2>4. \A n \in stored : n \in cached' => n \in cached
    BY <1>1, <2>2
  <2>5. \A n \in stored' : n \notin stored => (online /\ drops = 0 => Coming(n)')
    <3>1. ASSUME online, NEW n, n = top + 1  PROVE Coming(n)'
      <4>1. Len(wire) + 1 \in DOMAIN wire' /\ wire'[Len(wire) + 1] = [type |-> "MSG", seq |-> n]
        BY <1>1, <2>1, <3>1
      <4>2. Brings(wire'[Len(wire) + 1], n)
        BY <4>1 DEF Brings
      <4> QED
        BY <4>1, <4>2 DEF Coming
    <3>2. \A n \in stored' : n \notin stored => n = top + 1
      BY <2>1
    <3> HIDE DEF Coming
    <3> QED
      BY <3>1, <3>2
  <2> QED
    BY <2>1, <2>3, <2>4, <2>5, StillComes
<1>4. CASE Control
  BY <1>2, <1>4 DEF Control, client, Coming
<1>5. CASE Drop
  <2>1. drops' = drops + 1
    BY <1>5 DEF Drop
  <2>2. drops' # 0 /\ sought' = sought /\ stored' = stored
    BY <1>1, <1>5, <2>1 DEF Drop, server, client
  <2> QED
    BY <2>2 DEF SoughtComes
<1>6. CASE Hello
  BY <1>6 DEF Hello, server, client, SoughtComes
<1>7. CASE Receive
  <2> DEFINE f == Head(wire)
             g == [from |-> f.seq, cursor |-> f.seq]
  <2>1. /\ UNCHANGED <<sought, drops, online, stored,
                       cached>> /\ wire # << >> /\ wire' = Tail(wire)
        /\ mem \subseteq mem' /\ fetches \subseteq fetches'
        /\ f.type = "MSG" => f.seq \in mem'
        /\ f.type = "SYNC_GAP" => g \in fetches'
    BY <1>7 DEF Receive, server
  <2>2. ASSUME NEW n \in cached, n \notin mem', Coming(n)  PROVE Coming(n)'
    <3>1. CASE \E h \in fetches : h.cursor < n
      BY <2>1, <3>1 DEF Coming
    <3>2. ASSUME NEW i \in DOMAIN wire, Brings(wire[i], n)  PROVE Coming(n)'
      <4>1. CASE i = 1
        <5>1. wire[i] = f
          BY <2>1, <4>1
        <5>2. f.type = "SYNC_GAP" /\ f.seq < n
          BY <2>1, <2>2, <3>2, <5>1 DEF Brings
        <5> QED
          BY <2>1, <5>2 DEF Coming
      <4>2. CASE i # 1
        <5>1. i - 1 \in DOMAIN wire' /\ wire'[i - 1] = wire[i]
          BY <1>1, <2>1, <4>2
        <5> QED
          BY <3>2, <5>1 DEF Coming
      <4> QED
        BY <4>1, <4>2
    <3> QED
      BY <2>2, <3>1, <3>2 DEF Coming
  <2> HIDE DEF f, g
  <2> QED
    BY <1>2, <2>1, <2>2
<1>8. ASSUME NEW f \in fetches, FetchPage(f)  PROVE SoughtComes'
  <2> DEFINE page == Batch(f.cursor, PageMax)
             h == [f EXCEPT !.cursor = Max(page)]
  <2>1. /\ UNCHANGED <<sought, drops, online, stored, cached, wire>> /\ mem' = mem \cup page
        /\ \A x \in fetches : x # f => x \in fetches'
        /\ LastPage(page) \/ h \in fetches'
    BY <1>8 DEF FetchPage, server
  <2>2. h.cursor = Max(page)
    BY <1>1
  <2>3. ASSUME NEW n \in cached, n \notin mem', Coming(n)  PROVE Coming(n)'
    <3>1. CASE \E i \in DOMAIN wire : Brings(wire[i], n)
      BY <2>1, <3>1 DEF Coming
    <3>2. CASE \E x \in fetches : x # f /\ x.cursor < n
      BY <2>1, <3>2 DEF Coming
    <3>3. CASE f.cursor < n
      <4>1. n \in Int /\ f.cursor \in 0..top /\ f.cursor \in Int
        BY <1>1
      <4>2. n \in Above(cached, f.cursor)
        <5>1. n > f.cursor
          BY <3>3, <4>1
        <5> QED
          BY <5>1, Members
      <4>3. n \notin page
        BY <2>1, <2>3
      <4>4. ~LastPage(page) /\ ~(n <= Max(page))
        BY <4>1, <4>2, <4>3, PageBrings
      <4>5. Max(page) \in 0..top
        BY <4>1, <4>4, PageEnds
      <4> HIDE DEF page, h
      <4>6. Max(page) < n
        BY <4>1, <4>4, <4>5
      <4> QED
        BY <2>1, <2>2, <4>4, <4>6 DEF Coming
    <3> QED
      BY <2>3, <3>1, <3>2, <3>3 DEF Coming
  <2> HIDE DEF page, h
  <2> QED
    BY <1>2, <2>1, <2>3
<1>9. ASSUME NEW f \in fetches, FetchFailed(f)  PROVE SoughtComes'
  <2>1. drops' = drops + 1
    BY <1>9 DEF FetchFailed
  <2>2. drops' # 0 /\ sought' = sought /\ stored' = stored
    BY <1>1, <1>9, <2>1 DEF FetchFailed, server, client
  <2> QED
    BY <2>2 DEF SoughtComes
<1>10. CASE LoadMore
  <2> DEFINE page == Largest(Below(idb, Min(mem)), ScrollMax)
             asks == page = {} /\ online
             w == Window(Min(mem))
  <2>1. UNCHANGED <<drops, online, stored, cached, fetches>> /\ mem \subseteq mem'
    BY <1>10 DEF LoadMore, server
  <2>2. CASE UNCHANGED <<wire, sought>>
    BY <1>2, <2>1, <2>2 DEF Coming
  <2>3. CASE ~UNCHANGED <<wire, sought>>
    <3>1. /\ ~(mem = {} \/ Min(mem) <= 1)
          /\ asks /\ wire' = wire \o Answer(w) /\ sought' = sought \cup {Min(mem)}
      BY <1>10, <2>3 DEF LoadMore
    <3>2. Min(mem) \in stored /\ w \in 0..top /\ \A n \in stored : n > Min(mem) - ScrollMax => n > w
      BY <3>1, WindowBegins
    <3> HIDE DEF w, page
    <3>3. Answer(w) \in Seq(WireFrames)
      BY <3>2, AnswerSends
    <3>4. \A n : Coming(n) => Coming(n)'
      <4>1. \A i \in DOMAIN wire : i \in DOMAIN wire' /\ wire'[i] = wire[i]
        BY <1>1, <3>1, <3>3
      <4> QED
        BY <2>1, <4>1 DEF Coming
    <3>5. ASSUME NEW n \in Near(Min(mem)), Near(Min(mem)) \subseteq cached  PROVE Coming(n)'
      <4>1. n \in stored /\ n > Min(mem) - ScrollMax
        BY <3>2, <3>5, NearIssued
      <4>2. n \in Above(cached, w)
        BY <3>2, <3>5, <4>1, Members
      <4>3. PICK i \in DOMAIN Answer(w) : Brings(Answer(w)[i], n)
        BY <3>2, <4>2, AnswerBrings
      <4>4. Len(wire) + i \in DOMAIN wire' /\ wire'[Len(wire) + i] = Answer(w)[i]
        BY <1>1, <3>1, <3>3, <4>3
      <4> QED
        BY <4>3, <4>4 DEF Coming
    <3>6. \A oldest : Near(oldest)' = Near(oldest)
      BY <2>1 DEF Near, Above
    <3>7. ASSUME drops = 0, NEW oldest \in sought', Near(oldest) \subseteq cached, NEW n \in Near(oldest)
          PROVE  n \in mem' \/ Coming(n)'
      <4>1. CASE oldest = Min(mem)
        BY <3>5, <3>7, <4>1
      <4>2. CASE oldest \in sought
        BY <2>1, <3>4, <3>7, <4>2 DEF SoughtComes
      <4> QED
        BY <3>1, <4>1, <4>2
    <3>8. sought' \subseteq stored' /\ online'
      BY <2>1, <3>1, <3>2 DEF SoughtComes
    <3> QED
      BY <2>1, <3>6, <3>7, <3>8 DEF SoughtComes
  <2> QED
    BY <2>2, <2>3
<1>11. ASSUME NEW t \in timers, Timeout(t)  PROVE SoughtComes'
  BY <1>2, <1>11 DEF Timeout, server, Coming
<1>12. ASSUME NEW cut \in 1..MaxNumber, Prune(cut)  PROVE SoughtComes'
  BY <1>2, <1>12 DEF Prune, server, Coming
<1>13. CASE Reload
  BY <1>13 DEF Reload, SoughtComes
<1>14. CASE UNCHANGED historyVars
  BY <1>2, <1>14 DEF historyVars, Coming
<1> QED
  BY <1>3, <1>4, <1>5, <1>6, <1>7, <1>8, <1>9, <1>10, <1>11, <1>12, <1>13, <1>14 DEF HistoryNext

\* Every step keeps what the timers know: more is shown, until the page is loaded anew.
LEMMA TimersStep ==
    ASSUME HistoryTyped, HistoryTyped', TimersKnow, [HistoryNext]_historyVars
    PROVE  TimersKnow'
<1>1. /\ top \in Nat /\ mem \in SUBSET (0..top) /\ drops \in Nat
      /\ \A t \in timers : t.seen \in Int
  BY Issued DEF HistoryTyped
<1>2. Cardinality(mem) \in Nat
  BY <1>1, Bounded
<1>3. top' \in Nat /\ mem' \in SUBSET (0..top')
  <2>1. top' \in 0..MaxNumber /\ stored' \subseteq 1..top' /\ mem' \subseteq stored'
    BY DEF HistoryTyped, HistoryTypeOK
  <2>2. top' \in Nat
    BY <2>1, Parameters
  <2>3. 1..top' \subseteq 0..top'
    BY <2>2
  <2> QED
    BY <2>1, <2>2, <2>3
<1>4. ASSUME timers' \subseteq timers, drops' = drops, sought \subseteq sought', mem \subseteq mem'
      PROVE  TimersKnow'
  <2> SUFFICES ASSUME NEW t \in timers', t.asked, drops' = 0
               PROVE  /\ mem' # {} /\ t.seen <= Cardinality(mem')
                      /\ Cardinality(mem') = t.seen => Min(mem') \in sought'
    BY DEF TimersKnow
  <2>1. /\ mem # {} /\ t.seen <= Cardinality(mem) /\ t.seen \in Int
        /\ Cardinality(mem) = t.seen => Min(mem) \in sought
    BY <1>1, <1>4 DEF TimersKnow
  <2>2. /\ Cardinality(mem) <= Cardinality(mem') /\ Cardinality(mem') \in Nat
        /\ Cardinality(mem) = Cardinality(mem') => mem' = mem
    BY <1>3, <1>4, Bounded
  <2> QED
    BY <1>2, <1>4, <2>1, <2>2
<1>5. CASE Message \/ Control
  BY <1>4, <1>5 DEF Message, Control, client
<1>6. CASE Drop \/ (\E f \in fetches : FetchFailed(f))
  <2>1. drops' = drops + 1
    BY <1>6 DEF Drop, FetchFailed
  <2> QED
    BY <1>1, <2>1 DEF TimersKnow
<1>7. CASE Hello
  BY <1>4, <1>7 DEF Hello, client
<1>8. CASE Receive
  BY <1>4, <1>8 DEF Receive
<1>9. ASSUME NEW f \in fetches, FetchPage(f)  PROVE TimersKnow'
  BY <1>4, <1>9 DEF FetchPage
<1>10. CASE LoadMore
  <2> DEFINE page == Largest(Below(idb, Min(mem)), ScrollMax)
             r == [seen |-> Cardinality(mem), asked |-> online]
  <2>1. drops' = drops /\ sought \subseteq sought' /\ mem \subseteq mem'
    BY <1>10 DEF LoadMore
  <2>2. CASE timers' \subseteq timers
    BY <1>4, <2>1, <2>2
  <2>3. CASE ~(timers' \subseteq timers)
    <3>1. /\ mem # {} /\ page = {} /\ mem' = mem \cup page /\ timers' = timers \cup {r}
          /\ online => Min(mem) \in sought'
      BY <1>10, <2>3 DEF LoadMore
    <3> HIDE DEF page
    <3>2. mem' = mem
      BY <3>1
    <3> SUFFICES ASSUME NEW t \in timers', t.asked, drops' = 0
                 PROVE  /\ mem' # {} /\ t.seen <= Cardinality(mem')
                        /\ Cardinality(mem') = t.seen => Min(mem') \in sought'
      BY DEF TimersKnow
    <3>3. CASE t \in timers
      BY <2>1, <3>1, <3>2, <3>3 DEF TimersKnow
    <3>4. CASE t = r
      <4>1. t.seen = Cardinality(mem) /\ t.asked = online
        BY <3>4
      <4> QED
        BY <1>2, <3>1, <3>2, <4>1
    <3> QED
      BY <3>1, <3>3, <3>4
  <2> QED
    BY <2>2, <2>3
<1>11. ASSUME NEW t \in timers, Timeout(t)  PROVE TimersKnow'
  BY <1>4, <1>11 DEF Timeout
<1>12. CASE Reload
  BY <1>12 DEF Reload, TimersKnow
<1>13. ASSUME NEW cut \in 1..MaxNumber, Prune(cut)  PROVE TimersKnow'
  BY <1>4, <1>13 DEF Prune
<1>14. CASE UNCHANGED historyVars
  BY <1>4, <1>14 DEF historyVars
<1> QED
  BY <1>5, <1>6, <1>7, <1>8, <1>9, <1>10, <1>11, <1>12, <1>13, <1>14 DEF HistoryNext

\* What scrolling back asked the server for is shown when it has come, also if the timer has given
\* up before; and a timer that gives up when it has come leaves no message among the ScrollMax
\* numbers before the oldest one shown: if nothing failed and the cache reaches that far
\* (useNdePaginatedMessages.js:35-58, SyncClient.js:915-932).
THEOREM ScrollingSees == HistorySpec => ScrollSeesWindow
<1>1. HistoryInit => SoughtComes /\ TimersKnow
  BY DEF HistoryInit, SoughtComes, TimersKnow
<1>2. HistoryTyped /\ SoughtComes => SoughtIsShown
  BY DEF SoughtComes, SoughtIsShown, AllCame, Coming
<1>3. HistoryTyped /\ SoughtComes /\ TimersKnow => LeavesNone
  <2> SUFFICES ASSUME HistoryTyped, SoughtComes, TimersKnow,
                      NEW t \in timers, Timeout(t), t.asked, hasMore, ~hasMore',
                      AllCame, Near(Min(mem)) \subseteq cached, NEW n \in Near(Min(mem))
               PROVE  n >= Min(mem)
    BY DEF LeavesNone
  <2>1. drops = 0 /\ Cardinality(mem) = t.seen
    BY DEF Timeout, AllCame
  <2>2. mem # {} /\ Min(mem) \in sought
    BY <2>1 DEF TimersKnow
  <2>3. n \in mem
    BY <1>2, <2>2 DEF SoughtIsShown
  <2> QED
    BY <2>2, <2>3, WindowBegins
<1>4. HistorySpec => [](HistoryTyped /\ SoughtComes /\ TimersKnow)
  BY <1>1, TypedInit, TypedStep, SoughtStep, TimersStep, PTL DEF HistorySpec
<1> QED
  BY <1>2, <1>3, <1>4, PTL DEF ScrollSeesWindow, HistorySpec

-----------------------------------------------------------------------------
(***************************************************************************)
(* Loops                                                                   *)
(***************************************************************************)

\* A loop goes from p to next[p] until p is in done; a measure falls on the way.
Loop(D, done, next, measure, last) ==
    \A p \in D : /\ measure[p] \in 0..last
                 /\ p \notin done => next[p] \in D /\ measure[next[p]] < measure[p]

\* f has the result of the loop from every p.
Runs(f, D, done, val, next) == f = [p \in D |-> IF p \in done THEN val[p] ELSE f[next[p]]]

\* A loop that ends in done, with a measure that falls, has a result.
LEMMA LoopEnds ==
    ASSUME NEW D, NEW done, NEW val, NEW next, NEW measure, NEW last \in Nat,
           Loop(D, done, next, measure, last)
    PROVE  \E f : Runs(f, D, done, val, next)
<1>0. \A p \in D : /\ measure[p] \in 0..last /\ measure[p] \in Nat
                   /\ p \notin done => next[p] \in D /\ measure[next[p]] < measure[p]
  BY DEF Loop
<1> DEFINE Step(f, p) == IF p \in done THEN val[p] ELSE f[next[p]]
           UpTo(d) == \E f : \A p \in D : measure[p] <= d => f[p] = Step(f, p)
<1>1. \A d \in Nat : UpTo(d)
  <2> DEFINE S == {d \in Nat : ~UpTo(d)}
  <2> SUFFICES ASSUME S # {} PROVE FALSE
    OBVIOUS
  <2>1. PICK d \in S : \A k \in S : d <= k
    <3> HIDE DEF UpTo
    <3> QED
      BY LeastExists
  <2>2. d \in Nat
    OBVIOUS
  <2>3. \E f : \A p \in D : measure[p] < d => f[p] = Step(f, p)
    <3>1. CASE d = 0
      <4>1. \A p \in D : ~(measure[p] < d)
        BY <1>0, <3>1
      <4> QED
        BY <4>1
    <3>2. CASE d # 0
      <4>1. d - 1 \in Nat /\ d - 1 < d
        BY <2>2, <3>2
      <4>2. UpTo(d - 1)
        <5> HIDE DEF UpTo
        <5> QED
          BY <2>1, <2>2, <4>1
      <4>3. PICK f : \A p \in D : measure[p] <= d - 1 => f[p] = Step(f, p)
        BY <4>2
      <4> HIDE DEF Step
      <4>4. \A p \in D : measure[p] < d => measure[p] <= d - 1
        BY <1>0, <2>2
      <4> QED
        BY <1>0, <4>3, <4>4
    <3> QED
      BY <3>1, <3>2
  <2>4. PICK f : \A p \in D : measure[p] < d => f[p] = Step(f, p)
    BY <2>3
  <2> DEFINE g == [p \in D |-> IF measure[p] < d THEN f[p] ELSE Step(f, p)]
  <2>5. ASSUME NEW p \in D, measure[p] <= d PROVE g[p] = Step(g, p)
    <3>1. g[p] = Step(f, p)
      BY <2>4
    <3>2. p \notin done => next[p] \in D /\ measure[next[p]] < d
      BY <1>0, <2>2, <2>5
    <3>3. p \notin done => g[next[p]] = f[next[p]]
      BY <3>2
    <3> QED
      BY <3>1, <3>3
  <2>6. UpTo(d)
    BY <2>5
  <2> QED
    BY <2>6
<1>2. PICK f : \A p \in D : measure[p] <= last => f[p] = Step(f, p)
  BY <1>1
<1> DEFINE g == [p \in D |-> f[p]]
<1>3. \A p \in D : p \notin done => g[next[p]] = f[next[p]]
  BY <1>0
<1>4. \A p \in D : f[p] = IF p \in done THEN val[p] ELSE g[next[p]]
  BY <1>0, <1>2, <1>3
<1>5. Runs(g, D, done, val, next)
  BY <1>4 DEF Runs
<1> QED
  BY <1>5

\* Where a loop keeps a promise that what it stops with has made good.
LEMMA LoopKeeps ==
    ASSUME NEW D, NEW done, NEW val, NEW next, NEW measure, NEW last \in Nat, NEW f,
           Loop(D, done, next, measure, last), Runs(f, D, done, val, next),
           NEW I \in SUBSET D,
           \A p \in I : p \notin done => next[p] \in I
    PROVE  \A p \in I : \E q \in I : q \in done /\ f[p] = val[q]
<1>0. \A p \in D : /\ measure[p] \in Nat
                   /\ p \notin done => next[p] \in D /\ measure[next[p]] < measure[p]
                   /\ f[p] = IF p \in done THEN val[p] ELSE f[next[p]]
  BY DEF Loop, Runs
<1> DEFINE Ends(p) == \E q \in I : q \in done /\ f[p] = val[q]
           S == {measure[p] : p \in {p \in I : ~Ends(p)}}
<1> SUFFICES ASSUME S # {} PROVE FALSE
  OBVIOUS
<1>1. S \in SUBSET Nat
  BY <1>0
<1>2. PICK d \in S : \A k \in S : d <= k
  <2> HIDE DEF S
  <2> QED
    BY <1>1, LeastExists
<1>3. PICK p \in I : ~Ends(p) /\ d = measure[p]
  <2> HIDE DEF Ends
  <2> QED
    OBVIOUS
<1>4. p \notin done
  BY <1>0, <1>3
<1>5. next[p] \in I /\ measure[next[p]] < measure[p] /\ f[p] = f[next[p]]
  BY <1>0, <1>4
<1>6. ~Ends(next[p])
  BY <1>3, <1>5
<1>7. measure[next[p]] \in S
  <2> HIDE DEF Ends
  <2> QED
    BY <1>5, <1>6
<1>8. measure[next[p]] \in Nat /\ measure[p] \in Nat
  BY <1>0, <1>5
<1> HIDE DEF S
<1> QED
  BY <1>2, <1>3, <1>5, <1>7, <1>8

-----------------------------------------------------------------------------
(***************************************************************************)
(* The array                                                               *)
(***************************************************************************)

\* The numbers in the array rise.
Rising(arr) == \A i, j \in 1..Len(arr) : i < j => arr[i].seq < arr[j].seq

\* The fields of a record.
LEMMA RecTyped ==
    ASSUME NEW r \in Recs
    PROVE  r.seq \in Int /\ r.ulid \in Ulids /\ r.status \in DOMAIN Rank
  BY DEF Recs

\* The entries of an array of records.
LEMMA EntriesTyped ==
    ASSUME NEW arr \in Seq(Recs)
    PROVE  /\ Len(arr) \in Nat /\ DOMAIN arr = 1..Len(arr)
           /\ \A i \in 1..Len(arr) : arr[i] \in Recs /\ arr[i].seq \in Int
<1>1. Len(arr) \in Nat /\ DOMAIN arr = 1..Len(arr) /\ \A i \in 1..Len(arr) : arr[i] \in Recs
  OBVIOUS
<1> QED
  BY <1>1, RecTyped

\* The bisection of _binaryInsert ends at an index, and in an array that rises it ends where the
\* record belongs.
LEMMA PlaceRight ==
    ASSUME NEW arr \in Seq(Recs), NEW n \in Int
    PROVE  /\ PlaceFor(arr, n) \in 1..Len(arr) + 1
           /\ Rising(arr) => \A i \in 1..Len(arr) : i < PlaceFor(arr, n) <=> arr[i].seq < n
<1> DEFINE L == Len(arr)
           D == Places(arr)
           mid(p) == (p[1] + p[2]) \div 2
           done == {p \in D : p[1] >= p[2]}
           val == [p \in D |-> p[1]]
           next == [p \in D |-> IF arr[mid(p) + 1].seq < n THEN <<mid(p) + 1, p[2]>>
                                ELSE <<p[1], mid(p)>>]
           measure == [p \in D |-> IF p[1] >= p[2] THEN 0 ELSE p[2] - p[1]]
           Is(f) == f = [p \in D |-> IF p[1] >= p[2] THEN p[1]
                                     ELSE IF arr[mid(p) + 1].seq < n THEN f[<<mid(p) + 1,
                                                                              p[2]>>]
                                     ELSE f[<<p[1], mid(p)>>]]
<1>1. PlaceFor(arr, n) = (CHOOSE f : Is(f))[<<0, L>>] + 1
  BY DEF PlaceFor
<1>2. L \in Nat /\ \A i \in 1..L : arr[i].seq \in Int
  BY EntriesTyped
<1>3. \A p \in D : /\ p = <<p[1], p[2]>> /\ p[1] \in 0..L /\ p[2] \in 0..L
                   /\ p[1] < p[2] => mid(p) \in p[1]..p[2] - 1
  BY <1>2 DEF Places
<1>4. \A a, b \in 0..L : <<a, b>> \in D
  BY DEF Places
<1>5. \A p \in D : measure[p] \in 0..L
  BY <1>2, <1>3
<1>6. ASSUME NEW p \in D, p \notin done
      PROVE  next[p] \in D /\ measure[next[p]] < measure[p]
  <2>1. p[1] \in 0..L /\ p[2] \in 0..L /\ p[1] < p[2] /\ mid(p) \in p[1]..p[2] - 1
    BY <1>3, <1>6
  <2> DEFINE m == mid(p)
  <2> HIDE DEF mid, D
  <2>a. m + 1 \in 0..L /\ m \in 0..L
    BY <1>2, <2>1
  <2>2. <<m + 1, p[2]>> \in D /\ <<p[1], m>> \in D
    BY <1>4, <2>1, <2>a
  <2>3. measure[p] = p[2] - p[1]
    BY <2>1
  <2>4. measure[<<m + 1, p[2]>>] < p[2] - p[1] /\ measure[<<p[1], m>>] < p[2] - p[1]
    BY <2>1, <2>2
  <2>5. next[p] = <<m + 1, p[2]>> \/ next[p] = <<p[1], m>>
    OBVIOUS
  <2> HIDE DEF measure, next, m
  <2> QED
    BY <2>2, <2>3, <2>4, <2>5
<1>a. \A p \in D : p \notin done => next[p] \in D /\ measure[next[p]] < measure[p]
  BY <1>6
<1>b. Loop(D, done, next, measure, L)
  BY <1>5, <1>a DEF Loop
<1>7. \E f : Runs(f, D, done, val, next)
  <2> HIDE DEF D, done, val, next, measure
  <2> QED
    BY <1>2, <1>b, LoopEnds
<1>8. ASSUME NEW f PROVE Is(f) <=> Runs(f, D, done, val, next)
  <2>1. \A p \in D : /\ p \in done <=> p[1] >= p[2]
                     /\ val[p] = p[1]
                     /\ f[next[p]] = IF arr[mid(p) + 1].seq < n THEN f[<<mid(p) + 1, p[2]>>]
                                     ELSE f[<<p[1], mid(p)>>]
    OBVIOUS
  <2>2. \A p \in D : (IF p \in done THEN val[p] ELSE f[next[p]])
                     = IF p[1] >= p[2] THEN p[1]
                       ELSE IF arr[mid(p) + 1].seq < n THEN f[<<mid(p) + 1, p[2]>>]
                       ELSE f[<<p[1], mid(p)>>]
    BY <2>1
  <2> HIDE DEF D, done, val, next, mid
  <2> QED
    BY <2>2 DEF Runs
<1> DEFINE f == CHOOSE f : Is(f)
<1>9. Is(f)
  <2>1. \E g : Is(g)
    BY <1>7, <1>8
  <2> HIDE DEF Is
  <2> QED
    BY <2>1
<1>10. Runs(f, D, done, val, next)
  <2> HIDE DEF D, done, val, next, f, Is
  <2> QED
    BY <1>8, <1>9
<1> DEFINE q0 == <<0, L>>
           I == {p \in D : /\ p[1] <= p[2]
                           /\ Rising(arr) => \A i \in 1..L : /\ i <= p[1] => arr[i].seq < n
                                                             /\ i > p[2] => arr[i].seq >= n}
<1>11. q0 \in I
  BY <1>2, <1>4
<1>12. ASSUME NEW p \in I, p \notin done PROVE next[p] \in I
  <2>1. p \in D /\ next[p] \in D
    BY <1>6, <1>12
  <2>2. p[1] \in 0..L /\ p[2] \in 0..L /\ p[1] < p[2] /\ mid(p) \in p[1]..p[2] - 1
    BY <1>3, <1>12, <2>1
  <2> DEFINE m == mid(p)
  <2> HIDE DEF mid
  <2>3. m + 1 \in 1..L
    BY <1>2, <2>2
  <2>4. CASE arr[m + 1].seq < n
    <3>1. next[p] = <<m + 1, p[2]>>
      BY <2>1, <2>4
    <3>2. Rising(arr) => \A i \in 1..L : i <= m + 1 => arr[i].seq < n
      BY <1>2, <2>3, <2>4 DEF Rising
    <3> HIDE DEF next, m, D
    <3>3. next[p][1] = m + 1 /\ next[p][2] = p[2] /\ m + 1 <= p[2]
      BY <2>2, <3>1 DEF m
    <3>4. Rising(arr) => \A i \in 1..L : i > next[p][2] => arr[i].seq >= n
      BY <1>12, <3>3
    <3> QED
      BY <2>1, <3>2, <3>3, <3>4
  <2>5. CASE ~(arr[m + 1].seq < n)
    <3>1. next[p] = <<p[1], m>>
      BY <2>1, <2>5
    <3>2. Rising(arr) => \A i \in 1..L : i > m => arr[i].seq >= n
      BY <1>2, <2>2, <2>3, <2>5 DEF Rising
    <3> HIDE DEF next, m, D
    <3>3. next[p][1] = p[1] /\ next[p][2] = m /\ p[1] <= m
      BY <2>2, <3>1 DEF m
    <3>4. Rising(arr) => \A i \in 1..L : i <= next[p][1] => arr[i].seq < n
      BY <1>12, <3>3
    <3> QED
      BY <2>1, <3>2, <3>3, <3>4
  <2> QED
    BY <2>4, <2>5
<1>13. \E q \in I : q \in done /\ f[q0] = val[q]
  <2>2. I \in SUBSET D
    OBVIOUS
  <2>3. \A p \in I : p \notin done => next[p] \in I
    BY <1>12
  <2> HIDE DEF D, done, val, next, measure, f, I, q0
  <2> QED
    BY <1>2, <1>b, <1>10, <1>11, <2>2, <2>3, LoopKeeps
<1>14. PICK q \in I : q \in done /\ f[q0] = val[q]
  BY <1>13
<1>15. q \in D /\ q[1] \in 0..L /\ q[1] = q[2] /\ f[q0] = q[1]
  BY <1>3, <1>14
<1>16. PlaceFor(arr, n) = q[1] + 1
  <2> HIDE DEF Is
  <2> QED
    BY <1>1, <1>15
<1>17. Rising(arr) => \A i \in 1..L : /\ i <= q[1] => arr[i].seq < n
                                      /\ i > q[1] => arr[i].seq >= n
  BY <1>14, <1>15
<1> HIDE DEF f
<1> QED
  BY <1>2, <1>15, <1>16, <1>17

\* _binaryFind gives the index of a record with the number or nothing, and in an array that
\* rises it gives nothing only if there is none.
LEMMA FindRight ==
    ASSUME NEW arr \in Seq(Recs), NEW n \in Int
    PROVE  /\ \/ BinaryFind(arr, n) = 0
              \/ /\ BinaryFind(arr, n) \in 1..Len(arr)
                 /\ arr[BinaryFind(arr, n)].seq = n
           /\ Rising(arr) /\ BinaryFind(arr, n) = 0 => \A i \in 1..Len(arr) : arr[i].seq # n
<1> DEFINE L == Len(arr)
           D == (1..L + 1) \X (0..L)
           mid(p) == (p[1] + p[2]) \div 2
           done == {p \in D : p[1] > p[2] \/ arr[mid(p)].seq = n}
           val == [p \in D |-> IF p[1] > p[2] THEN 0 ELSE mid(p)]
           next == [p \in D |-> IF arr[mid(p)].seq < n THEN <<mid(p) + 1, p[2]>>
                                ELSE <<p[1], mid(p) - 1>>]
           measure == [p \in D |-> IF p[1] > p[2] THEN 0 ELSE p[2] - p[1] + 1]
           Is(f) == f = [p \in D |-> IF p[1] > p[2] THEN 0
                                     ELSE IF arr[mid(p)].seq = n THEN mid(p)
                                     ELSE IF arr[mid(p)].seq < n THEN f[<<mid(p) + 1, p[2]>>]
                                     ELSE f[<<p[1], mid(p) - 1>>]]
<1>1. BinaryFind(arr, n) = (CHOOSE f : Is(f))[<<1, L>>]
  BY DEF BinaryFind
<1>2. L \in Nat /\ \A i \in 1..L : arr[i].seq \in Int
  BY EntriesTyped
<1>3. \A p \in D : /\ p = <<p[1], p[2]>> /\ p[1] \in 1..L + 1 /\ p[2] \in 0..L
                   /\ p[1] <= p[2] => mid(p) \in p[1]..p[2]
  BY <1>2
<1>4. \A a \in 1..L + 1, b \in 0..L : <<a, b>> \in D
  OBVIOUS
<1>5. \A p \in D : measure[p] \in 0..L
  BY <1>2, <1>3
<1>6. ASSUME NEW p \in D, p \notin done
      PROVE  next[p] \in D /\ measure[next[p]] < measure[p]
  <2>1. p[1] \in 1..L + 1 /\ p[2] \in 0..L /\ p[1] <= p[2] /\ mid(p) \in p[1]..p[2]
    BY <1>3, <1>6
  <2> DEFINE m == mid(p)
  <2> HIDE DEF mid, D
  <2>2. m + 1 \in 1..L + 1 /\ m - 1 \in 0..L
    BY <1>2, <2>1
  <2>3. <<m + 1, p[2]>> \in D /\ <<p[1], m - 1>> \in D
    BY <1>4, <2>1, <2>2
  <2>4. measure[p] = p[2] - p[1] + 1
    BY <2>1
  <2>5. measure[<<m + 1, p[2]>>] < p[2] - p[1] + 1 /\ measure[<<p[1], m - 1>>] < p[2] - p[1] + 1
    BY <2>1, <2>3
  <2>6. next[p] = <<m + 1, p[2]>> \/ next[p] = <<p[1], m - 1>>
    OBVIOUS
  <2> HIDE DEF measure, next, m
  <2> QED
    BY <2>3, <2>4, <2>5, <2>6
<1>7. Loop(D, done, next, measure, L)
  BY <1>5, <1>6 DEF Loop
<1>8. \E f : Runs(f, D, done, val, next)
  <2> HIDE DEF D, done, val, next, measure
  <2> QED
    BY <1>2, <1>7, LoopEnds
<1>9. ASSUME NEW f PROVE Is(f) <=> Runs(f, D, done, val, next)
  <2>1. \A p \in D : /\ p \in done <=> p[1] > p[2] \/ arr[mid(p)].seq = n
                     /\ val[p] = IF p[1] > p[2] THEN 0 ELSE mid(p)
                     /\ f[next[p]] = IF arr[mid(p)].seq < n THEN f[<<mid(p) + 1, p[2]>>]
                                     ELSE f[<<p[1], mid(p) - 1>>]
    OBVIOUS
  <2>2. \A p \in D : (IF p \in done THEN val[p] ELSE f[next[p]])
                     = IF p[1] > p[2] THEN 0
                       ELSE IF arr[mid(p)].seq = n THEN mid(p)
                       ELSE IF arr[mid(p)].seq < n THEN f[<<mid(p) + 1, p[2]>>]
                       ELSE f[<<p[1], mid(p) - 1>>]
    BY <2>1
  <2> HIDE DEF D, done, val, next, mid
  <2> QED
    BY <2>2 DEF Runs
<1> DEFINE f == CHOOSE f : Is(f)
<1>10. Is(f)
  <2>1. \E g : Is(g)
    BY <1>8, <1>9
  <2> HIDE DEF Is
  <2> QED
    BY <2>1
<1>11. Runs(f, D, done, val, next)
  <2> HIDE DEF D, done, val, next, f, Is
  <2> QED
    BY <1>9, <1>10
<1> DEFINE q0 == <<1, L>>
           I == {p \in D : Rising(arr) => \A i \in 1..L : arr[i].seq = n => p[1] <= i /\ i <= p[2]}
<1>12. q0 \in I
  BY <1>2, <1>4
<1>13. ASSUME NEW p \in I, p \notin done PROVE next[p] \in I
  <2>1. p \in D /\ next[p] \in D
    BY <1>6, <1>13
  <2>2. p[1] \in 1..L + 1 /\ p[2] \in 0..L /\ p[1] <= p[2] /\ mid(p) \in p[1]..p[2]
    BY <1>3, <1>13, <2>1
  <2>3. arr[mid(p)].seq # n
    BY <1>13, <2>1
  <2>4. Rising(arr) => \A i \in 1..L : arr[i].seq = n => p[1] <= i /\ i <= p[2]
    BY <1>13
  <2> DEFINE m == mid(p)
  <2> HIDE DEF mid, D
  <2>5. m \in 1..L
    BY <1>2, <2>2
  <2>6. CASE arr[m].seq < n
    <3>1. next[p] = <<m + 1, p[2]>>
      BY <2>1, <2>6
    <3>2. Rising(arr) => \A i \in 1..L : i <= m => arr[i].seq < n
      BY <1>2, <2>5, <2>6 DEF Rising
    <3> HIDE DEF next, m
    <3>3. next[p][1] = m + 1 /\ next[p][2] = p[2]
      BY <2>2, <3>1
    <3>4. Rising(arr) => \A i \in 1..L : arr[i].seq = n => next[p][1] <= i /\ i <= next[p][2]
      BY <1>2, <2>4, <2>5, <3>2, <3>3
    <3> QED
      BY <2>1, <3>4
  <2>7. CASE ~(arr[m].seq < n)
    <3>1. next[p] = <<p[1], m - 1>>
      BY <2>1, <2>7
    <3>2. Rising(arr) => \A i \in 1..L : i >= m => arr[i].seq # n
      BY <1>2, <2>3, <2>5, <2>7 DEF Rising
    <3> HIDE DEF next, m
    <3>3. next[p][1] = p[1] /\ next[p][2] = m - 1
      BY <2>2, <3>1
    <3>4. Rising(arr) => \A i \in 1..L : arr[i].seq = n => next[p][1] <= i /\ i <= next[p][2]
      BY <1>2, <2>4, <2>5, <3>2, <3>3
    <3> QED
      BY <2>1, <3>4
  <2> QED
    BY <2>6, <2>7
<1>14. \E q \in I : q \in done /\ f[q0] = val[q]
  <2>1. I \in SUBSET D
    OBVIOUS
  <2>2. \A p \in I : p \notin done => next[p] \in I
    BY <1>13
  <2> HIDE DEF D, done, val, next, measure, f, I, q0
  <2> QED
    BY <1>2, <1>7, <1>11, <1>12, <2>1, <2>2, LoopKeeps
<1>15. PICK q \in I : q \in done /\ f[q0] = val[q]
  BY <1>14
<1>16. BinaryFind(arr, n) = val[q]
  <2> HIDE DEF Is, val
  <2> QED
    BY <1>1, <1>15
<1> HIDE DEF f
<1>17. q \in D /\ q[1] \in 1..L + 1 /\ q[2] \in 0..L
  BY <1>3, <1>15
<1>18. CASE q[1] > q[2]
  <2>1. BinaryFind(arr, n) = 0
    BY <1>16, <1>17, <1>18
  <2>2. Rising(arr) => \A i \in 1..L : arr[i].seq # n
    BY <1>15, <1>17, <1>18
  <2> QED
    BY <2>1, <2>2
<1>19. CASE ~(q[1] > q[2])
  <2>1. mid(q) \in q[1]..q[2] /\ arr[mid(q)].seq = n
    BY <1>3, <1>15, <1>17, <1>19
  <2>2. BinaryFind(arr, n) = mid(q)
    BY <1>16, <1>17, <1>19
  <2> HIDE DEF mid
  <2> QED
    BY <1>17, <2>1, <2>2
<1> QED
  BY <1>18, <1>19

\* new is arr with m in front of what is at the index.
Widened(new, arr, at, m) ==
    /\ Len(new) = Len(arr) + 1
    /\ \A i \in 1..Len(arr) + 1 :
          new[i] = IF i < at THEN arr[i] ELSE IF i = at THEN m ELSE arr[i - 1]

\* What the operations on sequences do, index by index.
LEMMA Inserting ==
    ASSUME NEW S, NEW arr \in Seq(S), NEW at \in 1..Len(arr) + 1, NEW m \in S
    PROVE  InsertAt(arr, at, m) \in Seq(S) /\ Widened(InsertAt(arr, at, m), arr, at, m)
<1>1. Len(arr) \in Nat
  OBVIOUS
<1> DEFINE front == SubSeq(arr, 1, at - 1)
           back == SubSeq(arr, at, Len(arr))
           all == (front \o <<m>>) \o back
<1>2. front \in Seq(S) /\ Len(front) = at - 1 /\ \A i \in 1..at - 1 : front[i] = arr[i]
  BY <1>1, SubSeqProperties
<1>3. /\ back \in Seq(S) /\ Len(back) = Len(arr) - at + 1
      /\ \A i \in 1..Len(arr) - at + 1 : back[i] = arr[at + i - 1]
  <2>1. CASE at = Len(arr) + 1
    BY <1>1, <2>1, SubSeqProperties
  <2>2. CASE at # Len(arr) + 1
    BY <1>1, <2>2, SubSeqProperties
  <2> QED
    BY <2>1, <2>2
<1>4. <<m>> \in Seq(S) /\ Len(<<m>>) = 1 /\ <<m>>[1] = m
  OBVIOUS
<1> HIDE DEF front, back
<1> DEFINE begin == front \o <<m>>
<1>5. /\ begin \in Seq(S) /\ Len(begin) = at
      /\ \A i \in 1..at : begin[i] = IF i < at THEN arr[i] ELSE m
  BY <1>1, <1>2, <1>4, ConcatProperties
<1> HIDE DEF begin
<1>6. /\ all \in Seq(S) /\ Len(all) = Len(arr) + 1
      /\ \A i \in 1..Len(arr) + 1 : all[i] = IF i <= at THEN begin[i] ELSE back[i - at]
  <2>1. all = begin \o back
    BY DEF begin
  <2> HIDE DEF all
  <2>2. /\ all \in Seq(S) /\ Len(all) = Len(begin) + Len(back)
        /\ \A i \in 1..Len(begin) + Len(back) :
              all[i] = IF i <= Len(begin) THEN begin[i] ELSE back[i - Len(begin)]
    BY <1>3, <1>5, <2>1, ConcatProperties
  <2>3. Len(begin) = at /\ Len(begin) + Len(back) = Len(arr) + 1
    BY <1>1, <1>3, <1>5
  <2> QED
    BY <2>2, <2>3
<1>7. \A i \in 1..Len(arr) + 1 : i > at => i - at \in 1..Len(arr) - at + 1
  BY <1>1
<1>8. InsertAt(arr, at, m) = all
  BY DEF InsertAt, front, back
<1> HIDE DEF all
<1>9. ASSUME NEW i \in 1..Len(arr) + 1
      PROVE  all[i] = IF i < at THEN arr[i] ELSE IF i = at THEN m ELSE arr[i - 1]
  <2>1. CASE i <= at
    BY <1>1, <1>5, <1>6, <2>1
  <2>2. CASE i > at
    <3>1. i - at \in 1..Len(arr) - at + 1 /\ at + (i - at) - 1 = i - 1
      BY <1>1, <1>7, <2>2
    <3>2. all[i] = back[i - at]
      BY <1>1, <1>6, <2>2
    <3> QED
      BY <1>1, <1>3, <2>2, <3>1, <3>2
  <2> QED
    BY <1>1, <2>1, <2>2
<1> QED
  BY <1>6, <1>8, <1>9 DEF Widened

\* What RemoveAt leaves, and where.
LEMMA Removing ==
    ASSUME NEW S, NEW arr \in Seq(S), NEW at \in 1..Len(arr)
    PROVE  /\ RemoveAt(arr, at) \in Seq(S) /\ Len(RemoveAt(arr, at)) = Len(arr) - 1
           /\ \A i \in 1..Len(arr) - 1 :
                 RemoveAt(arr, at)[i] = IF i < at THEN arr[i] ELSE arr[i + 1]
<1>1. Len(arr) \in Nat
  OBVIOUS
<1> DEFINE front == SubSeq(arr, 1, at - 1)
           back == SubSeq(arr, at + 1, Len(arr))
<1>2. front \in Seq(S) /\ Len(front) = at - 1 /\ \A i \in 1..at - 1 : front[i] = arr[i]
  BY <1>1, SubSeqProperties
<1>3. /\ back \in Seq(S) /\ Len(back) = Len(arr) - at
      /\ \A i \in 1..Len(arr) - at : back[i] = arr[at + i]
  <2>1. CASE at = Len(arr)
    BY <1>1, <2>1, SubSeqProperties
  <2>2. CASE at # Len(arr)
    BY <1>1, <2>2, SubSeqProperties
  <2> QED
    BY <2>1, <2>2
<1> HIDE DEF front, back
<1> DEFINE all == front \o back
<1>4. /\ all \in Seq(S) /\ Len(all) = Len(arr) - 1
      /\ \A i \in 1..Len(arr) - 1 : all[i] = IF i <= at - 1 THEN front[i] ELSE back[i - (at - 1)]
  <2>1. /\ all \in Seq(S) /\ Len(all) = Len(front) + Len(back)
        /\ \A i \in 1..Len(front) + Len(back) :
              all[i] = IF i <= Len(front) THEN front[i] ELSE back[i - Len(front)]
    BY <1>2, <1>3, ConcatProperties
  <2>2. Len(front) = at - 1 /\ Len(front) + Len(back) = Len(arr) - 1
    BY <1>1, <1>2, <1>3
  <2> HIDE DEF all
  <2> QED
    BY <2>1, <2>2
<1>5. RemoveAt(arr, at) = all
  BY DEF RemoveAt, front, back
<1> HIDE DEF all
<1>6. ASSUME NEW i \in 1..Len(arr) - 1
      PROVE  all[i] = IF i < at THEN arr[i] ELSE arr[i + 1]
  <2>1. CASE i < at
    BY <1>1, <1>2, <1>4, <2>1
  <2>2. CASE ~(i < at)
    <3>1. i - (at - 1) \in 1..Len(arr) - at /\ at + (i - (at - 1)) = i + 1 /\ ~(i <= at - 1)
      BY <1>1, <2>2
    <3> QED
      BY <1>3, <1>4, <2>2, <3>1
  <2> QED
    BY <2>1, <2>2
<1> QED
  BY <1>4, <1>5, <1>6

\* What ReplaceAt leaves.
LEMMA Replacing ==
    ASSUME NEW S, NEW arr \in Seq(S), NEW at \in 1..Len(arr), NEW m \in S
    PROVE  /\ ReplaceAt(arr, at, m) \in Seq(S) /\ Len(ReplaceAt(arr, at, m)) = Len(arr)
           /\ \A i \in 1..Len(arr) : ReplaceAt(arr, at, m)[i] = IF i = at THEN m ELSE arr[i]
  BY DEF ReplaceAt

-----------------------------------------------------------------------------
(***************************************************************************)
(* The map and the array together                                          *)
(***************************************************************************)

\* The map has every record under its number, and the array has the records of the map.
Listed(map, arr) ==
    /\ DOMAIN map \subseteq Int
    /\ \A n \in DOMAIN map : map[n] \in Recs /\ map[n].seq = n
    /\ arr \in Seq(Recs) /\ Rising(arr)
    /\ \A i \in 1..Len(arr) : arr[i].seq \in DOMAIN map /\ arr[i] = map[arr[i].seq]
    /\ \A n \in DOMAIN map : \E i \in 1..Len(arr) : arr[i].seq = n

\* A record whose number is found is taken out of both.
LEMMA ListedWithout ==
    ASSUME NEW map, NEW arr, Listed(map, arr), NEW old \in DOMAIN map
    PROVE  /\ BinaryFind(arr, old) \in 1..Len(arr)
           /\ Listed(Restrict(map, DOMAIN map \ {old}), RemoveAt(arr, BinaryFind(arr, old)))
<1> DEFINE at == BinaryFind(arr, old)
           rest == Restrict(map, DOMAIN map \ {old})
           others == RemoveAt(arr, at)
           L == Len(arr)
<1>1. /\ old \in Int /\ arr \in Seq(Recs) /\ Rising(arr) /\ L \in Nat
      /\ \A i \in 1..L : /\ arr[i].seq \in Int /\ arr[i] \in Recs
                         /\ arr[i].seq \in DOMAIN map /\ arr[i] = map[arr[i].seq]
  BY EntriesTyped DEF Listed
<1>2. at \in 1..L /\ arr[at].seq = old
  <2>1. PICK i \in 1..L : arr[i].seq = old
    BY DEF Listed
  <2> HIDE DEF at
  <2>2. at = 0 \/ (at \in 1..L /\ arr[at].seq = old)
    BY <1>1, FindRight DEF at
  <2>3. at = 0 => \A j \in 1..L : arr[j].seq # old
    BY <1>1, FindRight DEF at
  <2> QED
    BY <2>1, <2>2, <2>3
<1> HIDE DEF at
<1>3. /\ others \in Seq(Recs) /\ Len(others) = L - 1
      /\ \A i \in 1..L - 1 : others[i] = IF i < at THEN arr[i] ELSE arr[i + 1]
  BY <1>1, <1>2, Removing
<1> HIDE DEF others
<1>4. Rising(others)
  <2> SUFFICES ASSUME NEW i \in 1..L - 1, NEW j \in 1..L - 1, i < j
               PROVE  others[i].seq < others[j].seq
    BY <1>3 DEF Rising
  <2>1. i \in 1..L /\ i + 1 \in 1..L /\ j \in 1..L /\ j + 1 \in 1..L /\ i + 1 < j + 1 /\ i < j + 1
    BY <1>1
  <2>2. arr[i].seq < arr[j].seq /\ arr[i].seq < arr[j + 1].seq /\ arr[i + 1].seq < arr[j + 1].seq
    BY <1>1, <2>1 DEF Rising
  <2>3. j < at => i < at
    BY <1>1, <1>2
  <2> QED
    BY <1>3, <2>2, <2>3
<1>5. \A i \in 1..L : i # at => arr[i].seq # old
  BY <1>1, <1>2 DEF Rising
<1>6. DOMAIN rest = DOMAIN map \ {old} /\ \A n \in DOMAIN map \ {old} : rest[n] = map[n]
  BY DEF Restrict
<1> HIDE DEF rest
<1>7. ASSUME NEW i \in 1..L - 1
      PROVE  others[i].seq \in DOMAIN rest /\ others[i] = rest[others[i].seq]
  <2>1. PICK j \in 1..L : j # at /\ others[i] = arr[j]
    <3>1. CASE i < at
      BY <1>1, <1>3, <3>1
    <3>2. CASE ~(i < at)
      <4>1. i + 1 \in 1..L /\ i + 1 # at
        BY <1>1, <1>2, <3>2
      <4> QED
        BY <1>3, <3>2, <4>1
    <3> QED
      BY <3>1, <3>2
  <2> QED
    BY <1>1, <1>5, <1>6, <2>1
<1>8. ASSUME NEW n \in DOMAIN rest
      PROVE  \E i \in 1..L - 1 : others[i].seq = n
  <2>1. PICK j \in 1..L : arr[j].seq = n
    BY <1>6 DEF Listed
  <2>2. j # at
    BY <1>2, <1>6, <2>1
  <2>3. CASE j < at
    <3>1. j \in 1..L - 1
      BY <1>1, <1>2, <2>3
    <3> QED
      BY <1>3, <2>1, <2>3, <3>1
  <2>4. CASE j > at
    <3>1. j - 1 \in 1..L - 1 /\ ~(j - 1 < at) /\ (j - 1) + 1 = j
      BY <1>1, <1>2, <2>4
    <3> QED
      BY <1>3, <2>1, <3>1
  <2> QED
    BY <1>1, <1>2, <2>2, <2>3, <2>4
<1>9. DOMAIN rest \subseteq Int /\ \A n \in DOMAIN rest : rest[n] \in Recs /\ rest[n].seq = n
  BY <1>6 DEF Listed
<1>10. Listed(rest, others)
  BY <1>3, <1>4, <1>7, <1>8, <1>9 DEF Listed
<1> QED
  BY <1>2, <1>10 DEF rest, others, at

\* Whatever the array, there is one of records afterwards.
LEMMA InsertTyped ==
    ASSUME NEW arr \in Seq(Recs), NEW m \in Recs
    PROVE  BinaryInsert(arr, m) \in Seq(Recs)
<1> DEFINE at == PlaceFor(arr, m.seq)
<1>1. at \in 1..Len(arr) + 1 /\ Len(arr) \in Nat
  BY RecTyped, EntriesTyped, PlaceRight
<1> HIDE DEF at
<1>2. at <= Len(arr) => ReplaceAt(arr, at, m) \in Seq(Recs)
  BY <1>1, Replacing
<1>3. InsertAt(arr, at, m) \in Seq(Recs)
  BY <1>1, Inserting
<1> QED
  BY <1>2, <1>3 DEF BinaryInsert, at

\* A record is put in both.
LEMMA ListedPut ==
    ASSUME NEW map, NEW arr, Listed(map, arr), NEW m \in Recs
    PROVE  Listed(Put(map, m.seq, m), BinaryInsert(arr, m))
<1> DEFINE n == m.seq
           at == PlaceFor(arr, n)
           new == Put(map, n, m)
           more == BinaryInsert(arr, m)
           L == Len(arr)
<1>1. /\ n \in Int /\ arr \in Seq(Recs) /\ Rising(arr) /\ L \in Nat
      /\ \A i \in 1..L : /\ arr[i].seq \in Int /\ arr[i] \in Recs
                         /\ arr[i].seq \in DOMAIN map /\ arr[i] = map[arr[i].seq]
  BY EntriesTyped, RecTyped DEF Listed
<1>2. at \in 1..L + 1 /\ \A i \in 1..L : i < at <=> arr[i].seq < n
  BY <1>1, PlaceRight
<1>3. /\ DOMAIN new = DOMAIN map \cup {n} /\ new[n] = m
      /\ \A k \in DOMAIN map : k # n => new[k] = map[k]
  BY DEF Put
<1>4. DOMAIN new \subseteq Int /\ \A k \in DOMAIN new : new[k] \in Recs /\ new[k].seq = k
  <2> HIDE DEF new
  <2>1. \A k \in DOMAIN new : k = n \/ (k \in DOMAIN map /\ k # n)
    BY <1>3
  <2>2. \A k \in DOMAIN map : map[k] \in Recs /\ map[k].seq = k /\ k \in Int
    BY DEF Listed
  <2> QED
    BY <1>1, <1>3, <2>1, <2>2
<1>5. more \in Seq(Recs)
  BY <1>1, InsertTyped
<1> DEFINE there == at <= L /\ arr[at].seq = n
<1>6. CASE there
  <2>1. /\ at \in 1..L /\ Len(more) = L
        /\ \A i \in 1..L : more[i] = IF i = at THEN m ELSE arr[i]
    <3>1. more = ReplaceAt(arr, at, m)
      BY <1>6 DEF BinaryInsert
    <3>2. at \in 1..L
      BY <1>2, <1>6
    <3> HIDE DEF at, more
    <3>3. /\ Len(ReplaceAt(arr, at, m)) = L
          /\ \A i \in 1..L : ReplaceAt(arr, at, m)[i] = IF i = at THEN m ELSE arr[i]
      BY <1>1, <3>2, Replacing
    <3> QED
      BY <3>1, <3>2, <3>3
  <2> HIDE DEF more, new, at
  <2>2. \A i \in 1..L : more[i].seq = arr[i].seq
    BY <1>6, <2>1
  <2>3. Rising(more)
    BY <1>1, <2>1, <2>2 DEF Rising
  <2>4. \A i \in 1..L : i # at => arr[i].seq # n
    BY <1>1, <1>6, <2>1 DEF Rising
  <2>5. \A i \in 1..L : more[i].seq \in DOMAIN new /\ more[i] = new[more[i].seq]
    BY <1>1, <1>3, <1>6, <2>1, <2>4
  <2>6. \A k \in DOMAIN new : \E i \in 1..L : more[i].seq = k
    <3>1. more[at].seq = n
      BY <2>1
    <3>2. \A k \in DOMAIN map : \E i \in 1..L : arr[i].seq = k
      BY DEF Listed
    <3> QED
      BY <1>3, <2>1, <2>2, <3>1, <3>2
  <2> QED
    BY <1>4, <1>5, <2>1, <2>3, <2>5, <2>6 DEF Listed, more, new
<1>7. CASE ~there
  <2>1. /\ Len(more) = L + 1
        /\ \A i \in 1..L + 1 : more[i] = IF i < at THEN arr[i] ELSE IF i = at THEN m ELSE arr[i - 1]
    <3>1. more = InsertAt(arr, at, m)
      BY <1>7 DEF BinaryInsert
    <3> HIDE DEF at, more
    <3>2. arr \in Seq(Recs) /\ at \in 1..Len(arr) + 1
      BY <1>1, <1>2
    <3>3. Widened(InsertAt(arr, at, m), arr, at, m)
      BY <3>2, Inserting
    <3> QED
      BY <3>1, <3>3 DEF Widened
  <2>2. \A i \in 1..L : arr[i].seq # n
    BY <1>1, <1>2, <1>7 DEF Rising
  <2> HIDE DEF more, new, at
  <2>3. \A i \in 1..L : (i < at => arr[i].seq < n) /\ (i >= at => arr[i].seq > n)
    BY <1>1, <1>2, <2>2
  <2>4. Rising(more)
    <3> SUFFICES ASSUME NEW i \in 1..L + 1, NEW j \in 1..L + 1, i < j
                 PROVE  more[i].seq < more[j].seq
      BY <2>1 DEF Rising
    <3>1. CASE j < at
      <4>1. i \in 1..L /\ j \in 1..L /\ i < at
        BY <1>1, <1>2, <3>1
      <4> QED
        BY <1>1, <2>1, <3>1, <4>1 DEF Rising
    <3>2. CASE j = at
      <4>1. i \in 1..L /\ i < at
        BY <1>1, <1>2, <3>2
      <4> QED
        BY <2>1, <2>3, <3>2, <4>1
    <3>3. CASE j > at /\ i < at
      <4>1. i \in 1..L /\ j - 1 \in 1..L /\ j - 1 >= at
        BY <1>1, <1>2, <3>3
      <4>2. arr[i].seq < n /\ n < arr[j - 1].seq /\ arr[i].seq \in Int /\ arr[j - 1].seq \in Int
        BY <1>1, <2>3, <3>3, <4>1
      <4> QED
        BY <1>1, <1>2, <2>1, <3>3, <4>1, <4>2
    <3>4. CASE j > at /\ i = at
      <4>1. j - 1 \in 1..L /\ j - 1 >= at
        BY <1>1, <1>2, <3>4
      <4> QED
        BY <1>1, <2>1, <2>3, <3>4, <4>1
    <3>5. CASE j > at /\ i > at
      <4>1. i - 1 \in 1..L /\ j - 1 \in 1..L /\ i - 1 < j - 1
        BY <1>1, <1>2, <3>5
      <4>2. more[i] = arr[i - 1] /\ more[j] = arr[j - 1]
        BY <1>2, <2>1, <3>5
      <4> QED
        BY <1>1, <4>1, <4>2 DEF Rising
    <3> QED
      BY <1>2, <3>1, <3>2, <3>3, <3>4, <3>5
  <2>5. ASSUME NEW i \in 1..L + 1
        PROVE  more[i].seq \in DOMAIN new /\ more[i] = new[more[i].seq]
    <3>1. CASE i = at
      BY <1>3, <2>1, <3>1
    <3>2. CASE i < at
      <4>1. i \in 1..L
        BY <1>1, <1>2, <3>2
      <4> QED
        BY <1>1, <1>3, <2>1, <2>2, <3>2, <4>1
    <3>3. CASE i > at
      <4>1. i - 1 \in 1..L
        BY <1>1, <1>2, <3>3
      <4>2. more[i] = arr[i - 1]
        BY <1>2, <2>1, <3>3
      <4> QED
        BY <1>1, <1>3, <2>2, <4>1, <4>2
    <3> QED
      BY <1>2, <3>1, <3>2, <3>3
  <2>6. ASSUME NEW k \in DOMAIN new PROVE \E i \in 1..L + 1 : more[i].seq = k
    <3>1. CASE k = n
      BY <1>2, <2>1, <3>1
    <3>2. CASE k # n
      <4>1. k \in DOMAIN map
        BY <1>3, <3>2
      <4>2. PICK j \in 1..L : arr[j].seq = k
        BY <4>1 DEF Listed
      <4>3. CASE j < at
        <5>1. j \in 1..L + 1
          BY <1>1
        <5> QED
          BY <2>1, <4>2, <4>3, <5>1
      <4>4. CASE j >= at
        <5>1. j + 1 \in 1..L + 1 /\ j + 1 > at /\ (j + 1) - 1 = j
          BY <1>1, <1>2, <4>4
        <5>2. more[j + 1] = arr[j]
          BY <1>2, <2>1, <5>1
        <5> QED
          BY <4>2, <5>1, <5>2
      <4> QED
        BY <1>2, <4>3, <4>4
    <3> QED
      BY <3>1, <3>2
  <2> QED
    BY <1>4, <1>5, <2>1, <2>4, <2>5, <2>6 DEF Listed, more, new
<1> QED
  BY <1>6, <1>7

\* Records are replaced in both, each by one with the same number.
LEMMA ListedPatch ==
    ASSUME NEW st, st = [map |-> st.map, idx |-> st.idx, arr |-> st.arr],
           Listed(st.map, st.arr), NEW ms, DOMAIN ms \subseteq DOMAIN st.map,
           \A n \in DOMAIN ms : ms[n] \in Recs /\ ms[n].seq = n
    PROVE  Listed(PatchAll(st, ms).map, PatchAll(st, ms).arr)
<1> DEFINE map == st.map
           arr == st.arr
           L == Len(arr)
           new == PatchAll(st, ms).map
           other == PatchAll(st, ms).arr
<1>1. /\ arr \in Seq(Recs) /\ Rising(arr) /\ L \in Nat
      /\ \A i \in 1..L : /\ arr[i].seq \in Int /\ arr[i] \in Recs
                         /\ arr[i].seq \in DOMAIN map /\ arr[i] = map[arr[i].seq]
  BY EntriesTyped DEF Listed
<1>2. /\ new = [n \in DOMAIN map |-> IF n \in DOMAIN ms THEN ms[n] ELSE map[n]]
      /\ other = [i \in 1..L |-> IF arr[i].seq \in DOMAIN ms /\ BinaryFind(arr, arr[i].seq) = i
                                 THEN ms[arr[i].seq] ELSE arr[i]]
  BY DEF PatchAll
<1>3. ASSUME NEW i \in 1..L PROVE BinaryFind(arr, arr[i].seq) = i
  <2> DEFINE at == BinaryFind(arr, arr[i].seq)
  <2>1. at = 0 \/ (at \in 1..L /\ arr[at].seq = arr[i].seq)
    BY <1>1, FindRight
  <2>2. at = 0 => \A j \in 1..L : arr[j].seq # arr[i].seq
    BY <1>1, FindRight
  <2> HIDE DEF at
  <2>3. at \in 1..L /\ arr[at].seq = arr[i].seq
    BY <2>1, <2>2
  <2>4. ~(at < i) /\ ~(i < at)
    BY <1>1, <2>3 DEF Rising
  <2>5. at = i
    BY <1>1, <2>3, <2>4
  <2> QED
    BY <2>5 DEF at
<1>4. \A i \in 1..L : other[i] = IF arr[i].seq \in DOMAIN ms THEN ms[arr[i].seq] ELSE arr[i]
  BY <1>2, <1>3
<1>5. /\ DOMAIN new = DOMAIN map
      /\ \A n \in DOMAIN map : new[n] = IF n \in DOMAIN ms THEN ms[n] ELSE map[n]
  BY <1>2
<1>6. DOMAIN other = 1..L
  BY <1>2
<1> HIDE DEF new, other
<1>7. \A i \in 1..L : other[i] \in Recs /\ other[i].seq = arr[i].seq
  BY <1>1, <1>4
<1>8. other \in Seq(Recs) /\ Len(other) = L
  <2>1. other = [i \in 1..L |-> other[i]]
    BY <1>2
  <2> QED
    BY <1>1, <1>6, <1>7, <2>1
<1>9. Rising(other)
  BY <1>1, <1>7, <1>8 DEF Rising
<1>10. \A i \in 1..L : other[i].seq \in DOMAIN new /\ other[i] = new[other[i].seq]
  BY <1>1, <1>4, <1>5, <1>7
<1>11. \A n \in DOMAIN new : \E i \in 1..L : other[i].seq = n
  BY <1>5, <1>7 DEF Listed
<1>12. DOMAIN new \subseteq Int /\ \A n \in DOMAIN new : new[n] \in Recs /\ new[n].seq = n
  BY <1>5 DEF Listed
<1> QED
  BY <1>8, <1>9, <1>10, <1>11, <1>12 DEF Listed, new, other

-----------------------------------------------------------------------------
(***************************************************************************)
(* The store                                                               *)
(***************************************************************************)

StoreTyped(st) ==
    /\ st = [map |-> st.map, idx |-> st.idx, arr |-> st.arr]
    /\ DOMAIN st.map \subseteq Int /\ \A n \in DOMAIN st.map : st.map[n] \in Recs
    /\ DOMAIN st.idx \subseteq Ulids /\ \A u \in DOMAIN st.idx : st.idx[u] \in Int
    /\ st.arr \in Seq(Recs)

\* What memory and index have under a number the disk has there too; the number in a record is
\* this or the server's.
Agrees(st, disk, seqs) ==
    /\ \A n \in DOMAIN st.map :
           /\ n \in DOMAIN disk /\ disk[n].ulid = st.map[n].ulid
           /\ st.map[n].seq # n => st.map[n].seq = seqs[st.map[n].ulid] /\ seqs[st.map[n].ulid] > 0
    /\ \A u \in DOMAIN st.idx : st.idx[u] \in DOMAIN disk /\ disk[st.idx[u]].ulid = u

Sound(st, disk, seqs) == StoreTyped(st) /\ Agrees(st, disk, seqs)

\* Map, index and array are one.
Filed(st) ==
    /\ Listed(st.map, st.arr)
    /\ \A n \in DOMAIN st.map : st.map[n].ulid \in DOMAIN st.idx /\ st.idx[st.map[n].ulid] = n
    /\ \A u \in DOMAIN st.idx : st.idx[u] \in DOMAIN st.map

\* _insertMsg of a record whose number on disk is its ulid's.
LEMMA InsertKeeps ==
    ASSUME NEW st, NEW disk, NEW seqs, Sound(st, disk, seqs),
           NEW m \in Recs, m.seq \in DOMAIN disk, disk[m.seq].ulid = m.ulid
    PROVE  /\ Sound(InsertInto(st, m), disk, seqs)
           /\ InsertInto(st, m).map[m.seq] = m
           /\ Filed(st) => Filed(InsertInto(st, m))
<1> DEFINE n == m.seq
           u == m.ulid
           old == IF u \in DOMAIN st.idx THEN st.idx[u] ELSE n
           moved == old # n
           at == IF moved THEN BinaryFind(st.arr, old) ELSE 0
           others == IF moved THEN Restrict(st.map, DOMAIN st.map \ {old}) ELSE st.map
           rest == IF at # 0 THEN RemoveAt(st.arr, at) ELSE st.arr
           new == InsertInto(st, m)
<1>1. new = [map |-> Put(others, n, m), idx |-> Put(st.idx, u, n), arr |-> BinaryInsert(rest, m)]
  BY DEF InsertInto
<1>2. /\ new = [map |-> new.map, idx |-> new.idx, arr |-> new.arr]
      /\ new.map = Put(others, n, m) /\ new.idx = Put(st.idx, u, n)
      /\ new.arr = BinaryInsert(rest, m)
  BY <1>1
<1>3. n \in Int /\ u \in Ulids
  BY RecTyped
<1>4. old \in Int
  BY <1>3 DEF Sound, StoreTyped
<1>5. /\ DOMAIN others = IF moved THEN DOMAIN st.map \ {old} ELSE DOMAIN st.map
      /\ \A k \in DOMAIN others : others[k] = st.map[k] /\ k \in DOMAIN st.map
  BY DEF Restrict
<1>6. /\ DOMAIN new.map = DOMAIN others \cup {n} /\ new.map[n] = m
      /\ \A k \in DOMAIN others : k # n => new.map[k] = st.map[k]
  BY <1>2, <1>5 DEF Put
<1>7. /\ DOMAIN new.idx = DOMAIN st.idx \cup {u} /\ new.idx[u] = n
      /\ \A v \in DOMAIN st.idx : v # u => new.idx[v] = st.idx[v]
  BY <1>2 DEF Put
<1>8. rest \in Seq(Recs)
  <2>1. st.arr \in Seq(Recs)
    BY DEF Sound, StoreTyped
  <2>2. moved => \/ BinaryFind(st.arr, old) = 0
                 \/ BinaryFind(st.arr, old) \in 1..Len(st.arr)
    BY <1>4, <2>1, FindRight
  <2>3. at = 0 \/ at \in 1..Len(st.arr)
    BY <2>2
  <2> HIDE DEF at
  <2>4. at \in 1..Len(st.arr) => RemoveAt(st.arr, at) \in Seq(Recs)
    BY <2>1, Removing
  <2> QED
    BY <2>1, <2>3, <2>4
<1>9. \A k \in DOMAIN st.map : /\ k \in Int /\ st.map[k] \in Recs
                               /\ k \in DOMAIN disk /\ disk[k].ulid = st.map[k].ulid
                               /\ \/ st.map[k].seq = k
                                  \/ /\ st.map[k].seq = seqs[st.map[k].ulid]
                                     /\ seqs[st.map[k].ulid] > 0
  BY DEF Sound, StoreTyped, Agrees
<1>10. \A v \in DOMAIN st.idx : /\ v \in Ulids /\ st.idx[v] \in Int
                                /\ st.idx[v] \in DOMAIN disk /\ disk[st.idx[v]].ulid = v
  BY DEF Sound, StoreTyped, Agrees
<1> HIDE DEF new
<1>11. StoreTyped(new)
  <2>1. \A k \in DOMAIN new.map : k \in Int /\ new.map[k] \in Recs
    <3> HIDE DEF others
    <3>1. \A k \in DOMAIN new.map : k = n \/ (k # n /\ k \in DOMAIN others)
      BY <1>6
    <3> QED
      BY <1>3, <1>5, <1>6, <1>9, <3>1
  <2>2. \A v \in DOMAIN new.idx : v \in Ulids /\ new.idx[v] \in Int
    BY <1>3, <1>7, <1>10
  <2>3. new.arr \in Seq(Recs)
    <3> HIDE DEF rest
    <3> QED
      BY <1>2, <1>8, InsertTyped
  <2> QED
    BY <1>2, <2>1, <2>2, <2>3 DEF StoreTyped
<1>12. Agrees(new, disk, seqs)
  <2>1. ASSUME NEW k \in DOMAIN new.map
        PROVE  /\ k \in DOMAIN disk /\ disk[k].ulid = new.map[k].ulid
               /\ new.map[k].seq # k => /\ new.map[k].seq = seqs[new.map[k].ulid]
                                        /\ seqs[new.map[k].ulid] > 0
    <3> HIDE DEF others
    <3>1. CASE k = n
      BY <1>6, <3>1
    <3>2. CASE k # n
      <4>1. k \in DOMAIN st.map /\ new.map[k] = st.map[k]
        BY <1>5, <1>6, <3>2
      <4> QED
        BY <1>9, <4>1
    <3> QED
      BY <3>1, <3>2
  <2>2. \A v \in DOMAIN new.idx : new.idx[v] \in DOMAIN disk /\ disk[new.idx[v]].ulid = v
    BY <1>7, <1>10
  <2> QED
    BY <2>1, <2>2 DEF Agrees
<1>13. ASSUME Filed(st) PROVE Filed(new)
  <2>1. /\ Listed(st.map, st.arr)
        /\ \A k \in DOMAIN st.map : st.map[k].ulid \in DOMAIN st.idx /\ st.idx[st.map[k].ulid] = k
        /\ \A v \in DOMAIN st.idx : st.idx[v] \in DOMAIN st.map
    BY <1>13 DEF Filed
  <2>2. Listed(others, rest)
    <3>1. CASE moved
      <4>1. old \in DOMAIN st.map
        BY <2>1, <3>1
      <4>2. /\ BinaryFind(st.arr, old) \in 1..Len(st.arr)
            /\ Listed(Restrict(st.map, DOMAIN st.map \ {old}),
                      RemoveAt(st.arr, BinaryFind(st.arr, old)))
        <5> HIDE DEF old
        <5> QED
          BY <2>1, <4>1, ListedWithout
      <4>3. at = BinaryFind(st.arr, old) /\ at # 0
        <5> HIDE DEF old
        <5> QED
          BY <3>1, <4>2
      <4> QED
        BY <3>1, <4>2, <4>3
    <3>2. CASE ~moved
      BY <2>1, <3>2
    <3> QED
      BY <3>1, <3>2
  <2>3. Listed(new.map, new.arr)
    <3> HIDE DEF others, rest
    <3> QED
      BY <1>2, <2>2, ListedPut
  <2>4. ASSUME NEW k \in DOMAIN new.map
        PROVE  new.map[k].ulid \in DOMAIN new.idx /\ new.idx[new.map[k].ulid] = k
    <3>1. CASE k = n
      BY <1>6, <1>7, <3>1
    <3>2. CASE k # n
      <4>1. k \in DOMAIN st.map /\ new.map[k] = st.map[k] /\ k \in DOMAIN others
        BY <1>5, <1>6, <3>2
      <4>2. st.map[k].ulid # u
        <5> SUFFICES ASSUME st.map[k].ulid = u PROVE FALSE
          OBVIOUS
        <5>1. u \in DOMAIN st.idx /\ st.idx[u] = k
          BY <2>1, <4>1
        <5>2. old = k /\ moved
          BY <3>2, <5>1
        <5> QED
          BY <1>5, <4>1, <5>2
      <4> QED
        BY <1>7, <2>1, <4>1, <4>2
    <3> QED
      BY <3>1, <3>2
  <2>5. ASSUME NEW v \in DOMAIN new.idx PROVE new.idx[v] \in DOMAIN new.map
    <3>1. CASE v = u
      BY <1>6, <1>7, <3>1
    <3>2. CASE v # u
      <4>1. v \in DOMAIN st.idx /\ new.idx[v] = st.idx[v]
        BY <1>7, <3>2
      <4>2. moved => st.idx[v] # old
        BY <1>10, <3>2, <4>1
      <4> QED
        BY <1>5, <1>6, <2>1, <4>1, <4>2
    <3> QED
      BY <3>1, <3>2
  <2> QED
    BY <2>3, <2>4, <2>5 DEF Filed
<1> QED
  BY <1>6, <1>11, <1>12, <1>13 DEF Sound, new

\* _patchMsg with records of the same ulids, each with the number it has or the server's.
LEMMA PatchKeeps ==
    ASSUME NEW st, NEW disk, NEW seqs, Sound(st, disk, seqs),
           NEW ms, DOMAIN ms \subseteq DOMAIN st.map,
           \A n \in DOMAIN ms :
               /\ ms[n] \in Recs /\ ms[n].ulid = st.map[n].ulid
               /\ ms[n].seq # n => ms[n].seq = seqs[ms[n].ulid] /\ seqs[ms[n].ulid] > 0
    PROVE  /\ Sound(PatchAll(st, ms), disk, seqs)
           /\ Filed(st) /\ (\A n \in DOMAIN ms : ms[n].seq = n) => Filed(PatchAll(st, ms))
<1> DEFINE new == PatchAll(st, ms)
           L == Len(st.arr)
<1>1. /\ st = [map |-> st.map, idx |-> st.idx, arr |-> st.arr]
      /\ st.arr \in Seq(Recs)
  BY DEF Sound, StoreTyped
<1>2. /\ new = [map |-> new.map, idx |-> new.idx, arr |-> new.arr]
      /\ new.idx = st.idx /\ DOMAIN new.map = DOMAIN st.map
      /\ \A n \in DOMAIN st.map : new.map[n] = IF n \in DOMAIN ms THEN ms[n] ELSE st.map[n]
      /\ new.arr = [i \in 1..L |-> IF st.arr[i].seq \in DOMAIN ms
                                      /\ BinaryFind(st.arr, st.arr[i].seq) = i
                                   THEN ms[st.arr[i].seq] ELSE st.arr[i]]
  <2> DEFINE map == [n \in DOMAIN st.map |-> IF n \in DOMAIN ms THEN ms[n] ELSE st.map[n]]
             arr == [i \in 1..L |-> IF st.arr[i].seq \in DOMAIN ms
                                       /\ BinaryFind(st.arr, st.arr[i].seq) = i
                                    THEN ms[st.arr[i].seq] ELSE st.arr[i]]
  <2>1. new = [st EXCEPT !.map = map, !.arr = arr]
    BY DEF PatchAll
  <2> HIDE DEF new, map, arr
  <2>2. new = [map |-> map, idx |-> st.idx, arr |-> arr]
    BY <1>1, <2>1
  <2>3. new.map = map /\ new.idx = st.idx /\ new.arr = arr
    BY <2>2
  <2>4. /\ DOMAIN map = DOMAIN st.map
        /\ \A n \in DOMAIN st.map : map[n] = IF n \in DOMAIN ms THEN ms[n] ELSE st.map[n]
    BY DEF map
  <2> QED
    BY <2>2, <2>3, <2>4 DEF arr
<1> HIDE DEF new
<1>3. \A n \in DOMAIN st.map : /\ n \in Int /\ st.map[n] \in Recs
                               /\ n \in DOMAIN disk /\ disk[n].ulid = st.map[n].ulid
                               /\ st.map[n].seq # n => /\ st.map[n].seq = seqs[st.map[n].ulid]
                                                       /\ seqs[st.map[n].ulid] > 0
  BY DEF Sound, StoreTyped, Agrees
<1>4. new.arr \in Seq(Recs)
  <2>1. L \in Nat /\ \A i \in 1..L : st.arr[i] \in Recs
    BY <1>1, EntriesTyped
  <2>2. new.arr = [i \in 1..L |-> new.arr[i]] /\ \A i \in 1..L : new.arr[i] \in Recs
    BY <1>2, <2>1
  <2> HIDE DEF L
  <2> QED
    BY <2>1, <2>2
<1>5. StoreTyped(new)
  BY <1>2, <1>3, <1>4 DEF StoreTyped, Sound
<1>6. Agrees(new, disk, seqs)
  <2>1. \A n \in DOMAIN new.map :
            /\ n \in DOMAIN disk /\ disk[n].ulid = new.map[n].ulid
            /\ new.map[n].seq # n => /\ new.map[n].seq = seqs[new.map[n].ulid]
                                     /\ seqs[new.map[n].ulid] > 0
    BY <1>2, <1>3
  <2>2. \A u \in DOMAIN new.idx : new.idx[u] \in DOMAIN disk /\ disk[new.idx[u]].ulid = u
    BY <1>2 DEF Sound, Agrees
  <2> QED
    BY <2>1, <2>2 DEF Agrees
<1>7. ASSUME Filed(st), \A n \in DOMAIN ms : ms[n].seq = n PROVE Filed(new)
  <2>1. /\ Listed(st.map, st.arr)
        /\ \A n \in DOMAIN st.map : st.map[n].ulid \in DOMAIN st.idx /\ st.idx[st.map[n].ulid] = n
        /\ \A v \in DOMAIN st.idx : st.idx[v] \in DOMAIN st.map
    BY <1>7 DEF Filed
  <2>2. Listed(new.map, new.arr)
    BY <1>1, <1>7, <2>1, ListedPatch DEF new
  <2>3. \A n \in DOMAIN st.map : new.map[n].ulid = st.map[n].ulid
    BY <1>2
  <2> QED
    BY <1>2, <2>1, <2>2, <2>3 DEF Filed
<1> QED
  BY <1>5, <1>6, <1>7 DEF Sound, new

\* The records are inserted one after another.
LEMMA InsertAllKeeps ==
    ASSUME NEW st, NEW disk, NEW seqs, Sound(st, disk, seqs), NEW ms, NEW last \in Nat,
           \A n \in DOMAIN ms \cap 1..last :
               ms[n] \in Recs /\ ms[n].seq \in DOMAIN disk /\ disk[ms[n].seq].ulid = ms[n].ulid
    PROVE  /\ Sound(InsertAll(st, ms, last), disk, seqs)
           /\ Filed(st) => Filed(InsertAll(st, ms, last))
<1> DEFINE Next1(f, n) == IF n = 0 THEN st
                          ELSE IF n \in DOMAIN ms THEN InsertInto(f[n - 1], ms[n]) ELSE f[n - 1]
           Is(f) == f = [n \in 0..last |-> Next1(f, n)]
           UpTo(d) == d <= last => \E f : \A n \in 0..d : f[n] = Next1(f, n)
<1>1. InsertAll(st, ms, last) = (CHOOSE f : Is(f))[last]
  BY DEF InsertAll
<1>2. \A d \in Nat : UpTo(d)
  <2> DEFINE S == {d \in Nat : ~UpTo(d)}
  <2> SUFFICES ASSUME S # {} PROVE FALSE
    OBVIOUS
  <2>1. PICK d \in S : \A k \in S : d <= k
    <3> HIDE DEF UpTo
    <3> QED
      BY LeastExists
  <2>2. d \in Nat /\ d <= last
    OBVIOUS
  <2>3. UpTo(d)
    <3>1. CASE d = 0
      <4>1. \A n \in 0..d : [k \in {0} |-> st][n] = Next1([k \in {0} |-> st], n)
        BY <3>1
      <4> QED
        BY <4>1
    <3>2. CASE d # 0
      <4>1. d - 1 \in Nat /\ d - 1 < d /\ d - 1 <= last
        BY <2>2, <3>2
      <4>2. UpTo(d - 1)
        <5> HIDE DEF UpTo
        <5> QED
          BY <2>1, <2>2, <4>1
      <4>3. PICK f : \A n \in 0..d - 1 : f[n] = Next1(f, n)
        BY <4>1, <4>2
      <4> DEFINE g == [n \in 0..d |-> IF n < d THEN f[n] ELSE Next1(f, n)]
      <4>4. \A n \in 0..d : n # 0 => n - 1 \in 0..d - 1 /\ g[n - 1] = f[n - 1]
        BY <4>1
      <4>5. \A n \in 0..d : Next1(g, n) = Next1(f, n)
        <5> HIDE DEF g
        <5> QED
          BY <4>4
      <4>6. \A n \in 0..d : g[n] = Next1(f, n)
        <5> HIDE DEF Next1
        <5> QED
          BY <4>1, <4>3
      <4> HIDE DEF g, Next1
      <4>7. \A n \in 0..d : g[n] = Next1(g, n)
        BY <4>5, <4>6
      <4> QED
        BY <4>7
    <3> QED
      BY <3>1, <3>2
  <2> HIDE DEF UpTo
  <2> QED
    BY <2>3
<1>3. PICK h : \A n \in 0..last : h[n] = Next1(h, n)
  <2>1. UpTo(last)
    <3> HIDE DEF UpTo
    <3> QED
      BY <1>2
  <2> HIDE DEF Next1
  <2> QED
    BY <2>1
<1> DEFINE g == [n \in 0..last |-> h[n]]
<1>4. Is(g)
  <2>1. \A n \in 0..last : n # 0 => n - 1 \in 0..last /\ g[n - 1] = h[n - 1]
    OBVIOUS
  <2>2. \A n \in 0..last : Next1(g, n) = Next1(h, n)
    <3> HIDE DEF g
    <3> QED
      BY <2>1
  <2> HIDE DEF Next1
  <2> QED
    BY <1>3, <2>2
<1> DEFINE f == CHOOSE f : Is(f)
<1>5. Is(f)
  <2> HIDE DEF Is, g
  <2> QED
    BY <1>4
<1>6. \A n \in 0..last : f[n] = Next1(f, n)
  <2> HIDE DEF f, Next1
  <2> QED
    BY <1>5
<1> HIDE DEF f, Is
<1> DEFINE Good(s) == Sound(s, disk, seqs) /\ (Filed(st) => Filed(s))
           B == {n \in Nat : n <= last /\ ~Good(f[n])}
<1>7. B = {}
  <2> SUFFICES ASSUME B # {} PROVE FALSE
    OBVIOUS
  <2>1. PICK n \in B : \A k \in B : n <= k
    <3> HIDE DEF Good
    <3> QED
      BY LeastExists
  <2>2. n \in 0..last /\ ~Good(f[n])
    <3> HIDE DEF Good
    <3> QED
      OBVIOUS
  <2>3. CASE n = 0
    BY <1>6, <2>2, <2>3
  <2>4. CASE n # 0
    <3>1. n - 1 \in 0..last /\ n \in 1..last /\ n - 1 \notin B
      <4> HIDE DEF Good
      <4> QED
        BY <2>1, <2>2, <2>4
    <3>2. Good(f[n - 1])
      BY <3>1
    <3>3. CASE n \in DOMAIN ms
      <4>1. f[n] = InsertInto(f[n - 1], ms[n])
        BY <1>6, <2>2, <2>4, <3>3
      <4>2. Good(InsertInto(f[n - 1], ms[n]))
        BY <3>1, <3>2, <3>3, InsertKeeps
      <4> QED
        BY <2>2, <4>1, <4>2
    <3>4. CASE n \notin DOMAIN ms
      BY <1>6, <2>2, <2>4, <3>2, <3>4
    <3> QED
      BY <3>3, <3>4
  <2> QED
    BY <2>3, <2>4
<1>8. Good(f[last])
  <2> HIDE DEF Good
  <2> QED
    BY <1>7
<1>9. InsertAll(st, ms, last) = f[last]
  BY <1>1 DEF f
<1> QED
  BY <1>8, <1>9

-----------------------------------------------------------------------------
(***************************************************************************)
(* The disk                                                                *)
(***************************************************************************)

\* No two messages have the same number, and all are below Date.now().
Numbered(seqs) ==
    /\ seqs \in [Ulids -> 0..Cardinality(Ulids)]
    /\ \A u, v \in Ulids : seqs[u] > 0 /\ seqs[u] = seqs[v] => u = v

\* Who has a number on disk: below Date.now() the message the server gave it to, above it a text
\* that was sent, below zero an attachment, made when fewer messages were.
Known(disk, seqs, next, made) ==
    /\ DOMAIN disk \subseteq Int
    /\ \A n \in DOMAIN disk : disk[n] \in Recs /\ disk[n].seq = n
    /\ \A n \in DOMAIN disk : n > 0 /\ n < Now => seqs[disk[n].ulid] = n
    /\ \A n \in DOMAIN disk : n >= Now => n < next /\ disk[n].ulid \in Texts
    /\ \A n \in DOMAIN disk : n <= 0 => -n < Now + made

\* A record may be written where its ulid is or under the server's number.
MayWrite(m, disk, seqs) ==
    /\ m \in Recs
    /\ \/ m.seq = seqs[m.ulid] /\ m.seq > 0
       \/ m.seq \in DOMAIN disk /\ disk[m.seq].ulid = m.ulid

MayWriteAll(ms, disk, seqs) == \A k \in DOMAIN ms : MayWrite(ms[k], disk, seqs)

Writes(disk, new, seqs) ==
    /\ DOMAIN disk \subseteq DOMAIN new
    /\ \A n \in DOMAIN new : \/ n \in DOMAIN disk /\ new[n] = disk[n]
                             \/ new[n].seq = n /\ MayWrite(new[n], disk, seqs)

\* Numbers stay with their ulids.
Extends(new, disk) ==
    \A n \in DOMAIN disk : n \in DOMAIN new /\ new[n].ulid = disk[n].ulid

\* The clock is above every number the server can have given.
LEMMA NowAbove == Now \in Nat /\ Cardinality(Ulids) \in Nat /\ Now > Cardinality(Ulids)
                  /\ IsFiniteSet(Ulids) /\ IsFiniteSet(Own)
<1>1. IsFiniteSet(Ulids)
  BY StoreAssumption DEF StoreParametersOK, Ulids, Own
<1>2. IsFiniteSet(Own)
  BY <1>1, FS_Subset DEF Ulids
<1>3. Cardinality(Ulids) \in Nat
  BY <1>1, FS_CardinalityType
<1> QED
  BY <1>1, <1>2, <1>3 DEF Now

\* putMessage
LEMMA PutWrites ==
    ASSUME NEW disk, NEW seqs, NEW m, MayWrite(m, disk, seqs)
    PROVE  Writes(disk, Put(disk, m.seq, m), seqs) /\ m.seq \in DOMAIN Put(disk, m.seq, m)
           /\ Put(disk, m.seq, m)[m.seq] = m
<1> DEFINE new == Put(disk, m.seq, m)
<1>1. /\ DOMAIN new = DOMAIN disk \cup {m.seq}
      /\ \A n \in DOMAIN new : new[n] = IF n = m.seq THEN m ELSE disk[n]
  BY DEF Put
<1> HIDE DEF new
<1>2. new[m.seq] = m /\ m.seq \in DOMAIN new
  BY <1>1
<1>3. \A n \in DOMAIN new : n # m.seq => n \in DOMAIN disk /\ new[n] = disk[n]
  BY <1>1
<1>4. Writes(disk, new, seqs)
  BY <1>1, <1>2, <1>3 DEF Writes
<1> QED
  BY <1>2, <1>4 DEF new

\* putMessage of many.
LEMMA PutAllWrites ==
    ASSUME NEW disk, NEW seqs, NEW ms, MayWriteAll(ms, disk, seqs)
    PROVE  /\ Writes(disk, PutAll(disk, ms), seqs)
           /\ \A k \in DOMAIN ms : ms[k].seq \in DOMAIN PutAll(disk, ms)
           /\ \A n \in DOMAIN PutAll(disk, ms) :
                 \/ n \in DOMAIN disk /\ PutAll(disk, ms)[n] = disk[n]
                 \/ \E k \in DOMAIN ms : PutAll(disk, ms)[n] = ms[k] /\ ms[k].seq = n
<1> DEFINE by == [n \in {ms[k].seq : k \in DOMAIN ms} |-> CHOOSE m \in Range(ms) : m.seq = n]
           new == PutAll(disk, ms)
<1>1. /\ DOMAIN by = {ms[k].seq : k \in DOMAIN ms}
      /\ \A n \in DOMAIN by : by[n] = CHOOSE m \in Range(ms) : m.seq = n
  OBVIOUS
<1>2. new = [n \in DOMAIN disk \cup DOMAIN by |-> IF n \in DOMAIN by THEN by[n] ELSE disk[n]]
  BY DEF PutAll
<1> HIDE DEF by, new
<1>3. ASSUME NEW n \in DOMAIN by PROVE \E k \in DOMAIN ms : by[n] = ms[k] /\ ms[k].seq = n
  <2>1. \E m \in Range(ms) : m.seq = n
    BY <1>1 DEF Range
  <2>2. by[n] \in Range(ms) /\ by[n].seq = n
    BY <1>1, <2>1
  <2> QED
    BY <2>2 DEF Range
<1>4. \A n \in DOMAIN new : \/ n \in DOMAIN disk /\ new[n] = disk[n]
                            \/ \E k \in DOMAIN ms : new[n] = ms[k] /\ ms[k].seq = n
  BY <1>2, <1>3
<1>5. DOMAIN disk \subseteq DOMAIN new /\ \A k \in DOMAIN ms : ms[k].seq \in DOMAIN new
  BY <1>1, <1>2
<1>6. Writes(disk, new, seqs)
  BY <1>4, <1>5 DEF Writes, MayWriteAll
<1> QED
  BY <1>4, <1>5, <1>6 DEF new

\* Such writes leave every number to its message.
LEMMA WritesKeep ==
    ASSUME NEW disk, NEW new, NEW seqs, NEW next, NEW made,
           Numbered(seqs), Known(disk, seqs, next, made), Writes(disk, new, seqs)
    PROVE  Known(new, seqs, next, made) /\ Extends(new, disk)
<1>1. \A n \in DOMAIN new :
          \/ n \in DOMAIN disk /\ new[n] = disk[n]
          \/ /\ new[n].seq = n /\ new[n] \in Recs
             /\ \/ n = seqs[new[n].ulid] /\ n > 0
                \/ n \in DOMAIN disk /\ disk[n].ulid = new[n].ulid
  BY DEF Writes, MayWrite
<1>2. \A n \in DOMAIN disk : n \in Int /\ disk[n] \in Recs /\ disk[n].seq = n
  BY DEF Known
<1>3. \A n \in DOMAIN new : n \in Int /\ new[n] \in Recs /\ new[n].seq = n
  BY <1>1, <1>2, RecTyped
<1>4. \A u \in Ulids : seqs[u] \in Nat /\ seqs[u] < Now
  BY NowAbove DEF Numbered
<1>5. \A n \in DOMAIN new : new[n].ulid \in Ulids
  BY <1>3, RecTyped
<1>6. \A n \in DOMAIN new : \/ n \in DOMAIN disk /\ new[n].ulid = disk[n].ulid
                            \/ n = seqs[new[n].ulid] /\ n > 0 /\ n < Now
  BY <1>1, <1>4, <1>5
<1>7. \A n \in DOMAIN new : n > 0 /\ n < Now => seqs[new[n].ulid] = n
  BY <1>6 DEF Known
<1>8. \A n \in DOMAIN new : n >= Now => n < next /\ new[n].ulid \in Texts
  BY <1>3, <1>6, NowAbove DEF Known
<1>9. \A n \in DOMAIN new : n <= 0 => -n < Now + made
  BY <1>3, <1>6 DEF Known
<1>10. ASSUME NEW n \in DOMAIN disk PROVE n \in DOMAIN new /\ new[n].ulid = disk[n].ulid
  <2>1. n \in DOMAIN new
    BY DEF Writes
  <2>2. CASE n = seqs[new[n].ulid] /\ n > 0 /\ n < Now
    <3>1. seqs[disk[n].ulid] = n /\ disk[n].ulid \in Ulids /\ new[n].ulid \in Ulids
      BY <1>2, <1>5, <2>1, <2>2, RecTyped DEF Known
    <3> QED
      BY <2>1, <2>2, <3>1 DEF Numbered
  <2> QED
    BY <1>6, <2>1, <2>2
<1> QED
  BY <1>3, <1>7, <1>8, <1>9, <1>10 DEF Known, Extends

\* What is sound stays so while the disk grows and messages are numbered.
LEMMA SoundLater ==
    ASSUME NEW st, NEW disk, NEW new, NEW seqs, NEW later, Sound(st, disk, seqs),
           Extends(new, disk), \A u \in Ulids : seqs[u] > 0 => later[u] = seqs[u]
    PROVE  Sound(st, new, later)
<1>1. \A n \in DOMAIN st.map : st.map[n].ulid \in Ulids
  BY RecTyped DEF Sound, StoreTyped
<1>2. Agrees(st, new, later)
  BY <1>1 DEF Sound, Agrees, Extends
<1> QED
  BY <1>2 DEF Sound

\* A record in memory may be written, with another status or the server's number.
LEMMA InMemory ==
    ASSUME NEW st, NEW disk, NEW seqs, Sound(st, disk, seqs), NEW n \in DOMAIN st.map,
           NEW m \in Recs, m.ulid = st.map[n].ulid,
           m.seq = st.map[n].seq \/ (m.seq = seqs[m.ulid] /\ seqs[m.ulid] > 0)
    PROVE  /\ MayWrite(m, disk, seqs)
           /\ m.seq # n => m.seq = seqs[m.ulid] /\ seqs[m.ulid] > 0
<1>1. /\ n \in DOMAIN disk /\ disk[n].ulid = st.map[n].ulid
      /\ st.map[n].seq # n => st.map[n].seq = seqs[st.map[n].ulid] /\ seqs[st.map[n].ulid] > 0
  BY DEF Sound, Agrees
<1> QED
  BY <1>1 DEF MayWrite

-----------------------------------------------------------------------------
(***************************************************************************)
(* The queue                                                               *)
(***************************************************************************)

\* The last entries of the queue are those of T, each once.
EndsWith(q, T) ==
    /\ IsFiniteSet(T)
    /\ \E i \in 0..Len(q) :
          /\ Len(q) - i = Cardinality(T)
          /\ \A j \in i + 1..Len(q) : q[j] \in T
          /\ \A u \in T : \E j \in i + 1..Len(q) : q[j] = u
          /\ \A j, k \in i + 1..Len(q) : q[j] = q[k] => j = k

\* What the queue has room for.
Queues(q) == q \in Seq(Own) /\ Len(q) <= QueueMax

\* Any queue ends with nothing in particular.
LEMMA NothingLast ==
    ASSUME NEW q, Queues(q)
    PROVE  EndsWith(q, {})
<1>1. IsFiniteSet({}) /\ Cardinality({}) = 0
  BY FS_EmptySet
<1>2. Len(q) \in Nat
  BY DEF Queues
<1>3. Len(q) \in 0..Len(q) /\ Len(q) - Len(q) = 0
  BY <1>2
<1>4. \A j \in Len(q) + 1..Len(q) : FALSE
  BY <1>2
<1> QED
  BY <1>1, <1>3, <1>4 DEF EndsWith

\* The queue after a push: the new entry is last, the oldest is gone at capacity.
LEMMA Pushing ==
    ASSUME NEW q, Queues(q), NEW u \in Own
    PROVE  /\ Queues(Push(q, u))
           /\ Len(Push(q, u)) = IF Len(q) = QueueMax THEN QueueMax ELSE Len(q) + 1
           /\ Push(q, u)[Len(Push(q, u))] = u
           /\ \A j \in 1..Len(Push(q, u)) - 1 :
                 Push(q, u)[j] = IF Len(q) = QueueMax THEN q[j + 1] ELSE q[j]
<1>1. QueueMax \in Nat \ {0} /\ q \in Seq(Own) /\ Len(q) \in Nat /\ Len(q) <= QueueMax
  BY StoreAssumption DEF StoreParametersOK, Queues
<1>2. CASE Len(q) = QueueMax
  <2>1. q # << >>
    BY <1>1, <1>2
  <2>2. /\ Tail(q) \in Seq(Own) /\ Len(Tail(q)) = Len(q) - 1
        /\ \A j \in 1..Len(q) - 1 : Tail(q)[j] = q[j + 1]
    BY <1>1, <2>1
  <2>3. Push(q, u) = Append(Tail(q), u)
    BY <1>1, <1>2 DEF Push
  <2> QED
    BY <1>1, <1>2, <2>2, <2>3 DEF Queues
<1>3. CASE Len(q) # QueueMax
  <2>1. Push(q, u) = Append(q, u)
    BY <1>1, <1>3 DEF Push
  <2> QED
    BY <1>1, <1>3, <2>1 DEF Queues
<1> QED
  BY <1>2, <1>3

\* A push drops none of the last entries as long as they are fewer than the queue takes.
LEMMA PushEnds ==
    ASSUME NEW q, Queues(q), NEW T, EndsWith(q, T), NEW u \in Own, u \notin T,
           NEW C, IsFiniteSet(C), T \cup {u} \subseteq C, Cardinality(C) <= QueueMax
    PROVE  EndsWith(Push(q, u), T \cup {u})
<1> DEFINE new == Push(q, u)
           all == T \cup {u}
<1>1. /\ Len(q) \in Nat /\ Len(q) <= QueueMax /\ QueueMax \in Nat \ {0}
      /\ new \in Seq(Own) /\ Len(new) \in Nat
      /\ Len(new) = IF Len(q) = QueueMax THEN QueueMax ELSE Len(q) + 1
      /\ new[Len(new)] = u
      /\ \A j \in 1..Len(new) - 1 : new[j] = IF Len(q) = QueueMax THEN q[j + 1] ELSE q[j]
  <2>1. Queues(q) /\ Queues(new)
    BY Pushing
  <2>2. /\ Len(new) = IF Len(q) = QueueMax THEN QueueMax ELSE Len(q) + 1
        /\ new[Len(new)] = u
        /\ \A j \in 1..Len(new) - 1 : new[j] = IF Len(q) = QueueMax THEN q[j + 1] ELSE q[j]
    BY Pushing
  <2> HIDE DEF new
  <2>3. /\ Len(q) \in Nat /\ Len(q) <= QueueMax /\ QueueMax \in Nat \ {0}
        /\ new \in Seq(Own) /\ Len(new) \in Nat
    BY <2>1, StoreAssumption DEF StoreParametersOK, Queues
  <2> QED
    BY <2>2, <2>3
<1>2. PICK i \in 0..Len(q) :
          /\ Len(q) - i = Cardinality(T)
          /\ \A j \in i + 1..Len(q) : q[j] \in T
          /\ \A v \in T : \E j \in i + 1..Len(q) : q[j] = v
          /\ \A j, k \in i + 1..Len(q) : q[j] = q[k] => j = k
  BY DEF EndsWith
<1>3. IsFiniteSet(T)
  BY DEF EndsWith
<1>4. IsFiniteSet(all) /\ Cardinality(all) = Cardinality(T) + 1 /\ Cardinality(T) \in Nat
  BY <1>3, FS_AddElement, FS_CardinalityType
<1>5. Cardinality(all) <= QueueMax
  <2>1. Cardinality(all) <= Cardinality(C) /\ Cardinality(C) \in Nat
    <3>1. all \in SUBSET C
      OBVIOUS
    <3> HIDE DEF all
    <3> QED
      BY <3>1, FS_Subset, FS_CardinalityType
  <2> QED
    BY <1>1, <1>4, <2>1
<1> DEFINE d == IF Len(q) = QueueMax THEN 1 ELSE 0
           at == i - d
<1>6. /\ d \in {0, 1} /\ at \in 0..Len(new) /\ Len(new) - at = Cardinality(all)
      /\ Len(new) = Len(q) + 1 - d
  <2> DEFINE L == Len(q)
             c == Cardinality(T)
             new_l == Len(new)
  <2>1. /\ L \in Nat /\ L <= QueueMax /\ QueueMax \in Nat /\ L - i = c /\ i \in 0..L
        /\ Cardinality(all) = c + 1 /\ c + 1 <= QueueMax /\ c \in Nat
        /\ new_l = IF L = QueueMax THEN QueueMax ELSE L + 1
    BY <1>1, <1>2, <1>4, <1>5
  <2> HIDE DEF L, c, new_l, all
  <2>2. /\ (IF L = QueueMax THEN 1 ELSE 0) \in {0, 1}
        /\ i - (IF L = QueueMax THEN 1 ELSE 0) \in 0..new_l
        /\ new_l - (i - (IF L = QueueMax THEN 1 ELSE 0)) = c + 1
        /\ new_l = L + 1 - (IF L = QueueMax THEN 1 ELSE 0)
    BY <2>1
  <2> QED
    BY <2>1, <2>2 DEF L, new_l
<1>7. \A j \in 1..Len(new) - 1 : new[j] = q[j + d]
  BY <1>1
<1> HIDE DEF new, all, d
<1>8. \A j \in at + 1..Len(new) : \/ j = Len(new)
                                  \/ /\ j \in 1..Len(new) - 1 /\ j + d \in i + 1..Len(q)
                                     /\ new[j] = q[j + d]
  <2>1. \A j \in at + 1..Len(new) :
            j = Len(new) \/ (j \in 1..Len(new) - 1 /\ j + d \in i + 1..Len(q))
    BY <1>1, <1>2, <1>6
  <2> QED
    BY <1>7, <2>1
<1>9. \A j \in i + 1..Len(q) : /\ j - d \in at + 1..Len(new) /\ j - d \in 1..Len(new) - 1
                               /\ new[j - d] = q[j]
  <2>1. \A j \in i + 1..Len(q) : /\ j - d \in at + 1..Len(new) /\ j - d \in 1..Len(new) - 1
                                 /\ (j - d) + d = j
    BY <1>1, <1>2, <1>6
  <2> QED
    BY <1>7, <2>1
<1>10. Len(new) \in at + 1..Len(new)
  BY <1>1, <1>2, <1>4, <1>6
<1> HIDE DEF at
<1>11. \A j \in at + 1..Len(new) : new[j] \in all
  BY <1>1, <1>2, <1>8 DEF all
<1>12. \A v \in all : \E j \in at + 1..Len(new) : new[j] = v
  <2>1. \A v \in T : \E j \in at + 1..Len(new) : new[j] = v
    BY <1>2, <1>9
  <2>2. \E j \in at + 1..Len(new) : new[j] = u
    BY <1>1, <1>10
  <2> QED
    BY <2>1, <2>2 DEF all
<1>13. ASSUME NEW j \in at + 1..Len(new), NEW k \in at + 1..Len(new), new[j] = new[k]
       PROVE  j = k
  <2>1. CASE j = Len(new) /\ k = Len(new)
    BY <2>1
  <2>2. CASE j # Len(new) /\ k # Len(new)
    <3>1. j + d \in i + 1..Len(q) /\ k + d \in i + 1..Len(q) /\ q[j + d] = q[k + d]
      BY <1>8, <1>13, <2>2
    <3>2. j + d = k + d
      BY <1>2, <3>1
    <3>3. j \in Int /\ k \in Int /\ d \in Int
      BY <1>6
    <3> QED
      BY <3>2, <3>3
  <2>3. CASE j = Len(new) /\ k # Len(new)
    <3>1. new[k] \in T
      BY <1>2, <1>8, <2>3
    <3> QED
      BY <1>1, <1>13, <2>3, <3>1
  <2>4. CASE j # Len(new) /\ k = Len(new)
    <3>1. new[j] \in T
      BY <1>2, <1>8, <2>4
    <3> QED
      BY <1>1, <1>13, <2>4, <3>1
  <2> QED
    BY <2>1, <2>2, <2>3, <2>4
<1>14. EndsWith(new, all)
  BY <1>4, <1>6, <1>11, <1>12, <1>13 DEF EndsWith
<1> QED
  BY <1>14 DEF new, all

\* OutQueue.remove takes out the first entry of the ulid, if there is one.
LEMMA RemovingFirst ==
    ASSUME NEW q, Queues(q), NEW u
    PROVE  /\ Queues(RemoveFirst(q, u))
           /\ \/ RemoveFirst(q, u) = q /\ \A j \in 1..Len(q) : q[j] # u
              \/ \E at \in 1..Len(q) :
                    /\ q[at] = u /\ Len(RemoveFirst(q, u)) = Len(q) - 1
                    /\ \A j \in 1..Len(q) - 1 :
                          RemoveFirst(q, u)[j] = IF j < at THEN q[j] ELSE q[j + 1]
<1>1. q \in Seq(Own) /\ Len(q) \in Nat /\ Len(q) <= QueueMax /\ QueueMax \in Nat
  BY StoreAssumption DEF StoreParametersOK, Queues
<1>2. CASE \A j \in 1..Len(q) : q[j] # u
  BY <1>2 DEF RemoveFirst
<1>3. CASE \E j \in 1..Len(q) : q[j] = u
  <2> DEFINE I == {j \in 1..Len(q) : q[j] = u}
             at == CHOOSE x \in I : \A y \in I : x <= y
  <2>1. RemoveFirst(q, u) = RemoveAt(q, at)
    BY <1>3 DEF RemoveFirst, SelectInSeq, Min
  <2>2. I \in SUBSET Nat /\ I # {}
    BY <1>3
  <2>3. at \in I
    <3>1. \E x \in I : \A y \in I : x <= y
      <4> HIDE DEF I
      <4> QED
        BY <2>2, LeastExists
    <3> HIDE DEF I
    <3> QED
      BY <3>1
  <2>4. at \in 1..Len(q) /\ q[at] = u
    BY <2>3
  <2> HIDE DEF at
  <2>5. /\ RemoveAt(q, at) \in Seq(Own) /\ Len(RemoveAt(q, at)) = Len(q) - 1
        /\ \A j \in 1..Len(q) - 1 : RemoveAt(q, at)[j] = IF j < at THEN q[j] ELSE q[j + 1]
    BY <1>1, <2>4, Removing
  <2>6. Queues(RemoveAt(q, at))
    BY <1>1, <2>5 DEF Queues
  <2> QED
    BY <2>1, <2>4, <2>5, <2>6
<1> QED
  BY <1>2, <1>3

\* Removing one ulid from a queue takes at most that ulid from what it ends with.
LEMMA RemoveEnds ==
    ASSUME NEW q, Queues(q), NEW T, EndsWith(q, T), NEW u
    PROVE  \E rest \in SUBSET T : T \ {u} \subseteq rest /\ EndsWith(RemoveFirst(q, u), rest)
<1> DEFINE new == RemoveFirst(q, u)
<1>1. Len(q) \in Nat
  BY DEF Queues
<1>2. CASE new = q
  BY <1>2
<1>3. CASE new # q
  <2>1. PICK at \in 1..Len(q) :
            /\ q[at] = u /\ Len(new) = Len(q) - 1
            /\ \A j \in 1..Len(q) - 1 : new[j] = IF j < at THEN q[j] ELSE q[j + 1]
    BY <1>3, RemovingFirst
  <2>2. PICK i \in 0..Len(q) :
            /\ Len(q) - i = Cardinality(T)
            /\ \A j \in i + 1..Len(q) : q[j] \in T
            /\ \A v \in T : \E j \in i + 1..Len(q) : q[j] = v
            /\ \A j, k \in i + 1..Len(q) : q[j] = q[k] => j = k
    BY DEF EndsWith
  <2>3. IsFiniteSet(T) /\ Cardinality(T) \in Nat
    BY FS_CardinalityType DEF EndsWith
  <2> HIDE DEF new
  <2>4. Len(new) \in Nat
    BY <1>1, <2>1
  <2>5. CASE at <= i
    <3>1. i - 1 \in 0..Len(new) /\ Len(new) - (i - 1) = Cardinality(T)
      BY <1>1, <2>1, <2>2, <2>3, <2>5
    <3>2. \A j \in (i - 1) + 1..Len(new) : j + 1 \in i + 1..Len(q) /\ new[j] = q[j + 1]
      BY <1>1, <2>1, <2>2, <2>5
    <3>3. \A j \in i + 1..Len(q) : j - 1 \in (i - 1) + 1..Len(new) /\ new[j - 1] = q[j]
      <4>1. \A j \in i + 1..Len(q) : j - 1 \in (i - 1) + 1..Len(new) /\ (j - 1) + 1 = j
        BY <1>1, <2>1, <2>2
      <4> QED
        BY <3>2, <4>1
    <3>4. \A j \in (i - 1) + 1..Len(new) : new[j] \in T
      BY <2>2, <3>2
    <3>5. \A v \in T : \E j \in (i - 1) + 1..Len(new) : new[j] = v
      BY <2>2, <3>3
    <3>6. \A j, k \in (i - 1) + 1..Len(new) : new[j] = new[k] => j = k
      <4>1. \A j, k \in (i - 1) + 1..Len(new) : new[j] = new[k] => j + 1 = k + 1
        BY <2>2, <3>2
      <4>2. \A j, k \in (i - 1) + 1..Len(new) : j + 1 = k + 1 => j = k
        BY <2>2, <2>4
      <4> QED
        BY <4>1, <4>2
    <3>7. EndsWith(new, T)
      BY <2>3, <3>1, <3>4, <3>5, <3>6 DEF EndsWith
    <3> QED
      BY <3>7 DEF new
  <2>6. CASE at > i
    <3> DEFINE rest == T \ {u}
    <3>1. u \in T /\ at \in i + 1..Len(q)
      BY <2>1, <2>2, <2>6
    <3>2. IsFiniteSet(rest) /\ Cardinality(rest) = Cardinality(T) - 1
      BY <2>3, <3>1, FS_RemoveElement
    <3>3. i \in 0..Len(new) /\ Len(new) - i = Cardinality(rest)
      BY <1>1, <2>1, <2>2, <2>6, <3>2
    <3> DEFINE from(j) == IF j < at THEN j ELSE j + 1
    <3>4. \A j \in i + 1..Len(new) : /\ from(j) \in i + 1..Len(q) /\ from(j) # at
                                     /\ new[j] = q[from(j)]
      BY <1>1, <2>1, <2>2
    <3>5. \A j, k \in i + 1..Len(new) : from(j) = from(k) => j = k
      BY <2>1, <2>2, <2>4
    <3>6. \A k \in i + 1..Len(q) : k # at => \E j \in i + 1..Len(new) : from(j) = k
      <4>1. \A k \in i + 1..Len(q) : k < at => k \in i + 1..Len(new) /\ from(k) = k
        BY <1>1, <2>1, <2>2
      <4>2. \A k \in i + 1..Len(q) : k > at => k - 1 \in i + 1..Len(new) /\ from(k - 1) = k
        BY <1>1, <2>1, <2>2, <2>6
      <4>3. \A k \in i + 1..Len(q) : k # at => k < at \/ k > at
        BY <2>1, <2>2
      <4> HIDE DEF from
      <4> QED
        BY <4>1, <4>2, <4>3
    <3> HIDE DEF from
    <3>7. \A j \in i + 1..Len(q) : j # at => q[j] # u
      BY <2>1, <2>2, <3>1
    <3>8. \A j \in i + 1..Len(new) : new[j] \in rest
      BY <2>2, <3>4, <3>7
    <3>9. ASSUME NEW v \in rest PROVE \E j \in i + 1..Len(new) : new[j] = v
      <4>1. PICK k \in i + 1..Len(q) : q[k] = v
        BY <2>2
      <4>2. k # at
        BY <2>1, <4>1
      <4>3. PICK j \in i + 1..Len(new) : from(j) = k
        BY <3>6, <4>2
      <4> QED
        BY <3>4, <4>1, <4>3
    <3>10. \A j, k \in i + 1..Len(new) : new[j] = new[k] => j = k
      BY <2>2, <3>4, <3>5
    <3>11. EndsWith(new, rest)
      <4> HIDE DEF rest
      <4> QED
        BY <3>2, <3>3, <3>8, <3>9, <3>10 DEF EndsWith
    <3> QED
      BY <3>11 DEF new
  <2> QED
    BY <2>1, <2>2, <2>5, <2>6
<1> QED
  BY <1>2, <1>3

\* What _loadFromIdb queues: the texts under the numbers of ns, of which those from `low` up come
\* last and are all there, if the queue takes as many.
LEMMA RequeueEnds ==
    ASSUME NEW ms, NEW ns, NEW last \in Nat, NEW low \in Nat \ {0}, NEW C,
           \A n \in ns : ms[n].ulid \in Own
    PROVE  /\ Queues(Requeued(ms, ns, last))
           /\ /\ IsFiniteSet(C) /\ Cardinality(C) <= QueueMax
              /\ {ms[n].ulid : n \in ns \cap low..last} \subseteq C
              /\ \A m, n \in ns : m >= low /\ n >= low /\ ms[m].ulid = ms[n].ulid => m = n
              => EndsWith(Requeued(ms, ns, last), {ms[n].ulid : n \in ns \cap low..last})
<1> DEFINE Next1(f, n) == IF n = 0 THEN << >>
                          ELSE IF n \in ns THEN Push(f[n - 1], ms[n].ulid) ELSE f[n - 1]
           Is(f) == f = [n \in 0..last |-> Next1(f, n)]
           UpTo(d) == d <= last => \E f : \A n \in 0..d : f[n] = Next1(f, n)
<1>1. Requeued(ms, ns, last) = (CHOOSE f : Is(f))[last]
  BY DEF Requeued
<1>2. \A d \in Nat : UpTo(d)
  <2> DEFINE S == {d \in Nat : ~UpTo(d)}
  <2> SUFFICES ASSUME S # {} PROVE FALSE
    OBVIOUS
  <2>1. PICK d \in S : \A k \in S : d <= k
    <3> HIDE DEF UpTo
    <3> QED
      BY LeastExists
  <2>2. d \in Nat /\ d <= last
    OBVIOUS
  <2>3. UpTo(d)
    <3>1. CASE d = 0
      <4>1. \A n \in 0..d : [k \in {0} |-> << >>][n] = Next1([k \in {0} |-> << >>], n)
        BY <3>1
      <4> QED
        BY <4>1
    <3>2. CASE d # 0
      <4>1. d - 1 \in Nat /\ d - 1 < d /\ d - 1 <= last
        BY <2>2, <3>2
      <4>2. UpTo(d - 1)
        <5> HIDE DEF UpTo
        <5> QED
          BY <2>1, <2>2, <4>1
      <4>3. PICK f : \A n \in 0..d - 1 : f[n] = Next1(f, n)
        BY <4>1, <4>2
      <4> DEFINE g == [n \in 0..d |-> IF n < d THEN f[n] ELSE Next1(f, n)]
      <4>4. \A n \in 0..d : n # 0 => n - 1 \in 0..d - 1 /\ g[n - 1] = f[n - 1]
        BY <4>1
      <4>5. \A n \in 0..d : Next1(g, n) = Next1(f, n)
        <5> HIDE DEF g
        <5> QED
          BY <4>4
      <4>6. \A n \in 0..d : g[n] = Next1(f, n)
        <5> HIDE DEF Next1
        <5> QED
          BY <4>1, <4>3
      <4> HIDE DEF g, Next1
      <4>7. \A n \in 0..d : g[n] = Next1(g, n)
        BY <4>5, <4>6
      <4> QED
        BY <4>7
    <3> QED
      BY <3>1, <3>2
  <2> HIDE DEF UpTo
  <2> QED
    BY <2>3
<1>3. PICK h : \A n \in 0..last : h[n] = Next1(h, n)
  <2>1. UpTo(last)
    <3> HIDE DEF UpTo
    <3> QED
      BY <1>2
  <2> HIDE DEF Next1
  <2> QED
    BY <2>1
<1> DEFINE g == [n \in 0..last |-> h[n]]
<1>4. Is(g)
  <2>1. \A n \in 0..last : n # 0 => n - 1 \in 0..last /\ g[n - 1] = h[n - 1]
    OBVIOUS
  <2>2. \A n \in 0..last : Next1(g, n) = Next1(h, n)
    <3> HIDE DEF g
    <3> QED
      BY <2>1
  <2> HIDE DEF Next1
  <2> QED
    BY <1>3, <2>2
<1> DEFINE f == CHOOSE f : Is(f)
<1>5. Is(f)
  <2> HIDE DEF Is, g
  <2> QED
    BY <1>4
<1>6. \A n \in 0..last : f[n] = Next1(f, n)
  <2> HIDE DEF f, Next1
  <2> QED
    BY <1>5
<1> HIDE DEF f, Is
<1> DEFINE T(n) == {ms[k].ulid : k \in ns \cap low..n}
           Room == /\ IsFiniteSet(C) /\ Cardinality(C) <= QueueMax /\ T(last) \subseteq C
                   /\ \A m, n \in ns : m >= low /\ n >= low /\ ms[m].ulid = ms[n].ulid => m = n
           Good(n) == Queues(f[n]) /\ (Room => EndsWith(f[n], T(n)))
           B == {n \in Nat : n <= last /\ ~Good(n)}
<1>7. B = {}
  <2> SUFFICES ASSUME B # {} PROVE FALSE
    OBVIOUS
  <2>1. PICK n \in B : \A k \in B : n <= k
    <3> HIDE DEF Good
    <3> QED
      BY LeastExists
  <2>2. n \in 0..last /\ ~Good(n)
    <3> HIDE DEF Good
    <3> QED
      OBVIOUS
  <2>3. n < low => T(n) = {}
    BY <2>2
  <2>4. CASE n = 0
    <3>1. f[n] = << >>
      BY <1>6, <2>2, <2>4
    <3>2. Queues(<< >>)
      BY StoreAssumption DEF Queues, StoreParametersOK
    <3>3. T(n) = {}
      BY <2>3, <2>4
    <3> HIDE DEF T
    <3> QED
      BY <2>2, <3>1, <3>2, <3>3, NothingLast
  <2>5. CASE n # 0
    <3>1. n - 1 \in 0..last /\ n \in 1..last /\ n - 1 \notin B
      <4> HIDE DEF Good
      <4> QED
        BY <2>1, <2>2, <2>5
    <3>2. Good(n - 1)
      <4> HIDE DEF Good
      <4> QED
        BY <3>1
    <3>3. CASE n \notin ns
      <4>1. f[n] = f[n - 1]
        BY <1>6, <2>2, <2>5, <3>3
      <4>2. T(n) = T(n - 1)
        BY <3>1, <3>3
      <4> HIDE DEF T
      <4> QED
        BY <2>2, <3>2, <4>1, <4>2
    <3>4. CASE n \in ns
      <4> DEFINE u == ms[n].ulid
      <4>1. f[n] = Push(f[n - 1], u) /\ u \in Own
        BY <1>6, <2>2, <2>5, <3>4
      <4>2. Queues(f[n])
        <5> HIDE DEF T
        <5> QED
          BY <3>2, <4>1, Pushing
      <4>3. CASE n < low
        <5>1. EndsWith(f[n], T(n))
          <6>1. T(n) = {}
            BY <2>3, <4>3
          <6> HIDE DEF T
          <6> QED
            BY <4>2, <6>1, NothingLast
        <5> HIDE DEF T
        <5> QED
          BY <2>2, <4>2, <5>1
      <4>4. CASE n >= low
        <5>1. T(n) = T(n - 1) \cup {u}
          <6>1. ns \cap low..n = (ns \cap low..n - 1) \cup {n}
            BY <3>1, <3>4, <4>4
          <6> QED
            BY <6>1
        <5>2. Room => u \notin T(n - 1)
          <6>1. \A k \in ns \cap low..n - 1 : k # n /\ k >= low
            BY <3>1
          <6> QED
            BY <3>4, <4>4, <6>1
        <5>3. T(n) \subseteq T(last)
          BY <3>1
        <5> HIDE DEF T, u
        <5>4. Room => EndsWith(f[n], T(n))
          <6> SUFFICES ASSUME Room PROVE EndsWith(Push(f[n - 1], u), T(n - 1) \cup {u})
            BY <4>1, <5>1
          <6>1. T(n - 1) \cup {u} \subseteq C
            BY <5>1, <5>3
          <6>2. Queues(f[n - 1]) /\ EndsWith(f[n - 1], T(n - 1))
            BY <3>2
          <6> QED
            BY <4>1, <5>2, <6>1, <6>2, PushEnds
        <5> QED
          BY <2>2, <4>2, <5>4
      <4> QED
        BY <2>2, <4>3, <4>4
    <3> QED
      BY <3>3, <3>4
  <2> QED
    BY <2>4, <2>5
<1>8. Good(last)
  <2> HIDE DEF Good
  <2> QED
    BY <1>7
<1>9. Requeued(ms, ns, last) = f[last]
  BY <1>1 DEF f
<1> QED
  BY <1>8, <1>9

\* What a drain leaves: the last entries are those it had, but for the old ones.
LEMMA LiveEnds ==
    ASSUME NEW q, Queues(q), NEW old, NEW C, IsFiniteSet(C)
    PROVE  /\ Queues(Live(q, old))
           /\ Cardinality(C) <= QueueMax =>
                 \A T \in SUBSET C : EndsWith(q, T) => EndsWith(Live(q, old), T \ old)
<1> DEFINE last == Len(q)
<1>1. last \in Nat /\ last <= QueueMax /\ QueueMax \in Nat \ {0} /\ \A j \in 1..last : q[j] \in Own
  BY StoreAssumption DEF StoreParametersOK, Queues
<1> DEFINE Next1(f, n) == IF n = 0 THEN << >>
                          ELSE IF q[n] \in old THEN f[n - 1] ELSE Append(f[n - 1], q[n])
           Is(f) == f = [n \in 0..last |-> Next1(f, n)]
           UpTo(d) == d <= last => \E f : \A n \in 0..d : f[n] = Next1(f, n)
<1>2. Live(q, old) = (CHOOSE f : Is(f))[last]
  BY DEF Live
<1> HIDE DEF last
<1>3. \A d \in Nat : UpTo(d)
  <2> DEFINE S == {d \in Nat : ~UpTo(d)}
  <2> SUFFICES ASSUME S # {} PROVE FALSE
    OBVIOUS
  <2>1. PICK d \in S : \A k \in S : d <= k
    <3> HIDE DEF UpTo
    <3> QED
      BY LeastExists
  <2>2. d \in Nat /\ d <= last
    OBVIOUS
  <2>3. UpTo(d)
    <3>1. CASE d = 0
      <4>1. \A n \in 0..d : [k \in {0} |-> << >>][n] = Next1([k \in {0} |-> << >>], n)
        BY <3>1
      <4> QED
        BY <4>1
    <3>2. CASE d # 0
      <4>1. d - 1 \in Nat /\ d - 1 < d /\ d - 1 <= last
        BY <1>1, <2>2, <3>2
      <4>2. UpTo(d - 1)
        <5> HIDE DEF UpTo
        <5> QED
          BY <2>1, <2>2, <4>1
      <4>3. PICK f : \A n \in 0..d - 1 : f[n] = Next1(f, n)
        BY <4>1, <4>2
      <4> DEFINE g == [n \in 0..d |-> IF n < d THEN f[n] ELSE Next1(f, n)]
      <4>4. \A n \in 0..d : n # 0 => n - 1 \in 0..d - 1 /\ g[n - 1] = f[n - 1]
        BY <4>1
      <4>5. \A n \in 0..d : Next1(g, n) = Next1(f, n)
        <5> HIDE DEF g
        <5> QED
          BY <4>4
      <4>6. \A n \in 0..d : g[n] = Next1(f, n)
        <5> HIDE DEF Next1
        <5> QED
          BY <4>1, <4>3
      <4> HIDE DEF g, Next1
      <4>7. \A n \in 0..d : g[n] = Next1(g, n)
        BY <4>5, <4>6
      <4> QED
        BY <4>7
    <3> QED
      BY <3>1, <3>2
  <2> HIDE DEF UpTo
  <2> QED
    BY <2>3
<1>4. PICK h : \A n \in 0..last : h[n] = Next1(h, n)
  <2>1. UpTo(last)
    <3> HIDE DEF UpTo
    <3> QED
      BY <1>1, <1>3
  <2>2. \E h : \A n \in 0..last : h[n] = Next1(h, n)
    <3>1. last <= last
      BY <1>1
    <3> HIDE DEF Next1
    <3> QED
      BY <2>1, <3>1
  <2> HIDE DEF Next1
  <2> QED
    BY <2>2
<1> DEFINE g == [n \in 0..last |-> h[n]]
<1>5. Is(g)
  <2>1. \A n \in 0..last : n # 0 => n - 1 \in 0..last /\ g[n - 1] = h[n - 1]
    BY <1>1
  <2>2. \A n \in 0..last : Next1(g, n) = Next1(h, n)
    <3> HIDE DEF g
    <3> QED
      BY <2>1
  <2> HIDE DEF Next1
  <2> QED
    BY <1>4, <2>2
<1> DEFINE f == CHOOSE f : Is(f)
<1>6. Is(f)
  <2> HIDE DEF Is, g
  <2> QED
    BY <1>5
<1>7. \A n \in 0..last : f[n] = Next1(f, n)
  <2> HIDE DEF f, Next1
  <2> QED
    BY <1>6
<1>8. Live(q, old) = f[last]
  BY <1>2 DEF f
<1> HIDE DEF f, Is
\* One turn of the filter is a push: there is room.
<1> DEFINE Short(n) == Queues(f[n]) /\ Len(f[n]) <= n
           B == {n \in Nat : n <= last /\ ~Short(n)}
<1>9. \A n \in 1..last : q[n] \notin old /\ Short(n - 1) => f[n] = Push(f[n - 1], q[n])
  <2> SUFFICES ASSUME NEW n \in 1..last, q[n] \notin old, Short(n - 1)
               PROVE  f[n] = Push(f[n - 1], q[n])
    OBVIOUS
  <2>1. f[n] = Append(f[n - 1], q[n])
    <3>1. n \in 0..last /\ n # 0
      BY <1>1
    <3>2. f[n] = Next1(f, n)
      <4> HIDE DEF Next1
      <4> QED
        BY <1>7, <3>1
    <3> QED
      BY <3>1, <3>2
  <2>2. Len(f[n - 1]) \in Nat /\ Len(f[n - 1]) < QueueMax
    BY <1>1 DEF Queues
  <2> QED
    BY <1>1, <2>1, <2>2 DEF Push
<1>10. B = {}
  <2> SUFFICES ASSUME B # {} PROVE FALSE
    OBVIOUS
  <2>1. PICK n \in B : \A k \in B : n <= k
    <3> HIDE DEF Short
    <3> QED
      BY LeastExists
  <2>2. n \in 0..last /\ ~Short(n)
    <3> HIDE DEF Short
    <3> QED
      OBVIOUS
  <2>3. CASE n = 0
    <3>1. f[n] = << >>
      BY <1>7, <2>2, <2>3
    <3> QED
      BY <1>1, <2>2, <2>3, <3>1 DEF Queues
  <2>4. CASE n # 0
    <3>1. n - 1 \in 0..last /\ n \in 1..last /\ n - 1 \notin B
      <4> HIDE DEF Short
      <4> QED
        BY <1>1, <2>1, <2>2, <2>4
    <3>2. Short(n - 1)
      <4> HIDE DEF Short
      <4> QED
        BY <3>1
    <3>3. CASE q[n] \in old
      <4>1. f[n] = f[n - 1]
        BY <1>7, <2>2, <2>4, <3>3
      <4>2. Len(f[n - 1]) \in Nat
        BY <3>2 DEF Queues
      <4> QED
        BY <2>2, <3>1, <3>2, <4>1, <4>2
    <3>4. CASE q[n] \notin old
      <4>1. f[n] = Push(f[n - 1], q[n]) /\ q[n] \in Own
        BY <1>1, <1>9, <3>1, <3>2, <3>4
      <4>2. Queues(f[n - 1]) /\ Len(f[n - 1]) <= n - 1 /\ Len(f[n - 1]) \in Nat
        BY <3>2 DEF Queues
      <4>3. /\ Queues(Push(f[n - 1], q[n]))
            /\ Len(Push(f[n - 1], q[n])) =
                   IF Len(f[n - 1]) = QueueMax THEN QueueMax ELSE Len(f[n - 1]) + 1
        BY <4>1, <4>2, Pushing
      <4> QED
        BY <1>1, <2>2, <3>1, <4>1, <4>2, <4>3
    <3> QED
      BY <3>3, <3>4
  <2> QED
    BY <2>3, <2>4
<1>11. \A n \in 0..last : Short(n)
  <2> HIDE DEF Short
  <2> QED
    BY <1>1, <1>10
<1>12. Queues(f[last])
  BY <1>1, <1>11
<1>13. ASSUME Cardinality(C) <= QueueMax, NEW T \in SUBSET C, EndsWith(q, T)
       PROVE  EndsWith(f[last], T \ old)
  <2>1. PICK i \in 0..last :
            /\ \A j \in i + 1..last : q[j] \in T
            /\ \A v \in T : \E j \in i + 1..last : q[j] = v
            /\ \A j, k \in i + 1..last : q[j] = q[k] => j = k
    BY <1>13 DEF EndsWith, last
  <2> DEFINE Part(n) == {q[k] : k \in i + 1..n} \ old
             Good(n) == EndsWith(f[n], Part(n))
             W == {n \in Nat : i <= n /\ n <= last /\ ~Good(n)}
  <2>2. W = {}
    <3> SUFFICES ASSUME W # {} PROVE FALSE
      OBVIOUS
    <3>1. PICK n \in W : \A k \in W : n <= k
      <4> HIDE DEF Good
      <4> QED
        BY LeastExists
    <3>2. n \in i..last /\ n \in 0..last /\ ~Good(n)
      <4> HIDE DEF Good
      <4> QED
        BY <1>1
    <3>3. CASE n = i
      <4>1. Part(n) = {}
        BY <3>2, <3>3
      <4>2. Queues(f[n])
        BY <1>11, <3>2
      <4> HIDE DEF Part
      <4> QED
        BY <3>2, <4>1, <4>2, NothingLast
    <3>4. CASE n # i
      <4>1. n - 1 \in i..last /\ n - 1 \in 0..last /\ n \in 1..last /\ n \in i + 1..last /\ n - 1 \notin W
        <5> HIDE DEF Good
        <5> QED
          BY <1>1, <3>1, <3>2, <3>4
      <4>2. Good(n - 1)
        <5> HIDE DEF Good
        <5> QED
          BY <1>1, <4>1
      <4>3. {q[k] : k \in i + 1..n} = {q[k] : k \in i + 1..n - 1} \cup {q[n]}
        BY <4>1
      <4>4. Queues(f[n - 1]) /\ Short(n - 1)
        BY <1>11, <4>1
      <4>5. CASE q[n] \in old
        <5>1. f[n] = f[n - 1]
          BY <1>7, <3>2, <4>1, <4>5
        <5>2. Part(n) = Part(n - 1)
          BY <4>3, <4>5
        <5> HIDE DEF Part
        <5> QED
          BY <3>2, <4>2, <5>1, <5>2
      <4>6. CASE q[n] \notin old
        <5>1. f[n] = Push(f[n - 1], q[n]) /\ q[n] \in Own
          <6> HIDE DEF Short
          <6> QED
            BY <1>1, <1>9, <4>1, <4>4, <4>6
        <5>2. Part(n) = Part(n - 1) \cup {q[n]}
          BY <4>3, <4>6
        <5>3. q[n] \notin Part(n - 1)
          <6>1. \A k \in i + 1..n - 1 : k \in i + 1..last /\ k # n
            BY <1>1, <4>1
          <6> QED
            BY <2>1, <4>1, <6>1
        <5>4. Part(n) \subseteq C
          <6>1. \A k \in i + 1..n : k \in i + 1..last
            BY <1>1, <4>1
          <6> QED
            BY <2>1, <6>1
        <5>5. EndsWith(f[n - 1], Part(n - 1))
          BY <4>2
        <5> HIDE DEF Part
        <5>6. EndsWith(Push(f[n - 1], q[n]), Part(n - 1) \cup {q[n]})
          <6>1. Part(n - 1) \cup {q[n]} \subseteq C
            BY <5>2, <5>4
          <6> QED
            BY <1>13, <4>4, <5>1, <5>3, <5>5, <6>1, PushEnds
        <5> QED
          BY <3>2, <5>1, <5>2, <5>6
      <4> QED
        BY <4>5, <4>6
    <3> QED
      BY <3>3, <3>4
  <2>3. Good(last)
    <3> HIDE DEF Good
    <3> QED
      BY <1>1, <2>2
  <2>4. Part(last) = T \ old
    BY <2>1
  <2> HIDE DEF Part
  <2> QED
    BY <2>3, <2>4
<1> QED
  BY <1>8, <1>12, <1>13

-----------------------------------------------------------------------------
(***************************************************************************)
(* The store and the disk                                                  *)
(***************************************************************************)

\* The inductive invariant.  Only `Filed` is lost when an EXPIRED changes a number in a record.
StoreInv ==
    /\ StoreTypeOK
    /\ kept = [msgs |-> kept.msgs, cursor |-> kept.cursor, lastSeq |-> kept.lastSeq]
    /\ Numbered(seqOf)
    /\ \A u \in Ulids : seqOf[u] <= Counter
    /\ \A u \in Own : seqOf[u] > 0 => u \in Created
    /\ pending >= Now
    /\ Known(kept.msgs, seqOf, pending, Cardinality(Created))
    /\ Sound(store, kept.msgs, seqOf)
    /\ ~renumbered => Filed(store)

\* The variables beside the store, the disk and the numbers.
RestTyped ==
    /\ Queues(queue) /\ acked \subseteq Own /\ lapsed \subseteq Texts /\ drawn \in Nat
    /\ pending \in Nat /\ renumbered \in BOOLEAN /\ pageLoads \in 0..MaxPageLoads

\* The parts of the invariant that the steps use.
LEMMA InvParts ==
    ASSUME StoreInv
    PROVE  /\ RestTyped /\ Numbered(seqOf) /\ pending \in Nat /\ pending >= Now
           /\ Known(kept.msgs, seqOf, pending, Cardinality(Created))
           /\ Sound(store, kept.msgs, seqOf)
           /\ \A u \in Ulids : seqOf[u] \in Nat /\ seqOf[u] < Now /\ seqOf[u] <= Counter
           /\ \A u \in Own : seqOf[u] > 0 => u \in Created
           /\ Counter \in Nat /\ Counter < Now
           /\ Cardinality(Created) \in Nat /\ IsFiniteSet(Created)
<1>1. RestTyped /\ pending \in Nat
  BY DEF StoreInv, StoreTypeOK, RestTyped, Queues
<1>2. \A u \in Ulids : seqOf[u] \in Nat /\ seqOf[u] < Now
  BY NowAbove DEF StoreInv, Numbered
<1>3. IsFiniteSet({u \in Ulids : seqOf[u] > 0}) /\ IsFiniteSet(Created)
  <2>1. {u \in Ulids : seqOf[u] > 0} \in SUBSET Ulids /\ Created \in SUBSET Own
    BY DEF Created
  <2> QED
    BY <2>1, NowAbove, FS_Subset
<1>4. Counter \in Nat /\ Counter < Now /\ Cardinality(Created) \in Nat
  <2>1. Counter \in Nat /\ Cardinality(Created) \in Nat
    BY <1>3, FS_CardinalityType DEF Counter
  <2>2. Counter <= Cardinality(Ulids)
    <3>1. {u \in Ulids : seqOf[u] > 0} \in SUBSET Ulids
      OBVIOUS
    <3> QED
      BY <3>1, NowAbove, FS_Subset DEF Counter
  <2> QED
    BY <2>1, <2>2, NowAbove
<1> QED
  BY <1>1, <1>2, <1>3, <1>4 DEF StoreInv

\* The invariant is put together again from its parts.
LEMMA Assembles ==
    ASSUME RestTyped',
           kept' = [msgs |-> kept.msgs', cursor |-> kept.cursor', lastSeq |-> kept.lastSeq'],
           Numbered(seqOf'), \A u \in Ulids : seqOf'[u] <= Counter',
           \A u \in Own : seqOf'[u] > 0 => u \in Created',
           pending' >= Now, Known(kept.msgs', seqOf', pending', Cardinality(Created')),
           Sound(store', kept.msgs', seqOf'), ~renumbered' => Filed(store')
    PROVE  StoreInv'
<1>1. seqOf' \in [Ulids -> 0..Cardinality(Ulids)]
  BY DEF Numbered
<1>2. /\ DOMAIN store.map' \subseteq Int /\ \A n \in DOMAIN store.map' : store.map'[n] \in Recs
      /\ DOMAIN store.idx' \subseteq Ulids /\ \A u \in DOMAIN store.idx' : store.idx'[u] \in Int
      /\ store.arr' \in Seq(Recs)
  BY DEF Sound, StoreTyped
<1>3. DOMAIN kept.msgs' \subseteq Int /\ \A n \in DOMAIN kept.msgs' : kept.msgs'[n] \in Recs
  BY DEF Known
<1>4. StoreTypeOK'
  BY <1>1, <1>2, <1>3 DEF StoreTypeOK, RestTyped, Queues
<1> QED
  BY <1>4 DEF StoreInv

\* After writes of records whose place is known, the numbers of the disk are known as before.
LEMMA AfterWrites ==
    ASSUME StoreInv, seqOf' = seqOf, pending' >= pending, RestTyped',
           NEW disk, Writes(kept.msgs, disk, seqOf),
           kept' = [msgs |-> disk, cursor |-> kept.cursor', lastSeq |-> kept.lastSeq'],
           Sound(store', disk, seqOf), ~renumbered' => Filed(store')
    PROVE  StoreInv' /\ Created' = Created /\ Extends(kept.msgs', kept.msgs)
<1>1. kept.msgs' = disk
  OBVIOUS
<1>2. /\ Numbered(seqOf) /\ pending \in Nat /\ pending >= Now
      /\ Known(kept.msgs, seqOf, pending, Cardinality(Created))
      /\ \A u \in Own : seqOf[u] > 0 => u \in Created
  BY InvParts
<1>3. Known(disk, seqOf, pending, Cardinality(Created)) /\ Extends(disk, kept.msgs)
  BY <1>2, WritesKeep
<1>4. Created' = Created
  <2>1. Created' = {u \in Own : \E n \in DOMAIN disk : disk[n].ulid = u}
    BY <1>1 DEF Created
  <2>2. ASSUME NEW u \in Own, NEW n \in DOMAIN disk, disk[n].ulid = u
        PROVE  u \in Created
    <3>1. \/ n \in DOMAIN kept.msgs /\ disk[n] = kept.msgs[n]
          \/ disk[n].seq = n /\ MayWrite(disk[n], kept.msgs, seqOf)
      BY DEF Writes
    <3>2. CASE n \in DOMAIN kept.msgs /\ disk[n] = kept.msgs[n]
      BY <2>2, <3>2 DEF Created
    <3>3. CASE disk[n].seq = n /\ MayWrite(disk[n], kept.msgs, seqOf)
      <4>1. \/ n = seqOf[u] /\ n > 0
            \/ n \in DOMAIN kept.msgs /\ kept.msgs[n].ulid = u
        BY <2>2, <3>3 DEF MayWrite
      <4> QED
        BY <1>2, <4>1 DEF Created
    <3> QED
      BY <3>1, <3>2, <3>3
  <2>3. ASSUME NEW u \in Created
        PROVE  \E n \in DOMAIN disk : disk[n].ulid = u
    BY <1>3 DEF Extends, Created
  <2> QED
    BY <2>1, <2>2, <2>3 DEF Created
<1>5. pending' \in Nat /\ pending' >= Now
  BY <1>2, NowAbove DEF RestTyped
<1>6. Known(disk, seqOf, pending', Cardinality(Created))
  BY <1>2, <1>3, <1>5 DEF Known
<1>7. \A u \in Ulids : seqOf'[u] <= Counter'
  BY DEF StoreInv, Counter
<1>8. \A u \in Own : seqOf'[u] > 0 => u \in Created'
  BY <1>2, <1>4
<1>9. Numbered(seqOf') /\ Known(kept.msgs', seqOf', pending', Cardinality(Created'))
      /\ Sound(store', kept.msgs', seqOf')
  BY <1>1, <1>2, <1>4, <1>6
<1>10. kept' = [msgs |-> kept.msgs', cursor |-> kept.cursor', lastSeq |-> kept.lastSeq']
  BY <1>1
<1>11. StoreInv'
  BY <1>5, <1>7, <1>8, <1>9, <1>10, Assembles
<1> QED
  BY <1>1, <1>3, <1>4, <1>11

\* What is in memory is still sound when only the disk was written.
LEMMA BeforeStore ==
    ASSUME StoreInv, NEW disk, Writes(kept.msgs, disk, seqOf)
    PROVE  Sound(store, disk, seqOf)
<1>1. /\ Numbered(seqOf) /\ Known(kept.msgs, seqOf, pending, Cardinality(Created))
      /\ Sound(store, kept.msgs, seqOf)
  BY InvParts
<1>2. Extends(disk, kept.msgs)
  BY <1>1, WritesKeep
<1> QED
  BY <1>1, <1>2, SoundLater

\* To write nothing is a way of writing.
LEMMA NoWrites ==
    ASSUME NEW disk, NEW seqs
    PROVE  Writes(disk, disk, seqs)
  BY DEF Writes

\* An empty store agrees with any disk.
LEMMA EmptySound ==
    ASSUME NEW disk, NEW seqs
    PROVE  Sound(EmptyStore, disk, seqs) /\ Filed(EmptyStore)
<1>1. /\ EmptyStore = [map |-> EmptyStore.map, idx |-> EmptyStore.idx, arr |-> EmptyStore.arr]
      /\ EmptyStore.map = << >> /\ EmptyStore.idx = << >> /\ EmptyStore.arr = << >>
  BY DEF EmptyStore
<1>2. DOMAIN << >> = {} /\ << >> \in Seq(Recs) /\ Len(<< >>) = 0
  OBVIOUS
<1> QED
  BY <1>1, <1>2 DEF Sound, StoreTyped, Agrees, Filed, Listed, Rising

\* The invariant holds at the start.
LEMMA StoreStarts == StoreInit => StoreInv
<1> SUFFICES ASSUME StoreInit PROVE StoreInv
  OBVIOUS
<1>1. /\ seqOf = [u \in Ulids |-> 0] /\ store = EmptyStore /\ queue = << >> /\ pending = Now
      /\ kept = [msgs |-> << >>, cursor |-> 0, lastSeq |-> 0] /\ kept.msgs = << >>
      /\ drawn = 0 /\ acked = {} /\ lapsed = {} /\ renumbered = FALSE /\ pageLoads = 0
  BY DEF StoreInit
<1>2. /\ QueueMax \in Nat \ {0} /\ MaxPageLoads \in Nat
      /\ Now \in Nat /\ Cardinality(Ulids) \in Nat /\ Now > Cardinality(Ulids)
  BY StoreAssumption, NowAbove DEF StoreParametersOK
<1>3. DOMAIN << >> = {} /\ << >> \in Seq(Own) /\ Len(<< >>) = 0
  OBVIOUS
<1>4. Numbered(seqOf)
  BY <1>1, <1>2 DEF Numbered
<1>5. Created = {} /\ Cardinality(Created) = 0 /\ Counter = 0
  <2>1. Created = {} /\ {u \in Ulids : seqOf[u] > 0} = {}
    BY <1>1, <1>3 DEF Created
  <2> QED
    BY <2>1, FS_EmptySet DEF Counter
<1>6. Known(kept.msgs, seqOf, pending, Cardinality(Created))
  BY <1>1, <1>3 DEF Known
<1>7. Sound(store, kept.msgs, seqOf) /\ Filed(store)
  BY <1>1, EmptySound
<1>8. /\ DOMAIN store.map \subseteq Int /\ \A n \in DOMAIN store.map : store.map[n] \in Recs
      /\ DOMAIN store.idx \subseteq Ulids /\ \A u \in DOMAIN store.idx : store.idx[u] \in Int
      /\ store.arr \in Seq(Recs)
  BY <1>7 DEF Sound, StoreTyped
<1>9. StoreTypeOK
  <2>1. queue \in Seq(Own) /\ Len(queue) <= QueueMax
    BY <1>1, <1>2, <1>3
  <2>2. renumbered \in BOOLEAN
    BY <1>1
  <2>3. acked \subseteq Own /\ lapsed \subseteq Texts /\ drawn \in Nat /\ pending \in Nat
        /\ pageLoads \in 0..MaxPageLoads
    BY <1>1, <1>2
  <2>4. seqOf \in [Ulids -> 0..Cardinality(Ulids)]
    BY <1>4 DEF Numbered
  <2>5. DOMAIN kept.msgs \subseteq Int /\ \A n \in DOMAIN kept.msgs : kept.msgs[n] \in Recs
    BY <1>6 DEF Known
  <2> QED
    BY <1>8, <2>1, <2>2, <2>3, <2>4, <2>5 DEF StoreTypeOK
<1>10. /\ kept = [msgs |-> kept.msgs, cursor |-> kept.cursor, lastSeq |-> kept.lastSeq]
       /\ \A u \in Ulids : seqOf[u] <= Counter
       /\ \A u \in Own : seqOf[u] > 0 => u \in Created
       /\ pending >= Now
  BY <1>1, <1>2, <1>5 DEF Ulids
<1> QED
  BY <1>4, <1>6, <1>7, <1>9, <1>10 DEF StoreInv

\* A new record under a number nobody has.
LEMMA NewRecord ==
    ASSUME StoreInv, NEW u \in Own \ Created, NEW n \in Int,
           InsertNew(Rec(u, n, "pending")), seqOf' = seqOf, renumbered' = renumbered, RestTyped',
           pending' >= pending,
           \/ n = pending /\ u \in Texts /\ pending' > pending
           \/ n = -(Now + Cardinality(Created))
    PROVE  StoreInv' /\ Created' = Created \cup {u} /\ n \notin DOMAIN kept.msgs
<1> DEFINE m == Rec(u, n, "pending")
           disk == Put(kept.msgs, n, m)
<1>1. m \in Recs /\ m.seq = n /\ m.ulid = u
  BY DEF Recs, Rec, Rank, Ulids
<1>2. store' = InsertInto(store, m) /\ kept' = [kept EXCEPT !.msgs = disk]
  BY <1>1 DEF InsertNew
<1>3. /\ DOMAIN disk = DOMAIN kept.msgs \cup {n} /\ disk[n] = m
      /\ \A k \in DOMAIN kept.msgs : k # n => disk[k] = kept.msgs[k]
  BY DEF Put
<1> HIDE DEF m, disk
<1>4. /\ kept' = [msgs |-> disk, cursor |-> kept.cursor, lastSeq |-> kept.lastSeq]
      /\ kept.msgs' = disk
  BY <1>2 DEF StoreInv
<1>5. /\ Numbered(seqOf) /\ pending \in Nat /\ pending >= Now
      /\ Known(kept.msgs, seqOf, pending, Cardinality(Created))
      /\ Sound(store, kept.msgs, seqOf)
      /\ \A v \in Own : seqOf[v] > 0 => v \in Created
      /\ Cardinality(Created) \in Nat /\ IsFiniteSet(Created)
      /\ Now \in Nat /\ Now > 0 /\ pending' \in Nat
  BY InvParts, NowAbove DEF RestTyped
<1>6. n \notin DOMAIN kept.msgs
  BY <1>5 DEF Known
<1>7. \A k \in DOMAIN kept.msgs : disk[k] = kept.msgs[k] /\ k # n
  BY <1>3, <1>6
<1>8. Extends(disk, kept.msgs)
  BY <1>3, <1>7 DEF Extends
<1>9. Created' = Created \cup {u}
  <2>1. Created' = {v \in Own : \E k \in DOMAIN disk : disk[k].ulid = v}
    BY <1>4 DEF Created
  <2>2. \A v \in Own : (\E k \in DOMAIN disk : disk[k].ulid = v)
                       <=> v = u \/ \E k \in DOMAIN kept.msgs : kept.msgs[k].ulid = v
    BY <1>1, <1>3, <1>7
  <2> QED
    BY <2>1, <2>2 DEF Created
<1>10. Cardinality(Created') = Cardinality(Created) + 1
  BY <1>5, <1>9, FS_AddElement
<1>11. Known(disk, seqOf, pending', Cardinality(Created'))
  <2>1. \A k \in DOMAIN disk : k = n \/ k \in DOMAIN kept.msgs
    BY <1>3
  <2>2. DOMAIN disk \subseteq Int /\ \A k \in DOMAIN disk : disk[k] \in Recs /\ disk[k].seq = k
    BY <1>1, <1>3, <1>5, <1>7, <2>1 DEF Known
  <2>3. \A k \in DOMAIN disk : k > 0 /\ k < Now => seqOf[disk[k].ulid] = k
    BY <1>5, <1>7, <2>1 DEF Known
  <2>4. \A k \in DOMAIN disk : k >= Now => k < pending' /\ disk[k].ulid \in Texts
    BY <1>1, <1>3, <1>5, <1>7, <2>1, <2>2 DEF Known
  <2>5. \A k \in DOMAIN disk : k <= 0 => -k < Now + Cardinality(Created')
    BY <1>5, <1>7, <1>10, <2>1, <2>2 DEF Known
  <2> QED
    BY <2>2, <2>3, <2>4, <2>5 DEF Known
<1>12. Sound(store, disk, seqOf)
  BY <1>5, <1>8, SoundLater
<1>13. Sound(store', disk, seqOf) /\ (Filed(store) => Filed(store'))
  BY <1>1, <1>2, <1>3, <1>12, InsertKeeps
<1>14. ~renumbered' => Filed(store')
  BY <1>13 DEF StoreInv
<1>15. /\ \A v \in Ulids : seqOf'[v] <= Counter'
       /\ \A v \in Own : seqOf'[v] > 0 => v \in Created'
  BY <1>5, <1>9 DEF StoreInv, Counter
<1>16. /\ kept' = [msgs |-> kept.msgs', cursor |-> kept.cursor', lastSeq |-> kept.lastSeq']
       /\ pending' >= Now
  BY <1>4, <1>5
<1>17. StoreInv'
  BY <1>4, <1>5, <1>11, <1>13, <1>14, <1>15, <1>16, Assembles
<1> QED
  BY <1>6, <1>9, <1>17

\* A record whose status alone is changed.
LEMMA NewStatus ==
    ASSUME NEW r \in Recs, NEW s \in DOMAIN Rank
    PROVE  LET m == [r EXCEPT !.status = s]
           IN  m \in Recs /\ m.ulid = r.ulid /\ m.seq = r.seq /\ m.status = s
  BY DEF Recs

\* The statuses are ranked.
LEMMA Statuses ==
    /\ "pending" \in DOMAIN Rank /\ "sent" \in DOMAIN Rank /\ "delivered" \in DOMAIN Rank
    /\ "read" \in DOMAIN Rank /\ "received" \in DOMAIN Rank
  BY DEF Rank

\* What a shown message leads to.
LEMMA ShownRecord ==
    ASSUME StoreInv, NEW u, Shown(u)
    PROVE  /\ store.idx[u] \in DOMAIN store.map /\ store.map[store.idx[u]] \in Recs
           /\ store.map[store.idx[u]].ulid = u /\ store.idx[u] \in Int
           /\ ~renumbered => store.map[store.idx[u]].seq = store.idx[u]
           /\ store.idx[u] \in DOMAIN kept.msgs /\ kept.msgs[store.idx[u]].ulid = u
  BY DEF StoreInv, Shown, Sound, StoreTyped, Agrees, Filed, Listed

\* Sending the read cursor: the messages are left alone.
LEMMA ReadEffectKeeps ==
    ASSUME StoreInv, ReadEffect
    PROVE  StoreInv' /\ Created' = Created /\ kept.msgs' = kept.msgs
<1>1. /\ drawn' = Len(store.arr)
      /\ kept' = IF LastReal = 0 THEN kept ELSE [kept EXCEPT !.cursor = LastReal]
      /\ UNCHANGED <<seqOf, store, shownLast, queue, pending, acked, lapsed, renumbered,
                     pageLoads>>
  BY DEF ReadEffect
<1>2. /\ kept' = [msgs |-> kept.msgs, cursor |-> kept.cursor', lastSeq |-> kept.lastSeq']
      /\ kept.msgs' = kept.msgs
  BY <1>1 DEF StoreInv
<1>3. RestTyped /\ Sound(store, kept.msgs, seqOf) /\ (~renumbered => Filed(store))
      /\ pending \in Nat
  BY InvParts DEF StoreInv
<1>4. Len(store.arr) \in Nat
  BY <1>3 DEF Sound, StoreTyped
<1>5. RestTyped'
  BY <1>1, <1>3, <1>4 DEF RestTyped
<1>6. Writes(kept.msgs, kept.msgs, seqOf)
  BY NoWrites
<1> QED
  BY <1>1, <1>2, <1>3, <1>5, <1>6, AfterWrites

\* A MSG: the disk keeps what it has, and no pending record is touched.
LEMMA MsgKeeps ==
    ASSUME StoreInv, NEW u \in Ulids, Msg(u)
    PROVE  /\ StoreInv' /\ Created' = Created /\ Extends(kept.msgs', kept.msgs)
           /\ \A n \in DOMAIN kept.msgs' :
                  n >= Now => n \in DOMAIN kept.msgs /\ kept.msgs'[n] = kept.msgs[n]
<1> DEFINE status == IF u \in Theirs THEN "received"
                     ELSE IF Shown(u) THEN StatusOf(u) ELSE "sent"
           m == Rec(u, seqOf[u], status)
           disk == Put(kept.msgs, m.seq, m)
<1>1. /\ seqOf[u] > 0 /\ store' = InsertInto(store, m)
      /\ kept' = [kept EXCEPT !.msgs = disk, !.lastSeq = m.seq]
      /\ UNCHANGED <<seqOf, queue, pending, drawn, acked, lapsed, renumbered, pageLoads>>
  BY DEF Msg
<1>2. status \in DOMAIN Rank
  BY ShownRecord, Statuses, RecTyped DEF StatusOf
<1>3. RestTyped /\ pending \in Nat /\ seqOf[u] \in Nat /\ seqOf[u] < Now
  BY InvParts
<1>4. m \in Recs /\ m.seq = seqOf[u] /\ m.ulid = u
  BY <1>2, <1>3 DEF Rec, Recs
<1>5. /\ kept' = [msgs |-> disk, cursor |-> kept.cursor', lastSeq |-> kept.lastSeq']
      /\ kept.msgs' = disk
  BY <1>1 DEF StoreInv
<1> HIDE DEF m, disk
<1>6. Writes(kept.msgs, disk, seqOf) /\ m.seq \in DOMAIN disk /\ disk[m.seq] = m
  <2>1. MayWrite(m, kept.msgs, seqOf)
    BY <1>1, <1>4 DEF MayWrite
  <2> QED
    BY <2>1, PutWrites DEF disk
<1>7. Sound(store, disk, seqOf)
  BY <1>6, BeforeStore
<1>8. Sound(store', disk, seqOf) /\ (Filed(store) => Filed(store'))
  BY <1>1, <1>4, <1>6, <1>7, InsertKeeps
<1>9. RestTyped' /\ (~renumbered' => Filed(store'))
  BY <1>1, <1>3, <1>8 DEF RestTyped, StoreInv
<1>10. StoreInv' /\ Created' = Created /\ Extends(kept.msgs', kept.msgs)
  BY <1>1, <1>3, <1>5, <1>6, <1>8, <1>9, AfterWrites
<1>11. \A n \in DOMAIN disk : n >= Now => n \in DOMAIN kept.msgs /\ disk[n] = kept.msgs[n]
  <2>1. \A n \in DOMAIN disk : n # m.seq => n \in DOMAIN kept.msgs /\ disk[n] = kept.msgs[n]
    BY DEF disk, Put
  <2>2. m.seq \in Nat /\ ~(m.seq >= Now)
    BY <1>3, <1>4, NowAbove
  <2> QED
    BY <2>1, <2>2
<1> QED
  BY <1>5, <1>10, <1>11

\* An EXPIRED: the record is written under the server's number.
LEMMA ExpiredKeeps ==
    ASSUME StoreInv, NEW u \in Ulids, Expired(u)
    PROVE  /\ StoreInv' /\ Created' = Created /\ Extends(kept.msgs', kept.msgs)
           /\ \A n \in DOMAIN kept.msgs' :
                  n >= Now => n \in DOMAIN kept.msgs /\ kept.msgs'[n] = kept.msgs[n]
<1> DEFINE at == store.idx[u]
           r == store.map[at]
           m == [r EXCEPT !.seq = seqOf[u]]
           disk == Put(kept.msgs, m.seq, m)
           ms == [k \in {at} |-> m]
<1>1. /\ seqOf[u] > 0 /\ Shown(u) /\ store' = PatchAll(store, ms)
      /\ kept' = [kept EXCEPT !.msgs = disk]
      /\ renumbered' = (renumbered \/ at # m.seq)
      /\ UNCHANGED <<seqOf, shownLast, queue, pending, drawn, acked, lapsed, pageLoads>>
  BY DEF Expired, PatchMsg
<1>2. /\ at \in DOMAIN store.map /\ r \in Recs /\ r.ulid = u
  BY <1>1, ShownRecord
<1>3. RestTyped /\ pending \in Nat /\ seqOf[u] \in Nat /\ seqOf[u] < Now
  BY InvParts
<1>4. m \in Recs /\ m.seq = seqOf[u] /\ m.ulid = u
  BY <1>2, <1>3 DEF Recs
<1>5. /\ kept' = [msgs |-> disk, cursor |-> kept.cursor', lastSeq |-> kept.lastSeq']
      /\ kept.msgs' = disk
  BY <1>1 DEF StoreInv
<1>6. DOMAIN ms = {at} /\ ms[at] = m
  OBVIOUS
<1> HIDE DEF m, disk, ms, r, at
<1>7. Writes(kept.msgs, disk, seqOf)
  <2>1. MayWrite(m, kept.msgs, seqOf)
    BY <1>1, <1>4 DEF MayWrite
  <2> QED
    BY <2>1, PutWrites DEF disk
<1>8. Sound(store, disk, seqOf)
  BY <1>7, BeforeStore
<1>9. /\ Sound(store', disk, seqOf)
      /\ Filed(store) /\ m.seq = at => Filed(store')
  <2>1. \A n \in DOMAIN ms :
            /\ ms[n] \in Recs /\ ms[n].ulid = store.map[n].ulid
            /\ ms[n].seq # n => ms[n].seq = seqOf[ms[n].ulid] /\ seqOf[ms[n].ulid] > 0
    BY <1>1, <1>2, <1>4, <1>6 DEF r
  <2>2. DOMAIN ms \subseteq DOMAIN store.map
    BY <1>2, <1>6
  <2>3. /\ Sound(PatchAll(store, ms), disk, seqOf)
        /\ Filed(store) /\ (\A n \in DOMAIN ms : ms[n].seq = n) => Filed(PatchAll(store, ms))
    BY <1>8, <2>1, <2>2, PatchKeeps
  <2> QED
    BY <1>1, <1>6, <2>3
<1>10. ~renumbered' => Filed(store')
  BY <1>1, <1>9 DEF StoreInv
<1>11. RestTyped'
  <2>1. renumbered' \in BOOLEAN
    BY <1>1
  <2>2. /\ queue' = queue /\ acked' = acked /\ lapsed' = lapsed /\ drawn' = drawn /\ pending' = pending
        /\ pageLoads' = pageLoads
    BY <1>1
  <2> QED
    BY <1>3, <2>1, <2>2 DEF RestTyped
<1>12. StoreInv' /\ Created' = Created /\ Extends(kept.msgs', kept.msgs)
  BY <1>1, <1>3, <1>5, <1>7, <1>9, <1>10, <1>11, AfterWrites
<1>13. \A n \in DOMAIN disk : n >= Now => n \in DOMAIN kept.msgs /\ disk[n] = kept.msgs[n]
  <2>1. \A n \in DOMAIN disk : n # m.seq => n \in DOMAIN kept.msgs /\ disk[n] = kept.msgs[n]
    BY DEF disk, Put
  <2>2. m.seq \in Nat /\ ~(m.seq >= Now)
    BY <1>3, <1>4, NowAbove
  <2> QED
    BY <2>1, <2>2
<1> QED
  BY <1>5, <1>12, <1>13

\* An ACK: only the record of its ulid can change under a pending number.
LEMMA AckKeeps ==
    ASSUME StoreInv, NEW u \in Ulids, Ack(u)
    PROVE  /\ StoreInv' /\ Created' = Created /\ Extends(kept.msgs', kept.msgs)
           /\ \A n \in DOMAIN kept.msgs' :
                  n >= Now => /\ n \in DOMAIN kept.msgs /\ kept.msgs'[n].ulid = kept.msgs[n].ulid
                              /\ kept.msgs'[n] = kept.msgs[n] \/ kept.msgs'[n].ulid = u
<1>1. /\ u \in Own /\ queue' = RemoveFirst(queue, u) /\ acked' = acked \cup {u}
      /\ lapsed' = lapsed \ {u}
      /\ UNCHANGED <<seqOf, pending, drawn, renumbered, pageLoads>>
  BY DEF Ack
<1>2. RestTyped /\ pending \in Nat /\ Sound(store, kept.msgs, seqOf)
      /\ \A v \in Ulids : seqOf[v] \in Nat /\ seqOf[v] < Now
  BY InvParts
<1>3. RestTyped'
  <2>1. Queues(queue')
    BY <1>1, <1>2, RemovingFirst DEF RestTyped
  <2>2. acked' \subseteq Own /\ lapsed' \subseteq Texts
    BY <1>1, <1>2 DEF RestTyped
  <2>3. /\ drawn' = drawn /\ pending' = pending /\ renumbered' = renumbered
        /\ pageLoads' = pageLoads
    BY <1>1
  <2> QED
    BY <1>2, <2>1, <2>2, <2>3 DEF RestTyped
<1>4. CASE Shown(u)
  <2> DEFINE at == store.idx[u]
             r == store.map[at]
             m == Acknowledged(u, r)
             disk == Put(kept.msgs, m.seq, m)
             ms == [k \in {at} |-> m]
  <2>1. store' = PatchAll(store, ms) /\ kept' = [kept EXCEPT !.msgs = disk, !.lastSeq = seqOf[u]]
    BY <1>4 DEF Ack, PatchMsg
  <2>2. /\ at \in DOMAIN store.map /\ r \in Recs /\ r.ulid = u /\ at \in Int
        /\ at \in DOMAIN kept.msgs /\ kept.msgs[at].ulid = u
        /\ ~renumbered => r.seq = at
    BY <1>4, ShownRecord
  <2>3. m \in Recs /\ m.seq = r.seq /\ m.ulid = u
    BY <2>2, NewStatus, Statuses DEF Acknowledged
  <2>4. /\ kept' = [msgs |-> disk, cursor |-> kept.cursor', lastSeq |-> kept.lastSeq']
        /\ kept.msgs' = disk
    BY <2>1 DEF StoreInv
  <2>5. DOMAIN ms = {at} /\ ms[at] = m
    OBVIOUS
  <2> HIDE DEF m, disk, ms, at
  <2>6. /\ MayWrite(m, kept.msgs, seqOf)
        /\ m.seq # at => m.seq = seqOf[m.ulid] /\ seqOf[m.ulid] > 0
    BY <1>2, <2>2, <2>3, InMemory
  <2>7. Writes(kept.msgs, disk, seqOf)
    BY <2>6, PutWrites DEF disk
  <2>8. Sound(store, disk, seqOf)
    BY <2>7, BeforeStore
  <2>9. /\ Sound(store', disk, seqOf)
        /\ Filed(store) /\ m.seq = at => Filed(store')
    <3>1. \A n \in DOMAIN ms :
              /\ ms[n] \in Recs /\ ms[n].ulid = store.map[n].ulid
              /\ ms[n].seq # n => ms[n].seq = seqOf[ms[n].ulid] /\ seqOf[ms[n].ulid] > 0
      BY <2>2, <2>3, <2>5, <2>6
    <3>2. DOMAIN ms \subseteq DOMAIN store.map
      BY <2>2, <2>5
    <3>3. /\ Sound(PatchAll(store, ms), disk, seqOf)
          /\ Filed(store) /\ (\A n \in DOMAIN ms : ms[n].seq = n) => Filed(PatchAll(store, ms))
      BY <2>8, <3>1, <3>2, PatchKeeps
    <3> QED
      BY <2>1, <2>5, <3>3
  <2>10. ~renumbered' => Filed(store')
    BY <1>1, <2>2, <2>3, <2>9 DEF StoreInv
  <2>11. StoreInv' /\ Created' = Created /\ Extends(kept.msgs', kept.msgs)
    BY <1>1, <1>2, <1>3, <2>4, <2>7, <2>9, <2>10, AfterWrites
  <2>12. ASSUME NEW n \in DOMAIN disk, n >= Now
         PROVE  /\ n \in DOMAIN kept.msgs /\ disk[n].ulid = kept.msgs[n].ulid
                /\ disk[n] = kept.msgs[n] \/ disk[n].ulid = u
    <3>1. n # m.seq => n \in DOMAIN kept.msgs /\ disk[n] = kept.msgs[n]
      BY DEF disk, Put
    <3>2. CASE n = m.seq
      <4>1. m.seq = at
        BY <1>1, <1>2, <2>3, <2>6, <2>12, <3>2, NowAbove DEF Own, Ulids
      <4>2. disk[n] = m
        BY <3>2 DEF disk, Put
      <4> QED
        BY <2>2, <2>3, <3>2, <4>1, <4>2
    <3> QED
      BY <3>1, <3>2
  <2> QED
    BY <2>4, <2>11, <2>12
<1>5. CASE ~Shown(u)
  <2>1. kept' = [kept EXCEPT !.lastSeq = seqOf[u]] /\ store' = store
    BY <1>5 DEF Ack
  <2>2. /\ kept' = [msgs |-> kept.msgs, cursor |-> kept.cursor', lastSeq |-> kept.lastSeq']
        /\ kept.msgs' = kept.msgs
    BY <2>1 DEF StoreInv
  <2>3. Writes(kept.msgs, kept.msgs, seqOf)
    BY NoWrites
  <2>4. ~renumbered' => Filed(store')
    BY <1>1, <2>1 DEF StoreInv
  <2>5. StoreInv' /\ Created' = Created /\ Extends(kept.msgs', kept.msgs)
    BY <1>1, <1>2, <1>3, <2>1, <2>2, <2>3, <2>4, AfterWrites
  <2> QED
    BY <2>2, <2>5
<1> QED
  BY <1>4, <1>5

\* A receipt: pending numbers are above every number it names.
LEMMA ReceiptKeeps ==
    ASSUME StoreInv, NEW n \in 1..Counter, NEW status \in {"delivered", "read"},
           Receipt(n, status)
    PROVE  /\ StoreInv' /\ Created' = Created /\ Extends(kept.msgs', kept.msgs)
           /\ \A k \in DOMAIN kept.msgs' :
                  k >= Now => k \in DOMAIN kept.msgs /\ kept.msgs'[k] = kept.msgs[k]
<1> DEFINE arr == store.arr
           walked == {i \in 1..Len(arr) : \A j \in 1..i : arr[j].seq <= n}
           raised == {i \in walked : arr[i].ulid \in Own /\ Rank[arr[i].status] < Rank[status]}
           ms == [k \in {arr[i].seq : i \in raised} \cap DOMAIN store.map |->
                     [store.map[k] EXCEPT !.status = status]]
           disk == PutAll(kept.msgs, ms)
<1>1. /\ store' = PatchAll(store, ms) /\ kept' = [kept EXCEPT !.msgs = disk]
      /\ UNCHANGED <<seqOf, shownLast, queue, pending, drawn, acked, lapsed, renumbered,
                     pageLoads>>
  BY DEF Receipt
<1>2. /\ RestTyped /\ pending \in Nat /\ Sound(store, kept.msgs, seqOf)
      /\ \A v \in Ulids : seqOf[v] \in Nat /\ seqOf[v] < Now
      /\ Counter \in Nat /\ Counter < Now
  BY InvParts
<1>3. \A i \in walked : arr[i].seq <= n
  <2>1. Len(arr) \in Nat
    BY <1>2 DEF Sound, StoreTyped
  <2>2. \A i \in 1..Len(arr) : i \in 1..i
    BY <2>1
  <2> QED
    BY <2>2
<1>4. \A k \in DOMAIN ms : /\ k \in DOMAIN store.map /\ k <= n
                           /\ ms[k] = [store.map[k] EXCEPT !.status = status]
  BY <1>3
<1> HIDE DEF ms, disk, walked, raised
<1>5. \A k \in DOMAIN store.map : k \in Int /\ store.map[k] \in Recs
  BY <1>2 DEF Sound, StoreTyped
<1>6. \A k \in DOMAIN ms : /\ ms[k] \in Recs /\ ms[k].ulid = store.map[k].ulid
                           /\ ms[k].seq = store.map[k].seq
  <2>1. status \in DOMAIN Rank
    BY Statuses
  <2>2. ASSUME NEW k \in DOMAIN ms
        PROVE  /\ ms[k] \in Recs /\ ms[k].ulid = store.map[k].ulid
               /\ ms[k].seq = store.map[k].seq
    <3> DEFINE r == store.map[k]
    <3>1. r \in Recs /\ ms[k] = [r EXCEPT !.status = status]
      BY <1>4, <1>5
    <3> HIDE DEF r
    <3>2. ms[k] \in Recs /\ ms[k].ulid = r.ulid /\ ms[k].seq = r.seq
      BY <2>1, <3>1, NewStatus
    <3> QED
      BY <3>2 DEF r
  <2> QED
    BY <2>2
<1>7. \A k \in DOMAIN ms : /\ MayWrite(ms[k], kept.msgs, seqOf)
                           /\ ms[k].seq # k => /\ ms[k].seq = seqOf[ms[k].ulid]
                                               /\ seqOf[ms[k].ulid] > 0
  BY <1>2, <1>4, <1>6, InMemory
<1>8. \A k \in DOMAIN ms : ~(ms[k].seq >= Now)
  <2>1. \A k \in DOMAIN ms : ms[k].ulid \in Ulids /\ ms[k].seq \in Int /\ k \in Int
    BY <1>4, <1>5, <1>6, RecTyped
  <2>2. \A k \in DOMAIN ms : k < Now
    BY <1>2, <1>4, <2>1, NowAbove
  <2> QED
    BY <1>2, <1>7, <2>1, <2>2, NowAbove
<1>9. /\ Writes(kept.msgs, disk, seqOf)
      /\ \A k \in DOMAIN disk : \/ k \in DOMAIN kept.msgs /\ disk[k] = kept.msgs[k]
                                \/ \E j \in DOMAIN ms : disk[k] = ms[j] /\ ms[j].seq = k
  <2>1. MayWriteAll(ms, kept.msgs, seqOf)
    BY <1>7 DEF MayWriteAll
  <2> QED
    BY <2>1, PutAllWrites DEF disk
<1>10. /\ kept' = [msgs |-> disk, cursor |-> kept.cursor', lastSeq |-> kept.lastSeq']
       /\ kept.msgs' = disk
  BY <1>1 DEF StoreInv
<1>11. Sound(store, disk, seqOf)
  BY <1>9, BeforeStore
<1>12. /\ Sound(store', disk, seqOf)
       /\ Filed(store) /\ (\A k \in DOMAIN ms : ms[k].seq = k) => Filed(store')
  <2>1. DOMAIN ms \subseteq DOMAIN store.map
    BY <1>4
  <2> QED
    BY <1>1, <1>6, <1>7, <1>11, <2>1, PatchKeeps
<1>13. ~renumbered' => Filed(store')
  <2> SUFFICES ASSUME ~renumbered PROVE Filed(store')
    BY <1>1
  <2>1. Filed(store)
    BY DEF StoreInv
  <2>2. \A k \in DOMAIN ms : ms[k].seq = k
    BY <1>4, <1>6, <2>1 DEF Filed, Listed
  <2> QED
    BY <1>12, <2>1, <2>2
<1>14. RestTyped'
  BY <1>1, <1>2 DEF RestTyped
<1>15. StoreInv' /\ Created' = Created /\ Extends(kept.msgs', kept.msgs)
  BY <1>1, <1>2, <1>9, <1>10, <1>12, <1>13, <1>14, AfterWrites
<1> QED
  BY <1>8, <1>9, <1>10, <1>15

\* A page of the backfill: records under the server's numbers.
LEMMA GapPageKeeps ==
    ASSUME StoreInv, NEW from \in 0..Counter, GapPage(from)
    PROVE  /\ StoreInv' /\ Created' = Created /\ Extends(kept.msgs', kept.msgs)
           /\ \A n \in DOMAIN kept.msgs' :
                  n >= Now => n \in DOMAIN kept.msgs /\ kept.msgs'[n] = kept.msgs[n]
<1> DEFINE ms == PageAbove(from)
           disk == PutAll(kept.msgs, ms)
<1>1. /\ store' = InsertAll(store, ms, Counter) /\ kept' = [kept EXCEPT !.msgs = disk]
      /\ UNCHANGED <<seqOf, shownLast, queue, pending, drawn, acked, lapsed, renumbered,
                     pageLoads>>
  BY DEF GapPage
<1>2. /\ RestTyped /\ pending \in Nat /\ Sound(store, kept.msgs, seqOf)
      /\ \A v \in Ulids : seqOf[v] \in Nat /\ seqOf[v] < Now
      /\ Counter \in Nat /\ Counter < Now
  BY InvParts
<1>3. ASSUME NEW n \in DOMAIN ms
      PROVE  /\ ms[n] \in Recs /\ ms[n].seq = n /\ ms[n].ulid \in Ulids
             /\ n = seqOf[ms[n].ulid] /\ n \in Nat /\ n > 0 /\ n < Now
  <2> DEFINE u == CHOOSE v \in Ulids : seqOf[v] = n
             s == IF u \in Own THEN "sent" ELSE "received"
  <2>1. n \in {seqOf[v] : v \in Ulids} \ 0..from /\ ms[n] = Rec(u, n, s)
    BY DEF PageAbove
  <2>2. u \in Ulids /\ seqOf[u] = n
    BY <2>1
  <2>3. s \in DOMAIN Rank
    BY Statuses
  <2> HIDE DEF u, s, ms
  <2>4. n \in Nat /\ n > 0 /\ n < Now
    BY <1>2, <2>1, <2>2
  <2> QED
    BY <2>1, <2>2, <2>3, <2>4 DEF Rec, Recs
<1> HIDE DEF ms, disk
<1>4. MayWriteAll(ms, kept.msgs, seqOf)
  BY <1>3 DEF MayWriteAll, MayWrite
<1>5. /\ Writes(kept.msgs, disk, seqOf)
      /\ \A k \in DOMAIN ms : ms[k].seq \in DOMAIN disk
      /\ \A k \in DOMAIN disk : \/ k \in DOMAIN kept.msgs /\ disk[k] = kept.msgs[k]
                                \/ \E j \in DOMAIN ms : disk[k] = ms[j] /\ ms[j].seq = k
  BY <1>4, PutAllWrites DEF disk
<1>6. /\ kept' = [msgs |-> disk, cursor |-> kept.cursor', lastSeq |-> kept.lastSeq']
      /\ kept.msgs' = disk
  BY <1>1 DEF StoreInv
<1>7. Sound(store, disk, seqOf)
  BY <1>5, BeforeStore
<1>8. ASSUME NEW n \in DOMAIN ms PROVE disk[n].ulid = ms[n].ulid
  <2>1. n \in DOMAIN disk
    BY <1>3, <1>5
  <2>2. CASE \E j \in DOMAIN ms : disk[n] = ms[j] /\ ms[j].seq = n
    BY <1>3, <2>2
  <2>3. CASE n \in DOMAIN kept.msgs /\ disk[n] = kept.msgs[n]
    <3>1. seqOf[kept.msgs[n].ulid] = n /\ kept.msgs[n].ulid \in Ulids
      BY <1>3, <2>3, InvParts, RecTyped DEF Known
    <3>2. Numbered(seqOf)
      BY InvParts
    <3> QED
      BY <1>3, <2>3, <3>1, <3>2 DEF Numbered
  <2> QED
    BY <1>5, <2>1, <2>2, <2>3
<1>9. \A n \in DOMAIN ms \cap 1..Counter :
          ms[n] \in Recs /\ ms[n].seq \in DOMAIN disk /\ disk[ms[n].seq].ulid = ms[n].ulid
  BY <1>3, <1>5, <1>8
<1>10. Sound(store', disk, seqOf) /\ (Filed(store) => Filed(store'))
  BY <1>1, <1>2, <1>7, <1>9, InsertAllKeeps
<1>11. RestTyped' /\ (~renumbered' => Filed(store'))
  BY <1>1, <1>2, <1>10 DEF RestTyped, StoreInv
<1>12. StoreInv' /\ Created' = Created /\ Extends(kept.msgs', kept.msgs)
  BY <1>1, <1>2, <1>5, <1>6, <1>10, <1>11, AfterWrites
<1>13. \A k \in DOMAIN disk : k >= Now => k \in DOMAIN kept.msgs /\ disk[k] = kept.msgs[k]
  <2>1. \A j \in DOMAIN ms : ~(ms[j].seq >= Now)
    BY <1>3, NowAbove
  <2> QED
    BY <1>5, <2>1
<1> QED
  BY <1>6, <1>12, <1>13

\* What is read back is what was written, each record under its number.
LEMMA StoredRecords ==
    ASSUME StoreInv
    PROVE  /\ \A n \in DOMAIN Stored : /\ n \in DOMAIN kept.msgs /\ Stored[n] = kept.msgs[n]
                                       /\ n \in Int /\ n >= 0
                                       /\ Stored[n] \in Recs /\ Stored[n].seq = n
           /\ \A n \in DOMAIN kept.msgs : n >= 0 => n \in DOMAIN Stored
           /\ \A n \in Unsent : Stored[n].ulid \in Own /\ n \in DOMAIN Stored
<1>1. /\ DOMAIN kept.msgs \subseteq Int
      /\ \A n \in DOMAIN kept.msgs : kept.msgs[n] \in Recs /\ kept.msgs[n].seq = n
  BY InvParts DEF Known
<1>2. /\ DOMAIN Stored = {n \in DOMAIN kept.msgs : n >= 0}
      /\ \A n \in DOMAIN Stored : Stored[n] = kept.msgs[n]
  BY DEF Stored, Restrict
<1> QED
  BY <1>1, <1>2 DEF Unsent, Own

\* A reload: the store is built again from the disk, which does not change.
LEMMA ReloadKeeps ==
    ASSUME StoreInv, ReloadPage
    PROVE  StoreInv' /\ Created' = Created /\ kept.msgs' = kept.msgs
<1>1. /\ pageLoads < MaxPageLoads /\ pageLoads' = pageLoads + 1
      /\ store' = InsertAll(EmptyStore, Stored, pending)
      /\ queue' = Requeued(Stored, Unsent, pending)
      /\ pending' = pending + 1 /\ drawn' = 0 /\ renumbered' = FALSE
      /\ seqOf' = seqOf /\ kept' = kept /\ acked' = acked /\ lapsed' = lapsed
  BY DEF ReloadPage
<1>2. /\ RestTyped /\ pending \in Nat /\ Now \in Nat \ {0} /\ MaxPageLoads \in Nat
  BY InvParts, NowAbove, StoreAssumption DEF StoreParametersOK
<1>3. Sound(EmptyStore, kept.msgs, seqOf) /\ Filed(EmptyStore)
  BY EmptySound
<1>4. \A n \in DOMAIN Stored \cap 1..pending :
          /\ Stored[n] \in Recs /\ Stored[n].seq \in DOMAIN kept.msgs
          /\ kept.msgs[Stored[n].seq].ulid = Stored[n].ulid
  BY StoredRecords
<1>5. Sound(store', kept.msgs, seqOf) /\ Filed(store')
  BY <1>1, <1>2, <1>3, <1>4, InsertAllKeeps
<1>6. Queues(queue')
  <2>1. \A n \in Unsent : Stored[n].ulid \in Own
    BY StoredRecords
  <2> QED
    BY <1>1, <1>2, <2>1, RequeueEnds
<1>7. RestTyped'
  <2>1. renumbered' \in BOOLEAN
    BY <1>1
  <2>2. /\ acked' \subseteq Own /\ lapsed' \subseteq Texts /\ drawn' \in Nat /\ pending' \in Nat
        /\ pageLoads' \in 0..MaxPageLoads
    BY <1>1, <1>2 DEF RestTyped
  <2> QED
    BY <1>6, <2>1, <2>2 DEF RestTyped
<1>8. /\ kept' = [msgs |-> kept.msgs, cursor |-> kept.cursor', lastSeq |-> kept.lastSeq']
      /\ kept.msgs' = kept.msgs
  BY <1>1 DEF StoreInv
<1>9. Writes(kept.msgs, kept.msgs, seqOf) /\ pending' >= pending
  BY <1>1, <1>2, NoWrites
<1> QED
  BY <1>1, <1>5, <1>7, <1>8, <1>9, AfterWrites

\* A drain: the queue gets shorter, the records stay.
LEMMA DrainKeeps ==
    ASSUME StoreInv, Drain
    PROVE  StoreInv' /\ Created' = Created /\ kept.msgs' = kept.msgs
<1>1. UNCHANGED <<seqOf, store, shownLast, pending, kept, drawn, acked, renumbered, pageLoads>>
  BY DEF Drain
<1>2. PICK old \in SUBSET Range(queue) :
          lapsed' = lapsed \cup (old \cap Texts) /\ queue' = Live(queue, old)
  BY DEF Drain
<1>3. /\ kept' = [msgs |-> kept.msgs, cursor |-> kept.cursor', lastSeq |-> kept.lastSeq']
      /\ kept.msgs' = kept.msgs
  BY <1>1 DEF StoreInv
<1>4. RestTyped /\ Sound(store, kept.msgs, seqOf) /\ (~renumbered => Filed(store))
      /\ pending \in Nat
  BY InvParts DEF StoreInv
<1>5. RestTyped'
  <2>1. Queues(queue) /\ lapsed' \subseteq Texts
    BY <1>2, <1>4 DEF RestTyped
  <2>2. Queues(queue')
    BY <1>2, <2>1, LiveEnds, FS_EmptySet
  <2>3. /\ acked' = acked /\ drawn' = drawn /\ pending' = pending /\ renumbered' = renumbered
        /\ pageLoads' = pageLoads
    BY <1>1
  <2> QED
    BY <1>4, <2>1, <2>2, <2>3 DEF RestTyped
<1>6. Writes(kept.msgs, kept.msgs, seqOf) /\ pending' >= pending
  BY <1>1, <1>4, NoWrites
<1>7. Sound(store', kept.msgs, seqOf) /\ (~renumbered' => Filed(store'))
  BY <1>1, <1>4
<1> QED
  BY <1>1, <1>3, <1>5, <1>6, <1>7, AfterWrites

\* A message is stored: its number is new, and the client has none under it.
LEMMA ServerStoresKeeps ==
    ASSUME StoreInv, NEW u \in Ulids, ServerStores(u)
    PROVE  StoreInv' /\ Created' = Created /\ kept.msgs' = kept.msgs
<1>1. /\ seqOf[u] = 0 /\ u \in Theirs \cup Created
      /\ seqOf' = [seqOf EXCEPT ![u] = Counter + 1]
      /\ UNCHANGED <<store, shownLast, queue, pending, kept, drawn, acked, lapsed,
                     renumbered, pageLoads>>
  BY DEF ServerStores
<1>2. /\ RestTyped /\ Numbered(seqOf) /\ Sound(store, kept.msgs, seqOf)
      /\ Known(kept.msgs, seqOf, pending, Cardinality(Created))
      /\ \A v \in Ulids : seqOf[v] \in Nat /\ seqOf[v] < Now /\ seqOf[v] <= Counter
      /\ \A v \in Own : seqOf[v] > 0 => v \in Created
      /\ Counter \in Nat /\ pending >= Now
  BY InvParts
<1>3. /\ DOMAIN seqOf = Ulids /\ seqOf'[u] = Counter + 1
      /\ \A v \in Ulids : v # u => seqOf'[v] = seqOf[v]
  BY <1>1, <1>2 DEF Numbered
<1>4. Counter' = Counter + 1
  <2> DEFINE S == {v \in Ulids : seqOf[v] > 0}
  <2>1. IsFiniteSet(S) /\ u \notin S
    <3>1. S \in SUBSET Ulids
      OBVIOUS
    <3> HIDE DEF S
    <3>2. IsFiniteSet(S)
      BY <3>1, NowAbove, FS_Subset
    <3> QED
      BY <1>1, <3>2 DEF S
  <2>2. {v \in Ulids : seqOf'[v] > 0} = S \cup {u}
    BY <1>2, <1>3
  <2>3. Counter' = Cardinality(S \cup {u}) /\ Counter = Cardinality(S)
    BY <2>2 DEF Counter
  <2> HIDE DEF S
  <2> QED
    BY <2>1, <2>3, FS_AddElement
<1>5. Counter + 1 <= Cardinality(Ulids)
  <2>1. {v \in Ulids : seqOf'[v] > 0} \in SUBSET Ulids
    OBVIOUS
  <2>2. Counter' <= Cardinality(Ulids)
    BY <2>1, NowAbove, FS_Subset DEF Counter
  <2> QED
    BY <1>4, <2>2
<1>6. \A v \in Ulids : seqOf'[v] \in 0..Cardinality(Ulids) /\ seqOf'[v] <= Counter'
  <2> HIDE DEF Counter
  <2>1. seqOf'[u] \in 0..Cardinality(Ulids) /\ seqOf'[u] <= Counter'
    BY <1>2, <1>3, <1>4, <1>5, NowAbove
  <2>2. \A v \in Ulids : v # u => seqOf'[v] \in 0..Cardinality(Ulids) /\ seqOf'[v] <= Counter'
    BY <1>2, <1>3, <1>4, NowAbove DEF Numbered
  <2> QED
    BY <2>1, <2>2
<1>7. Numbered(seqOf')
  <2>1. seqOf' \in [Ulids -> 0..Cardinality(Ulids)]
    BY <1>1, <1>3, <1>6
  <2>2. \A v, w \in Ulids : seqOf'[v] > 0 /\ seqOf'[v] = seqOf'[w] => v = w
    <3>1. \A v \in Ulids : v # u => seqOf'[v] # seqOf'[u]
      BY <1>2, <1>3
    <3>2. \A v, w \in Ulids : v # u /\ w # u /\ seqOf'[v] > 0 /\ seqOf'[v] = seqOf'[w] => v = w
      BY <1>2, <1>3 DEF Numbered
    <3> QED
      BY <3>1, <3>2
  <2> QED
    BY <2>1, <2>2 DEF Numbered
<1>8. \A v \in Ulids : seqOf[v] > 0 => seqOf'[v] = seqOf[v]
  BY <1>1, <1>3
<1>9. kept' = kept /\ pending' = pending /\ store' = store /\ renumbered' = renumbered
      /\ kept.msgs' = kept.msgs
  BY <1>1
<1>10. Created' = Created
  BY <1>9 DEF Created
<1>11. Known(kept.msgs, seqOf', pending, Cardinality(Created))
  <2>1. \A n \in DOMAIN kept.msgs : kept.msgs[n].ulid \in Ulids
    BY <1>2, RecTyped DEF Known
  <2> QED
    BY <1>2, <1>8, <2>1 DEF Known
<1>12. Sound(store, kept.msgs, seqOf')
  <2>1. Extends(kept.msgs, kept.msgs)
    BY DEF Extends
  <2> QED
    BY <1>2, <1>8, <2>1, SoundLater
<1>13. RestTyped'
  BY <1>1, <1>2 DEF RestTyped
<1>14. \A v \in Own : seqOf'[v] > 0 => v \in Created
  <2>1. u \in Own => u \in Created
    BY <1>1, StoreAssumption DEF StoreParametersOK, Own
  <2> QED
    BY <1>2, <1>3, <2>1 DEF Ulids
<1>15. kept' = [msgs |-> kept.msgs', cursor |-> kept.cursor', lastSeq |-> kept.lastSeq']
       /\ (~renumbered' => Filed(store'))
  BY <1>9 DEF StoreInv
<1>16. /\ Known(kept.msgs', seqOf', pending', Cardinality(Created'))
       /\ Sound(store', kept.msgs', seqOf') /\ pending' >= Now
       /\ \A v \in Own : seqOf'[v] > 0 => v \in Created'
  BY <1>2, <1>9, <1>10, <1>11, <1>12, <1>14
<1>17. StoreInv'
  BY <1>6, <1>7, <1>13, <1>15, <1>16, Assembles
<1> QED
  BY <1>9, <1>10, <1>17

\* A text is sent: its record gets a pending number nothing else has.
LEMMA SendMessageKeeps ==
    ASSUME StoreInv, NEW u \in Own, SendMessage(u)
    PROVE  /\ StoreInv' /\ Created' = Created \cup {u} /\ u \in Texts \ Created
           /\ kept.msgs' = Put(kept.msgs, pending, Rec(u, pending, "pending"))
           /\ pending \notin DOMAIN kept.msgs
<1>1. /\ u \in Texts \ Created /\ InsertNew(Rec(u, pending, "pending"))
      /\ pending' = pending + 1 /\ queue' = Push(queue, u)
      /\ UNCHANGED <<seqOf, shownLast, drawn, acked, lapsed, renumbered, pageLoads>>
  BY DEF SendMessage
<1>2. RestTyped /\ pending \in Nat
  BY InvParts
<1>3. RestTyped'
  <2>1. Queues(queue')
    BY <1>1, <1>2, Pushing DEF RestTyped
  <2> QED
    BY <1>1, <1>2, <2>1 DEF RestTyped
<1>4. pending \in Int /\ pending' >= pending /\ pending' > pending
  BY <1>1, <1>2
<1>5. StoreInv' /\ Created' = Created \cup {u} /\ pending \notin DOMAIN kept.msgs
  BY <1>1, <1>3, <1>4, NewRecord
<1>6. kept.msgs' = Put(kept.msgs, pending, Rec(u, pending, "pending"))
  <2>1. Rec(u, pending, "pending").seq = pending
    BY DEF Rec
  <2> QED
    BY <1>1, <2>1 DEF InsertNew, StoreInv
<1> QED
  BY <1>1, <1>5, <1>6

\* An attachment is sent: its record gets a negative number nothing else has.
LEMMA SendAttachmentKeeps ==
    ASSUME StoreInv, NEW u \in Own, SendAttachment(u)
    PROVE  /\ StoreInv' /\ Created' = Created \cup {u} /\ u \in Attachments \ Created
           /\ \A n \in DOMAIN kept.msgs' :
                  n >= Now => n \in DOMAIN kept.msgs /\ kept.msgs'[n] = kept.msgs[n]
           /\ \A n \in DOMAIN kept.msgs : n \in DOMAIN kept.msgs' /\ kept.msgs'[n] = kept.msgs[n]
<1> DEFINE at == -(Now + Cardinality(Created))
<1>1. /\ u \in Attachments \ Created /\ InsertNew(Rec(u, at, "pending"))
      /\ queue' = Push(queue, u)
      /\ UNCHANGED <<seqOf, shownLast, pending, drawn, acked, lapsed, renumbered, pageLoads>>
  BY DEF SendAttachment
<1>2. RestTyped /\ pending \in Nat /\ Cardinality(Created) \in Nat /\ Now \in Nat /\ Now > 0
  BY InvParts, NowAbove
<1>3. RestTyped'
  <2>1. Queues(queue')
    BY <1>1, <1>2, Pushing DEF RestTyped
  <2> QED
    BY <1>1, <1>2, <2>1 DEF RestTyped
<1>4. at \in Int /\ ~(at >= Now) /\ pending' >= pending
  BY <1>1, <1>2
<1>5. StoreInv' /\ Created' = Created \cup {u} /\ at \notin DOMAIN kept.msgs
  BY <1>1, <1>3, <1>4, NewRecord
<1> HIDE DEF at
<1>6. kept.msgs' = Put(kept.msgs, at, Rec(u, at, "pending"))
  <2>1. Rec(u, at, "pending").seq = at
    BY DEF Rec
  <2> QED
    BY <1>1, <2>1 DEF InsertNew, StoreInv
<1>7. /\ \A n \in DOMAIN kept.msgs' :
           n = at \/ (n \in DOMAIN kept.msgs /\ kept.msgs'[n] = kept.msgs[n])
      /\ \A n \in DOMAIN kept.msgs : n \in DOMAIN kept.msgs' /\ kept.msgs'[n] = kept.msgs[n]
  BY <1>5, <1>6 DEF Put
<1> QED
  BY <1>1, <1>4, <1>5, <1>7

\* The steps of the store, one by one.
LEMMA StoreSteps ==
    ASSUME StoreNext
    PROVE  \/ \E u \in Own : SendMessage(u)
           \/ \E u \in Own : SendAttachment(u)
           \/ ReadEffect
           \/ ReloadPage
           \/ Drain
           \/ \E u \in Ulids : Ack(u)
           \/ \E u \in Ulids : Msg(u)
           \/ \E u \in Ulids : Expired(u)
           \/ \E n \in 1..Counter, status \in {"delivered", "read"} : Receipt(n, status)
           \/ \E from \in 0..Counter : GapPage(from)
           \/ \E u \in Ulids : ServerStores(u)
<1>1. CASE User
  BY <1>1 DEF User
<1>2. CASE Frames
  BY <1>2 DEF Frames
<1>3. CASE \E u \in Ulids : ServerStores(u)
  BY <1>3
<1> QED
  BY <1>1, <1>2, <1>3 DEF StoreNext

\* Every step keeps the invariant.
LEMMA StoreStep == StoreInv /\ [StoreNext]_storeVars => StoreInv'
<1> SUFFICES ASSUME StoreInv, [StoreNext]_storeVars PROVE StoreInv'
  OBVIOUS
<1>1. CASE UNCHANGED storeVars
  BY <1>1 DEF storeVars, StoreInv, StoreTypeOK, Counter, Created
<1>2. ASSUME NEW u \in Own, SendMessage(u) PROVE StoreInv'
  BY <1>2, SendMessageKeeps
<1>3. ASSUME NEW u \in Own, SendAttachment(u) PROVE StoreInv'
  BY <1>3, SendAttachmentKeeps
<1>4. CASE ReadEffect
  BY <1>4, ReadEffectKeeps
<1>5. CASE ReloadPage
  BY <1>5, ReloadKeeps
<1>6. ASSUME NEW u \in Ulids, Ack(u) PROVE StoreInv'
  BY <1>6, AckKeeps
<1>7. ASSUME NEW u \in Ulids, Msg(u) PROVE StoreInv'
  BY <1>7, MsgKeeps
<1>8. ASSUME NEW u \in Ulids, Expired(u) PROVE StoreInv'
  BY <1>8, ExpiredKeeps
<1>9. ASSUME NEW n \in 1..Counter, NEW status \in {"delivered", "read"}, Receipt(n, status)
      PROVE  StoreInv'
  BY <1>9, ReceiptKeeps
<1>10. ASSUME NEW from \in 0..Counter, GapPage(from) PROVE StoreInv'
  BY <1>10, GapPageKeeps
<1>11. ASSUME NEW u \in Ulids, ServerStores(u) PROVE StoreInv'
  BY <1>11, ServerStoresKeeps
<1>12. CASE Drain
  BY <1>12, DrainKeeps
<1>13. StoreNext \/ UNCHANGED storeVars
  OBVIOUS
<1> QED
  BY <1>1, <1>2, <1>3, <1>4, <1>5, <1>6, <1>7, <1>8, <1>9, <1>10, <1>11, <1>12, <1>13, StoreSteps

\* Every variable keeps its type, and the queue never holds more than its capacity
\* (sdk/OutQueue.js:20-27).
THEOREM StoreTypeCorrect == StoreSpec => []StoreTypeOK
<1>1. StoreInv => StoreTypeOK
  BY DEF StoreInv
<1> QED
  BY <1>1, StoreStarts, StoreStep, PTL DEF StoreSpec

\* Whatever the order in which frames, pages of the backfill, sends and reloads come, the map, the
\* index and the array of a conversation agree until an EXPIRED changes the number in a record that
\* is kept under another: each message is in the list once, in its place (SyncClient.js:634-669).
THEOREM StoreStaysOne == StoreSpec => []StoreConsistent
<1>1. StoreInv => StoreConsistent
  <2> SUFFICES ASSUME StoreInv, ~renumbered PROVE Consistent(store)
    BY DEF StoreConsistent
  <2>1. /\ Listed(store.map, store.arr)
        /\ \A n \in DOMAIN store.map : /\ store.map[n].ulid \in DOMAIN store.idx
                                       /\ store.idx[store.map[n].ulid] = n
        /\ \A u \in DOMAIN store.idx : store.idx[u] \in DOMAIN store.map
    BY DEF StoreInv, Filed
  <2>2. /\ \A n \in DOMAIN store.map : kept.msgs[n].ulid = store.map[n].ulid
        /\ \A u \in DOMAIN store.idx : kept.msgs[store.idx[u]].ulid = u
    BY DEF StoreInv, Sound, Agrees
  <2>3. \A u \in DOMAIN store.idx :
          store.idx[u] \in DOMAIN store.map /\ store.map[store.idx[u]].ulid = u
    BY <2>1, <2>2
  <2>4. /\ \A i, j \in 1..Len(store.arr) : i < j => store.arr[i].seq < store.arr[j].seq
        /\ \A i \in 1..Len(store.arr) : store.arr[i].seq \in DOMAIN store.map
        /\ \A i \in 1..Len(store.arr) : store.arr[i] = store.map[store.arr[i].seq]
        /\ \A n \in DOMAIN store.map : \E i \in 1..Len(store.arr) : store.arr[i].seq = n
        /\ \A n \in DOMAIN store.map : store.map[n].seq = n
    BY <2>1 DEF Listed, Rising
  <2>5. \A n \in DOMAIN store.map : \E i \in 1..Len(store.arr) : store.arr[i] = store.map[n]
    BY <2>4
  <2> QED
    BY <2>1, <2>3, <2>4, <2>5 DEF Consistent
<1> QED
  BY <1>1, StoreStarts, StoreStep, PTL DEF StoreSpec

-----------------------------------------------------------------------------
(***************************************************************************)
(* The queue and the disk                                                  *)
(***************************************************************************)

\* A text keeps one record under the number it was shown with, which is pending until the ACK; and
\* the queue ends with what is not acknowledged.  The queue may have a text twice: after a reload
\* also for the record its MSG frame has written under the server's number.
QueuedInv ==
    /\ \A n \in DOMAIN kept.msgs :
           n >= Now => kept.msgs[n].status = "pending" \/ kept.msgs[n].ulid \in acked
    /\ \A m, n \in DOMAIN kept.msgs :
           m >= Now /\ n >= Now /\ kept.msgs[m].ulid = kept.msgs[n].ulid => m = n
    /\ \A u \in Created \cap Texts : \E n \in DOMAIN kept.msgs : n >= Now /\ kept.msgs[n].ulid = u
    /\ Cardinality(Created) <= QueueMax =>
           \E T \in SUBSET Created : (Created \cap Texts) \ (acked \cup lapsed) \subseteq T /\ EndsWith(queue, T)

\* Nothing is queued and nothing was sent at the start.
LEMMA QueuedStarts == StoreInit => QueuedInv
<1> SUFFICES ASSUME StoreInit PROVE QueuedInv
  OBVIOUS
<1>1. kept.msgs = << >> /\ queue = << >>
  BY DEF StoreInit
<1>2. DOMAIN kept.msgs = {}
  BY <1>1
<1>3. Created = {}
  BY <1>2 DEF Created
<1>4. EndsWith(queue, {})
  <2>1. Queues(queue)
    BY StoreStarts, InvParts DEF RestTyped
  <2> QED
    BY <2>1, NothingLast
<1> QED
  BY <1>2, <1>3, <1>4 DEF QueuedInv

\* Nothing new is sent, and what changes among the records above Date.now() is acknowledged.
LEMMA QueuedAfter ==
    ASSUME StoreInv, QueuedInv, Created' = Created, Extends(kept.msgs', kept.msgs),
           acked \subseteq acked',
           \A n \in DOMAIN kept.msgs' :
               n >= Now => /\ n \in DOMAIN kept.msgs /\ kept.msgs'[n].ulid = kept.msgs[n].ulid
                           /\ kept.msgs'[n] = kept.msgs[n] \/ kept.msgs'[n].ulid \in acked',
           Cardinality(Created) <= QueueMax =>
               \E T \in SUBSET Created :
                   (Created \cap Texts) \ (acked' \cup lapsed') \subseteq T /\ EndsWith(queue', T)
    PROVE  QueuedInv'
<1>1. \A n \in DOMAIN kept.msgs' :
          n >= Now => kept.msgs'[n].status = "pending" \/ kept.msgs'[n].ulid \in acked'
  BY DEF QueuedInv
<1>2. \A m, n \in DOMAIN kept.msgs' :
          m >= Now /\ n >= Now /\ kept.msgs'[m].ulid = kept.msgs'[n].ulid => m = n
  BY DEF QueuedInv
<1>3. \A u \in Created \cap Texts :
          \E n \in DOMAIN kept.msgs' : n >= Now /\ kept.msgs'[n].ulid = u
  BY DEF QueuedInv, Extends
<1> QED
  BY <1>1, <1>2, <1>3 DEF QueuedInv

\* A step that leaves the queue and the pending records alone keeps the invariant.
LEMMA QueuedSame ==
    ASSUME StoreInv, QueuedInv, Created' = Created, Extends(kept.msgs', kept.msgs),
           acked' = acked, lapsed' = lapsed, queue' = queue,
           \A n \in DOMAIN kept.msgs' :
               n >= Now => n \in DOMAIN kept.msgs /\ kept.msgs'[n] = kept.msgs[n]
    PROVE  QueuedInv'
<1>1. Cardinality(Created) <= QueueMax =>
          \E T \in SUBSET Created :
              (Created \cap Texts) \ (acked' \cup lapsed') \subseteq T /\ EndsWith(queue', T)
  BY DEF QueuedInv
<1> QED
  BY <1>1, QueuedAfter

\* A send that fits puts its ulid behind those the queue ends with.
LEMMA QueuedSend ==
    ASSUME StoreInv, QueuedInv, NEW u \in Own \ Created, Created' = Created \cup {u},
           queue' = Push(queue, u), acked' = acked, lapsed' = lapsed, Cardinality(Created') <= QueueMax
    PROVE  \E T \in SUBSET Created' :
               (Created' \cap Texts) \ (acked' \cup lapsed') \subseteq T /\ EndsWith(queue', T)
<1>1. Queues(queue) /\ IsFiniteSet(Created) /\ Cardinality(Created) \in Nat
      /\ QueueMax \in Nat
  BY InvParts, StoreAssumption DEF RestTyped, StoreParametersOK
<1>2. IsFiniteSet(Created') /\ Cardinality(Created') = Cardinality(Created) + 1
  BY <1>1, FS_AddElement
<1>3. PICK T \in SUBSET Created : (Created \cap Texts) \ (acked \cup lapsed) \subseteq T /\ EndsWith(queue, T)
  <2>1. Cardinality(Created) <= QueueMax
    BY <1>1, <1>2
  <2> QED
    BY <2>1 DEF QueuedInv
<1>4. T \cup {u} \in SUBSET Created' /\ u \notin T
  OBVIOUS
<1>5. EndsWith(Push(queue, u), T \cup {u})
  BY <1>1, <1>2, <1>3, <1>4, PushEnds
<1>6. (Created' \cap Texts) \ (acked' \cup lapsed') \subseteq T \cup {u}
  BY <1>3
<1> QED
  BY <1>4, <1>5, <1>6

\* Every step keeps what the queue ends with.
LEMMA QueuedStep == StoreInv /\ QueuedInv /\ [StoreNext]_storeVars => QueuedInv'
<1> SUFFICES ASSUME StoreInv, QueuedInv, [StoreNext]_storeVars PROVE QueuedInv'
  OBVIOUS
<1>1. CASE UNCHANGED storeVars
  BY <1>1 DEF storeVars, QueuedInv, Created
<1>2. ASSUME NEW u \in Own, SendMessage(u) PROVE QueuedInv'
  <2> DEFINE m == Rec(u, pending, "pending")
  <2>1. /\ Created' = Created \cup {u} /\ u \in Texts \ Created
        /\ kept.msgs' = Put(kept.msgs, pending, m) /\ pending \notin DOMAIN kept.msgs
        /\ queue' = Push(queue, u) /\ acked' = acked /\ lapsed' = lapsed
    BY <1>2, SendMessageKeeps DEF SendMessage
  <2>2. m.ulid = u /\ m.status = "pending"
    BY DEF Rec
  <2> HIDE DEF m
  <2>3. /\ DOMAIN kept.msgs' = DOMAIN kept.msgs \cup {pending} /\ kept.msgs'[pending] = m
        /\ \A n \in DOMAIN kept.msgs : n # pending /\ kept.msgs'[n] = kept.msgs[n]
    BY <2>1 DEF Put
  <2>4. \A n \in DOMAIN kept.msgs : kept.msgs[n].ulid # u
    BY <2>1 DEF Created
  <2>5. \A n \in DOMAIN kept.msgs' :
            n >= Now => kept.msgs'[n].status = "pending" \/ kept.msgs'[n].ulid \in acked'
    BY <2>1, <2>2, <2>3 DEF QueuedInv
  <2>6. \A k, n \in DOMAIN kept.msgs' :
            k >= Now /\ n >= Now /\ kept.msgs'[k].ulid = kept.msgs'[n].ulid => k = n
    BY <2>2, <2>3, <2>4 DEF QueuedInv
  <2>7. \A v \in Created' \cap Texts :
            \E n \in DOMAIN kept.msgs' : n >= Now /\ kept.msgs'[n].ulid = v
    <3>1. pending >= Now /\ pending \in DOMAIN kept.msgs'
      BY <2>3, InvParts
    <3>2. \A v \in Created \cap Texts :
              \E n \in DOMAIN kept.msgs' : n >= Now /\ kept.msgs'[n].ulid = v
      BY <2>3 DEF QueuedInv
    <3> QED
      BY <2>1, <2>2, <2>3, <3>1, <3>2
  <2>8. Cardinality(Created') <= QueueMax =>
            \E T \in SUBSET Created' :
                (Created' \cap Texts) \ (acked' \cup lapsed') \subseteq T /\ EndsWith(queue', T)
    BY <2>1, QueuedSend DEF Own
  <2> QED
    BY <2>5, <2>6, <2>7, <2>8 DEF QueuedInv
<1>3. ASSUME NEW u \in Own, SendAttachment(u) PROVE QueuedInv'
  <2>1. /\ Created' = Created \cup {u} /\ u \in Attachments \ Created
        /\ \A n \in DOMAIN kept.msgs' :
               n >= Now => n \in DOMAIN kept.msgs /\ kept.msgs'[n] = kept.msgs[n]
        /\ \A n \in DOMAIN kept.msgs : n \in DOMAIN kept.msgs' /\ kept.msgs'[n] = kept.msgs[n]
        /\ queue' = Push(queue, u) /\ acked' = acked /\ lapsed' = lapsed
    BY <1>3, SendAttachmentKeeps DEF SendAttachment
  <2>2. u \notin Texts
    BY <2>1, StoreAssumption DEF StoreParametersOK
  <2>3. \A n \in DOMAIN kept.msgs' :
            n >= Now => kept.msgs'[n].status = "pending" \/ kept.msgs'[n].ulid \in acked'
    BY <2>1 DEF QueuedInv
  <2>4. \A k, n \in DOMAIN kept.msgs' :
            k >= Now /\ n >= Now /\ kept.msgs'[k].ulid = kept.msgs'[n].ulid => k = n
    BY <2>1 DEF QueuedInv
  <2>5. \A v \in Created' \cap Texts :
            \E n \in DOMAIN kept.msgs' : n >= Now /\ kept.msgs'[n].ulid = v
    BY <2>1, <2>2 DEF QueuedInv
  <2>6. Cardinality(Created') <= QueueMax =>
            \E T \in SUBSET Created' :
                (Created' \cap Texts) \ (acked' \cup lapsed') \subseteq T /\ EndsWith(queue', T)
    BY <2>1, QueuedSend
  <2> QED
    BY <2>3, <2>4, <2>5, <2>6 DEF QueuedInv
<1>4. CASE ReadEffect
  <2>1. Created' = Created /\ kept.msgs' = kept.msgs /\ acked' = acked /\ lapsed' = lapsed /\ queue' = queue
    BY <1>4, ReadEffectKeeps DEF ReadEffect
  <2> QED
    BY <2>1, QueuedSame DEF Extends
<1>5. CASE ReloadPage
  <2>1. /\ Created' = Created /\ kept.msgs' = kept.msgs /\ acked' = acked /\ lapsed' = lapsed
        /\ queue' = Requeued(Stored, Unsent, pending)
    BY <1>5, ReloadKeeps DEF ReloadPage
  <2> DEFINE T == {Stored[n].ulid : n \in Unsent \cap Now..pending}
  <2>2. /\ pending \in Nat /\ Now \in Nat \ {0} /\ IsFiniteSet(Created)
        /\ Known(kept.msgs, seqOf, pending, Cardinality(Created))
    BY InvParts, NowAbove
  <2>3. T \subseteq Created
    BY StoredRecords DEF Created, Unsent, Own
  <2>4. \A m, n \in Unsent : m >= Now /\ n >= Now /\ Stored[m].ulid = Stored[n].ulid => m = n
    BY StoredRecords DEF QueuedInv, Unsent
  <2>5. (Created \cap Texts) \ (acked \cup lapsed) \subseteq T
    <3> SUFFICES ASSUME NEW u \in Created \cap Texts, u \notin acked \cup lapsed PROVE u \in T
      OBVIOUS
    <3>1. PICK n \in DOMAIN kept.msgs : n >= Now /\ kept.msgs[n].ulid = u
      BY DEF QueuedInv
    <3>2. kept.msgs[n].status = "pending"
      BY <3>1 DEF QueuedInv
    <3>3. n \in Int /\ n >= 0 /\ n < pending
      BY <2>2, <3>1 DEF Known
    <3>4. n \in DOMAIN Stored /\ Stored[n] = kept.msgs[n]
      BY <3>3, StoredRecords
    <3>5. n \in Unsent
      BY <3>1, <3>2, <3>4 DEF Unsent
    <3>6. n \in Unsent \cap Now..pending
      BY <2>2, <3>1, <3>3, <3>5
    <3> QED
      BY <3>1, <3>4, <3>6
  <2>6. Cardinality(Created) <= QueueMax => EndsWith(queue', T)
    <3>1. \A n \in Unsent : Stored[n].ulid \in Own
      BY StoredRecords
    <3> QED
      BY <2>1, <2>2, <2>3, <2>4, <3>1, RequeueEnds
  <2> HIDE DEF T
  <2>7. Cardinality(Created) <= QueueMax =>
            \E S \in SUBSET Created :
                (Created \cap Texts) \ (acked' \cup lapsed') \subseteq S /\ EndsWith(queue', S)
    BY <2>1, <2>3, <2>5, <2>6
  <2> QED
    BY <2>1, <2>7, QueuedAfter DEF Extends
<1>6. ASSUME NEW u \in Ulids, Ack(u) PROVE QueuedInv'
  <2>1. /\ Created' = Created /\ Extends(kept.msgs', kept.msgs)
        /\ \A n \in DOMAIN kept.msgs' :
               n >= Now => /\ n \in DOMAIN kept.msgs /\ kept.msgs'[n].ulid = kept.msgs[n].ulid
                           /\ kept.msgs'[n] = kept.msgs[n] \/ kept.msgs'[n].ulid = u
        /\ queue' = RemoveFirst(queue, u) /\ acked' = acked \cup {u} /\ lapsed' = lapsed \ {u}
    BY <1>6, AckKeeps DEF Ack
  <2>2. Cardinality(Created) <= QueueMax =>
            \E T \in SUBSET Created :
                (Created \cap Texts) \ (acked' \cup lapsed') \subseteq T /\ EndsWith(queue', T)
    <3> SUFFICES ASSUME Cardinality(Created) <= QueueMax
                 PROVE  \E T \in SUBSET Created :
                            (Created \cap Texts) \ (acked' \cup lapsed') \subseteq T /\ EndsWith(queue', T)
      OBVIOUS
    <3>1. PICK T \in SUBSET Created : (Created \cap Texts) \ (acked \cup lapsed) \subseteq T /\ EndsWith(queue, T)
      BY DEF QueuedInv
    <3>2. Queues(queue)
      BY InvParts DEF RestTyped
    <3>3. PICK rest \in SUBSET T : T \ {u} \subseteq rest /\ EndsWith(RemoveFirst(queue, u), rest)
      BY <3>1, <3>2, RemoveEnds
    <3> QED
      BY <2>1, <3>1, <3>3
  <2>3. acked \subseteq acked' /\ u \in acked'
    BY <2>1
  <2> QED
    BY <2>1, <2>2, <2>3, QueuedAfter
<1>7. ASSUME NEW u \in Ulids, Msg(u) PROVE QueuedInv'
  <2>1. queue' = queue /\ acked' = acked /\ lapsed' = lapsed
    BY <1>7 DEF Msg
  <2> QED
    BY <1>7, <2>1, MsgKeeps, QueuedSame
<1>8. ASSUME NEW u \in Ulids, Expired(u) PROVE QueuedInv'
  <2>1. queue' = queue /\ acked' = acked /\ lapsed' = lapsed
    BY <1>8 DEF Expired
  <2> QED
    BY <1>8, <2>1, ExpiredKeeps, QueuedSame
<1>9. ASSUME NEW n \in 1..Counter, NEW status \in {"delivered", "read"}, Receipt(n, status)
      PROVE  QueuedInv'
  <2>1. queue' = queue /\ acked' = acked /\ lapsed' = lapsed
    BY <1>9 DEF Receipt
  <2> QED
    BY <1>9, <2>1, ReceiptKeeps, QueuedSame
<1>10. ASSUME NEW from \in 0..Counter, GapPage(from) PROVE QueuedInv'
  <2>1. queue' = queue /\ acked' = acked /\ lapsed' = lapsed
    BY <1>10 DEF GapPage
  <2> QED
    BY <1>10, <2>1, GapPageKeeps, QueuedSame
<1>11. ASSUME NEW u \in Ulids, ServerStores(u) PROVE QueuedInv'
  <2>1. Created' = Created /\ kept.msgs' = kept.msgs /\ acked' = acked /\ lapsed' = lapsed /\ queue' = queue
    BY <1>11, ServerStoresKeeps DEF ServerStores
  <2> QED
    BY <2>1, QueuedSame DEF Extends
<1>12. CASE Drain
  <2>1. Created' = Created /\ kept.msgs' = kept.msgs /\ acked' = acked
    BY <1>12, DrainKeeps DEF Drain
  <2>2. PICK old \in SUBSET Range(queue) :
            lapsed' = lapsed \cup (old \cap Texts) /\ queue' = Live(queue, old)
    BY <1>12 DEF Drain
  <2>3. Cardinality(Created) <= QueueMax =>
            \E T \in SUBSET Created :
                (Created \cap Texts) \ (acked' \cup lapsed') \subseteq T /\ EndsWith(queue', T)
    <3> SUFFICES ASSUME Cardinality(Created) <= QueueMax
                 PROVE  \E T \in SUBSET Created :
                            /\ (Created \cap Texts) \ (acked' \cup lapsed') \subseteq T
                            /\ EndsWith(queue', T)
      OBVIOUS
    <3>1. PICK T \in SUBSET Created :
              (Created \cap Texts) \ (acked \cup lapsed) \subseteq T /\ EndsWith(queue, T)
      BY DEF QueuedInv
    <3>2. Queues(queue) /\ IsFiniteSet(Created)
      BY InvParts DEF RestTyped
    <3>3. EndsWith(Live(queue, old), T \ old)
      BY <3>1, <3>2, LiveEnds
    <3>4. (Created \cap Texts) \ (acked' \cup lapsed') \subseteq T \ old
      BY <2>1, <2>2, <3>1
    <3> QED
      BY <2>2, <3>3, <3>4
  <2> QED
    BY <2>1, <2>3, QueuedAfter DEF Extends
<1>13. StoreNext \/ UNCHANGED storeVars
  OBVIOUS
<1> QED
  BY <1>1, <1>2, <1>3, <1>4, <1>5, <1>6, <1>7, <1>8, <1>9, <1>10, <1>11, <1>12, <1>13, StoreSteps

\* A text that was sent is in the OutQueue until its ACK was handled, for any number of messages
\* the queue has room for, any reloads, and any frames in between (sdk/OutQueue.js:2-5,
\* SyncClient.js:208-217).
THEOREM TextsStayQueued == StoreSpec => []UnackedIsQueued
<1>1. StoreInv /\ QueuedInv => UnackedIsQueued
  <2> SUFFICES ASSUME StoreInv, QueuedInv, Cardinality(Created) <= QueueMax,
                      NEW u \in (Created \cap Texts) \ (acked \cup lapsed)
               PROVE  \E i \in 1..Len(queue) : queue[i] = u
    BY DEF UnackedIsQueued
  <2>1. PICK T \in SUBSET Created : (Created \cap Texts) \ (acked \cup lapsed) \subseteq T /\ EndsWith(queue, T)
    BY DEF QueuedInv
  <2>2. PICK i \in 0..Len(queue) : \E j \in i + 1..Len(queue) : queue[j] = u
    BY <2>1 DEF EndsWith
  <2>3. Len(queue) \in Nat
    BY InvParts DEF RestTyped, Queues
  <2>4. \A j \in i + 1..Len(queue) : j \in 1..Len(queue)
    BY <2>3
  <2> QED
    BY <2>2, <2>4
<1> QED
  BY <1>1, StoreStarts, StoreStep, QueuedStarts, QueuedStep, PTL DEF StoreSpec

-----------------------------------------------------------------------------
(***************************************************************************)
(* The row of the conversation: what is always so                          *)
(***************************************************************************)

RowFrames == [type : {"ACK", "MSG", "EDITED", "DELETED", "RECEIPT"}, n : Nat, id : Nat, text : Nat]

Slots == 1..Len(frames)

Posted(id) == \E n \in DOMAIN posts : posts[n].id = id

PostGone(id) == \E n \in DOMAIN posts : posts[n].id = id /\ posts[n].gone

\* A message of another device has its number for an id, an own one is shown.
PostsFit ==
    /\ counter \in 0..MaxNumbers /\ DOMAIN posts \subseteq 1..counter
    /\ \A n \in DOMAIN posts :
          /\ posts[n] \in [id : Nat, by : {"other", "user"}, text : Nat, gone : BOOLEAN]
          /\ posts[n].id < DateNow => posts[n].id = n
          /\ posts[n].id >= DateNow => posts[n].id \in DOMAIN recs
    /\ \A m, n \in DOMAIN posts : posts[m].id = posts[n].id => m = n

\* What is queued is not shown, and is the newest there is.
InboxFits ==
    /\ inbox \subseteq DOMAIN posts
    /\ \A n \in inbox :
          posts[n].id = n /\ n \notin DOMAIN recs /\ (posts[n].text = 1 \/ n \in misheard)
    /\ inbox # {} => ~conn /\ \E k \in inbox : \A m \in DOMAIN posts : m <= k

\* A record has the number of its message, or one of its own if that is an own text.
RecFits(r) ==
    /\ r \in Records
    /\ r.id >= DateNow => r.id < DateNow + texts
    /\ r.seq # r.id \/ r.id < DateNow => r.seq \in DOMAIN posts /\ posts[r.seq].id = r.id
    /\ r.gone => PostGone(r.id)
    /\ ~Posted(r.id) => r.text = 1

\* A record is on disk under its number, and what is on disk is of a message that is shown.
RecsFit ==
    /\ \A id \in DOMAIN recs :
          /\ recs[id].id = id /\ RecFits(recs[id])
          /\ recs[id].seq \in DOMAIN idbRecs /\ idbRecs[recs[id].seq] = recs[id]
    /\ \A n \in DOMAIN idbRecs :
          idbRecs[n].seq = n /\ RecFits(idbRecs[n]) /\ idbRecs[n].id \in DOMAIN recs

FrameFits(f) ==
    /\ f.type \in {"ACK", "MSG"} => f.n \in DOMAIN posts /\ posts[f.n].id = f.id
    /\ f.type = "EDITED" => Posted(f.id)
    /\ f.type = "DELETED" => PostGone(f.id)
    /\ f.type = "RECEIPT" => f.n <= readUpTo

FramesTyped == frames \in Seq(RowFrames) /\ \A i \in Slots : FrameFits(frames[i])

\* A message comes before its edits, never after its tombstone is shown, and after its deletion
\* only if it was queued.
FramesInOrder ==
    /\ \A i, j \in Slots :
          frames[i].type = "MSG" /\ frames[j].type = "EDITED" /\ frames[i].id = frames[j].id
             => i < j
    /\ \A i \in Slots :
          frames[i].type = "MSG" /\ frames[i].id \in DOMAIN recs => ~recs[frames[i].id].gone
    /\ \A i, j \in Slots :
          frames[i].type = "MSG" /\ frames[j].type = "DELETED" /\ frames[i].id = frames[j].id
          /\ j < i
             => /\ frames[i].id \notin DOMAIN recs
                /\ \A k \in Slots : frames[k].type = "MSG" /\ frames[k].id = frames[i].id => j < k

RestFits ==
    /\ {newest, lastReadSeq, readCursor, seenLength} \subseteq Nat
    /\ {conn, pane, late, outrun, returned} \subseteq BOOLEAN
    /\ texts \in 0..MaxTexts /\ breaks \in 0..MaxBreaks
    /\ readUpTo \in 0..counter /\ (lastReadSeq < DateNow => lastReadSeq <= readUpTo)
    /\ lastMsg \in [id : Nat, seq : Nat, text : Nat, gone : BOOLEAN]
    /\ DOMAIN recs = {} => lastMsg = NoMsg
    /\ ~conn => frames = << >>

Told(i) == i \in Slots /\ frames[i].type \in {"ACK", "MSG"}

LastTold(i) == Told(i) /\ \A j \in Slots : Told(j) => j <= i

\* lastSeq will have been k, or more.
Reached(k) ==
    \/ \E i \in Slots : LastTold(i) /\ k <= frames[i].n
    \/ (k <= newest \/ late) /\ \A i \in Slots : Told(i) => i = 1 /\ frames[i].type = "ACK"

Comes(type, id) == \E i \in Slots : frames[i].type = type /\ frames[i].id = id

\* The last message that comes is the newest; lastSeq will have been that of every one shown.
NewestComes ==
    /\ \A i, j \in Slots : LastTold(i) /\ frames[j].type = "MSG" => frames[j].n <= frames[i].n
    /\ conn => \A id \in DOMAIN recs :
                  id < DateNow /\ ~recs[id].gone => Reached(id) \/ Comes("DELETED", id)

LastEdit(j, id) ==
    /\ j \in Slots /\ frames[j].type = "EDITED" /\ frames[j].id = id
    /\ \A k \in Slots : frames[k].type = "EDITED" /\ frames[k].id = id => k <= j

\* A message has its text, unless an edit comes that brings it.
TextComes(n, id) ==
    /\ \A i \in Slots : frames[i].type = "MSG" /\ frames[i].id = id =>
          /\ id \in DOMAIN recs => frames[i].text = recs[id].text
          /\ Comes("EDITED", id) \/ frames[i].text = posts[n].text
          /\ \A j \in Slots : frames[j].type = "MSG" /\ frames[j].id = id
                                 => frames[j].text = frames[i].text
    /\ \A j \in Slots : LastEdit(j, id) => frames[j].text = posts[n].text
    /\ id \in DOMAIN recs => Comes("EDITED", id) \/ recs[id].text = posts[n].text

TextsCome == \A n \in DOMAIN posts : posts[n].id \notin misheard => TextComes(n, posts[n].id)

RowFits ==
    /\ PostsFit /\ InboxFits /\ RecsFit /\ FramesTyped /\ FramesInOrder /\ RestFits /\ NewestComes

RowInv == RowFits /\ (~returned => TextsCome /\ PreviewIsNewest)

-----------------------------------------------------------------------------
\* What is assumed of the bounds.
LEMMA RowParameters ==
    /\ MaxNumbers \in Nat /\ MaxTexts \in Nat /\ MaxBreaks \in Nat
    /\ DateNow \in Nat /\ DateNow = MaxNumbers + 1
  BY RowAssumption DEF RowParametersOK, DateNow

\* What Keep does.
LEMMA Kept ==
    ASSUME NEW f, NEW n, NEW m
    PROVE  /\ DOMAIN Keep(f, n, m) = DOMAIN f \cup {n} /\ Keep(f, n, m)[n] = m
           /\ \A x \in DOMAIN f : x # n => Keep(f, n, m)[x] = f[x]
  BY DEF Keep

\* What is put on the socket comes last.
LEMMA Emitting ==
    ASSUME frames \in Seq(RowFrames), NEW fs \in Seq(RowFrames), Emit(fs)
    PROVE  /\ frames' \in Seq(RowFrames) /\ Len(frames) \in Nat /\ Len(frames') \in Nat
           /\ Len(frames') >= Len(frames)
           /\ Slots' = 1..Len(frames') /\ Slots = 1..Len(frames)
           /\ \A i \in Slots : i \in Slots' /\ frames'[i] = frames[i]
           /\ \A i \in Slots' : i \notin Slots =>
                 /\ i > Len(frames) /\ conn
                 /\ i - Len(frames) \in 1..Len(fs) /\ frames'[i] = fs[i - Len(frames)]
           /\ conn => Len(frames') = Len(frames) + Len(fs)
<1>1. CASE conn
  <2>1. frames' = frames \o fs
    BY <1>1 DEF Emit
  <2> QED
    BY <1>1, <2>1 DEF Slots
<1>2. CASE ~conn
  <2>1. frames' = frames
    BY <1>2 DEF Emit
  <2> QED
    BY <1>2, <2>1 DEF Slots
<1> QED
  BY <1>1, <1>2

\* What is taken from the socket came first.
LEMMA Taking ==
    ASSUME frames \in Seq(RowFrames), frames # << >>, frames' = Tail(frames)
    PROVE  /\ frames' \in Seq(RowFrames) /\ Len(frames) \in Nat /\ Len(frames') = Len(frames) - 1
           /\ Len(frames) >= 1 /\ Head(frames) = frames[1] /\ frames[1] \in RowFrames
           /\ Slots' = 1..Len(frames') /\ Slots = 1..Len(frames) /\ 1 \in Slots
           /\ \A i \in Slots' : i + 1 \in Slots /\ frames'[i] = frames[i + 1]
           /\ \A i \in Slots : i # 1 => i - 1 \in Slots' /\ frames'[i - 1] = frames[i]
  BY DEF Slots

\* Messages are never taken back.
LEMMA Later ==
    ASSUME \A n \in DOMAIN posts : /\ n \in DOMAIN posts' /\ posts'[n].id = posts[n].id
                                   /\ posts[n].gone => posts'[n].gone,
           texts \in Int, texts' \in Int, texts <= texts',
           readUpTo \in Int, readUpTo' \in Int, readUpTo <= readUpTo'
    PROVE  /\ \A id : (Posted(id) => Posted(id)') /\ (PostGone(id) => PostGone(id)')
           /\ \A r : RecFits(r) => RecFits(r)'
           /\ \A f \in RowFrames : FrameFits(f) => FrameFits(f)'
<1>1. \A id : (Posted(id) => Posted(id)') /\ (PostGone(id) => PostGone(id)')
  BY DEF Posted, PostGone
<1>2. ASSUME NEW r, RecFits(r) PROVE RecFits(r)'
  <2>1. r.id >= DateNow => r.id < DateNow + texts'
    <3>1. r.id \in Nat
      BY <1>2 DEF RecFits, Records
    <3> QED
      BY <1>2, <3>1, RowParameters DEF RecFits
  <2>2. r.seq # r.id \/ r.id < DateNow => r.seq \in DOMAIN posts' /\ posts'[r.seq].id = r.id
    BY <1>2 DEF RecFits
  <2>3. r.gone => PostGone(r.id)'
    BY <1>1, <1>2 DEF RecFits
  <2>4. ~Posted(r.id)' => r.text = 1
    BY <1>1, <1>2 DEF RecFits
  <2> QED
    BY <1>2, <2>1, <2>2, <2>3, <2>4 DEF RecFits, DateNow
<1>3. ASSUME NEW f \in RowFrames, FrameFits(f) PROVE FrameFits(f)'
  <2>1. f.n \in Nat
    BY DEF RowFrames
  <2> QED
    BY <1>1, <1>3, <2>1 DEF FrameFits
<1> QED
  BY <1>1, <1>2, <1>3

\* The frames one by one.
LEMMA FramesNow ==
    ASSUME frames' \in Seq(RowFrames),
           \A i \in Slots' : \A f : f = frames'[i] => FrameFits(f)'
    PROVE  FramesTyped'
<1>1. \A i \in Slots' : FrameFits(frames[i])'
  BY DEF FrameFits
<1> QED
  BY <1>1 DEF FramesTyped

\* The texts one by one.
LEMMA TextsNow ==
    ASSUME \A n \in DOMAIN posts' :
              \A x : x = posts'[n].id /\ x \notin misheard' => TextComes(n, x)'
    PROVE  TextsCome'
<1>1. \A n \in DOMAIN posts' : posts'[n].id \notin misheard' => TextComes(n, posts[n].id)'
  BY DEF TextComes, Comes, LastEdit
<1> QED
  BY <1>1 DEF TextsCome

-----------------------------------------------------------------------------
(* A message is stored and published.                                      *)

\* What is not posted yet has a number above all the others.
LEMMA Unposted ==
    ASSUME RowFits
    PROVE  /\ counter \in Nat /\ counter <= MaxNumbers /\ counter + 1 \notin DOMAIN posts
           /\ \A n \in DOMAIN posts : n \in Nat /\ n >= 1 /\ n <= counter /\ n < DateNow
           /\ \A id \in DOMAIN recs : id \in Nat /\ (id < DateNow => id <= counter)
           /\ counter < MaxNumbers => ~Posted(counter + 1) /\ counter + 1 \notin DOMAIN recs
                                      /\ counter + 1 < DateNow
<1>1. counter \in Nat /\ counter <= MaxNumbers /\ counter + 1 \notin DOMAIN posts
  BY RowParameters DEF RowFits, PostsFit
<1>2. \A n \in DOMAIN posts : n \in Nat /\ n >= 1 /\ n <= counter /\ n < DateNow
  BY <1>1, RowParameters DEF RowFits, PostsFit
<1>3. ASSUME NEW id \in DOMAIN recs PROVE id \in Nat /\ (id < DateNow => id \in DOMAIN posts)
  <2>1. recs[id].id = id /\ recs[id] \in Records
    BY DEF RowFits, RecsFit, RecFits
  <2>2. id < DateNow => recs[id].seq \in DOMAIN posts /\ posts[recs[id].seq].id = id
    BY <2>1 DEF RowFits, RecsFit, RecFits
  <2> QED
    BY <2>1, <2>2 DEF RowFits, PostsFit, Records
<1>4. counter < MaxNumbers => ~Posted(counter + 1)
  <2>1. \A n \in DOMAIN posts : posts[n].id < DateNow => posts[n].id = n
    BY DEF RowFits, PostsFit
  <2> QED
    BY <1>1, <1>2, <2>1, RowParameters DEF Posted
<1> QED
  BY <1>1, <1>2, <1>3, <1>4, RowParameters

\* The messages, when one is stored.
LEMMA PostingPosts ==
    ASSUME RowFits, NEW id \in Nat, NEW by \in {"other", "user"}, NEW before,
           PostText(id, by, before), recs' = recs, ~Posted(id),
           id = counter + 1 \/ (id >= DateNow /\ id \in DOMAIN recs)
    PROVE  /\ PostsFit' /\ counter' = counter + 1 /\ counter < MaxNumbers
           /\ DOMAIN posts' = DOMAIN posts \cup {counter + 1}
           /\ posts'[counter + 1] = [id |-> id, by |-> by, text |-> 1, gone |-> FALSE]
           /\ \A n \in DOMAIN posts : posts'[n] = posts[n] /\ posts'[n].id # id
<1>1. counter' = counter + 1 /\ counter < MaxNumbers
  BY DEF PostText
<1>2. /\ DOMAIN posts' = DOMAIN posts \cup {counter + 1}
      /\ posts'[counter + 1] = [id |-> id, by |-> by, text |-> 1, gone |-> FALSE]
      /\ \A n \in DOMAIN posts : posts'[n] = posts[n]
  <2> DEFINE m == [id |-> id, by |-> by, text |-> 1, gone |-> FALSE]
  <2>1. posts' = Keep(posts, counter + 1, m)
    BY DEF PostText
  <2> HIDE DEF m
  <2>2. /\ DOMAIN posts' = DOMAIN posts \cup {counter + 1} /\ posts'[counter + 1] = m
        /\ \A n \in DOMAIN posts : n # counter + 1 => posts'[n] = posts[n]
    BY <2>1 DEF Keep
  <2> QED
    BY <2>2, Unposted DEF m
<1>3. \A n \in DOMAIN posts : posts'[n].id # id
  BY <1>2 DEF Posted
<1>4. counter' \in 0..MaxNumbers /\ DOMAIN posts' \subseteq 1..counter'
  BY <1>1, <1>2, Unposted, RowParameters DEF RowFits, PostsFit
<1>5. ASSUME NEW n \in DOMAIN posts'
      PROVE  /\ posts'[n] \in [id : Nat, by : {"other", "user"}, text : Nat, gone : BOOLEAN]
             /\ posts'[n].id < DateNow => posts'[n].id = n
             /\ posts'[n].id >= DateNow => posts'[n].id \in DOMAIN recs'
  <2>1. CASE n \in DOMAIN posts
    BY <1>2, <2>1 DEF RowFits, PostsFit
  <2>2. CASE n = counter + 1
    <3>1. posts'[n] \in [id : Nat, by : {"other", "user"}, text : Nat, gone : BOOLEAN]
      <4>1. [id |-> id, by |-> by, text |-> 1, gone |-> FALSE]
               \in [id : Nat, by : {"other", "user"}, text : Nat, gone : BOOLEAN]
        OBVIOUS
      <4> QED
        BY <1>2, <2>2, <4>1, Zenon
    <3>2. posts'[n].id = id
      BY <1>2, <2>2
    <3> QED
      BY <1>1, <2>2, <3>1, <3>2, Unposted, RowParameters
  <2> QED
    BY <1>2, <2>1, <2>2
<1>6. ASSUME NEW m \in DOMAIN posts', NEW n \in DOMAIN posts', posts'[m].id = posts'[n].id
      PROVE  m = n
  <2>1. m \in DOMAIN posts /\ n \in DOMAIN posts => m = n
    BY <1>2, <1>6 DEF RowFits, PostsFit
  <2> QED
    BY <1>2, <1>3, <1>6, <2>1
<1>7. PostsFit'
  BY <1>4, <1>5, <1>6 DEF PostsFit, DateNow
<1> QED
  BY <1>1, <1>2, <1>3, <1>7

\* What is put on the socket for it.
LEMMA PostingFrames ==
    ASSUME RowFits, NEW id \in Nat, NEW by, NEW before, PostText(id, by, before),
           before = << >> \/ before = <<FrameOf("ACK", counter + 1, id, 0)>>
    PROVE  /\ frames' \in Seq(RowFrames) /\ Len(frames) \in Nat /\ Len(frames') \in Nat
           /\ Slots' = 1..Len(frames') /\ Slots = 1..Len(frames)
           /\ \A i \in Slots : i \in Slots' /\ frames'[i] = frames[i]
           /\ \A i \in Slots' : i \notin Slots =>
                 /\ i > Len(frames) /\ conn /\ frames'[i].n = counter + 1 /\ frames'[i].id = id
                 /\ frames'[i].type \in {"ACK", "MSG"}
                 /\ frames'[i].type = "MSG" => frames'[i].text = 1
           /\ conn => Len(frames') > Len(frames) /\ frames'[Len(frames')].type = "MSG"
<1> DEFINE msg == FrameOf("MSG", counter + 1, id, 1)
           ack == FrameOf("ACK", counter + 1, id, 0)
           fs == Append(before, msg)
<1>1. counter + 1 \in Nat
  BY Unposted
<1>2. msg \in RowFrames /\ ack \in RowFrames
  BY <1>1 DEF FrameOf, RowFrames
<1>3. /\ msg.n = counter + 1 /\ msg.id = id /\ msg.type = "MSG" /\ msg.text = 1
      /\ ack.n = counter + 1 /\ ack.id = id /\ ack.type = "ACK"
  BY DEF FrameOf
<1>4. Emit(fs) /\ frames \in Seq(RowFrames)
  BY DEF PostText, RowFits, FramesTyped
<1>5. before = << >> \/ before = <<ack>>
  OBVIOUS
<1> HIDE DEF msg, ack
<1>6. /\ fs \in Seq(RowFrames) /\ Len(fs) \in {1, 2} /\ fs[Len(fs)] = msg
      /\ \A j \in 1..Len(fs) : fs[j] = msg \/ fs[j] = ack
  <2>1. CASE before = << >>
    BY <1>2, <2>1
  <2>2. CASE before = <<ack>>
    BY <1>2, <2>2
  <2> QED
    BY <1>5, <2>1, <2>2
<1> HIDE DEF fs
<1>7. /\ frames' \in Seq(RowFrames) /\ Len(frames) \in Nat /\ Len(frames') \in Nat
      /\ Slots' = 1..Len(frames') /\ Slots = 1..Len(frames)
      /\ \A i \in Slots : i \in Slots' /\ frames'[i] = frames[i]
      /\ \A i \in Slots' : i \notin Slots =>
            /\ i > Len(frames) /\ conn
            /\ i - Len(frames) \in 1..Len(fs) /\ frames'[i] = fs[i - Len(frames)]
      /\ conn => Len(frames') = Len(frames) + Len(fs)
  BY <1>4, <1>6, Emitting
<1>8. \A i \in Slots' : i \notin Slots =>
         i > Len(frames) /\ conn /\ (frames'[i] = msg \/ frames'[i] = ack)
  BY <1>6, <1>7
<1>9. conn => Len(frames') > Len(frames) /\ frames'[Len(frames')] = msg
  <2>1. Len(fs) \in Nat /\ Len(fs) >= 1
    BY <1>6
  <2>2. conn => Len(frames') > Len(frames) /\ Len(frames') - Len(frames) = Len(fs)
    BY <1>7, <2>1
  <2>3. conn => Len(frames') \in Slots' /\ Len(frames') \notin Slots
    BY <1>7, <2>2
  <2> QED
    BY <1>6, <1>7, <2>2, <2>3
<1> QED
  BY <1>3, <1>7, <1>8, <1>9

\* The frames, when a message is stored.
LEMMA PostingKeeps ==
    ASSUME RowFits, NEW id \in Nat, NEW by \in {"other", "user"}, NEW before,
           PostText(id, by, before),
           before = << >> \/ before = <<FrameOf("ACK", counter + 1, id, 0)>>,
           ~Posted(id), id = counter + 1 \/ (id >= DateNow /\ id \in DOMAIN recs),
           UNCHANGED <<conn, rowShown, newest, texts, late, outrun, misheard>>,
           readUpTo' \in {readUpTo, counter + 1}
    PROVE  PostsFit' /\ RecsFit' /\ FramesTyped' /\ FramesInOrder' /\ NewestComes'
<1>1. /\ PostsFit' /\ counter' = counter + 1 /\ counter < MaxNumbers
      /\ DOMAIN posts' = DOMAIN posts \cup {counter + 1}
      /\ posts'[counter + 1] = [id |-> id, by |-> by, text |-> 1, gone |-> FALSE]
      /\ \A n \in DOMAIN posts : posts'[n] = posts[n] /\ posts'[n].id # id
  <2>1. recs' = recs
    BY DEF rowShown
  <2> QED
    BY <2>1, PostingPosts
<1>2. /\ frames' \in Seq(RowFrames) /\ Len(frames) \in Nat /\ Len(frames') \in Nat
      /\ Slots' = 1..Len(frames') /\ Slots = 1..Len(frames)
      /\ \A i \in Slots : i \in Slots' /\ frames'[i] = frames[i]
      /\ \A i \in Slots' : i \notin Slots =>
            /\ i > Len(frames) /\ conn /\ frames'[i].n = counter + 1 /\ frames'[i].id = id
            /\ frames'[i].type \in {"ACK", "MSG"}
            /\ frames'[i].type = "MSG" => frames'[i].text = 1
      /\ conn => Len(frames') > Len(frames) /\ frames'[Len(frames')].type = "MSG"
  BY PostingFrames
<1>3. recs' = recs /\ idbRecs' = idbRecs /\ texts' = texts /\ conn' = conn /\ newest' = newest
      /\ late' = late
  BY DEF rowShown
<1>4. /\ \A x : (Posted(x) => Posted(x)') /\ (PostGone(x) => PostGone(x)')
      /\ \A r : RecFits(r) => RecFits(r)'
      /\ \A f \in RowFrames : FrameFits(f) => FrameFits(f)'
  <2>1. texts \in Int /\ readUpTo \in Int /\ readUpTo' \in Int /\ readUpTo <= readUpTo'
    BY Unposted DEF RowFits, RestFits
  <2>2. \A n \in DOMAIN posts : /\ n \in DOMAIN posts' /\ posts'[n].id = posts[n].id
                                /\ posts[n].gone => posts'[n].gone
    BY <1>1
  <2> QED
    BY <1>3, <2>1, <2>2, Later
<1>5. RecsFit'
  BY <1>3, <1>4 DEF RowFits, RecsFit
<1>6. ASSUME NEW i \in Slots', NEW f, f = frames'[i] PROVE FrameFits(f)'
  <2>1. CASE i \in Slots
    <3>1. f = frames[i] /\ f \in RowFrames /\ FrameFits(f)
      BY <1>2, <1>6, <2>1 DEF RowFits, FramesTyped
    <3> QED
      BY <1>4, <3>1
  <2>2. CASE i \notin Slots
    <3>1. f.n \in DOMAIN posts' /\ posts'[f.n].id = f.id
      BY <1>1, <1>2, <1>6, <2>2
    <3>2. f.type \in {"ACK", "MSG"}
      BY <1>2, <1>6, <2>2
    <3> QED
      BY <3>1, <3>2 DEF FrameFits
  <2> QED
    BY <2>1, <2>2
<1>7. FramesTyped'
  BY <1>2, <1>6, FramesNow
<1>8. ~PostGone(id)
  BY DEF Posted, PostGone
<1>9. id \in DOMAIN recs => ~recs[id].gone
  BY <1>8 DEF RowFits, RecsFit, RecFits
<1>10. \A i \in Slots : /\ frames[i].type = "EDITED" => frames[i].id # id
                        /\ frames[i].type = "DELETED" => frames[i].id # id
                        /\ frames[i].type = "MSG" => frames[i].id # id
  <2>1. \A i \in Slots : FrameFits(frames[i])
    BY DEF RowFits, FramesTyped
  <2> QED
    BY <1>8, <2>1 DEF FrameFits, Posted
<1>11. FramesInOrder'
  <2>1. ASSUME NEW i \in Slots', NEW j \in Slots',
               frames'[i].type = "MSG", frames'[j].type = "EDITED", frames'[i].id = frames'[j].id
        PROVE  i < j
    <3>1. j \in Slots
      BY <1>2, <2>1
    <3>2. i \in Slots
      BY <1>2, <1>10, <2>1, <3>1
    <3> QED
      BY <1>2, <2>1, <3>1, <3>2 DEF RowFits, FramesInOrder
  <2>2. ASSUME NEW i \in Slots', frames'[i].type = "MSG", frames'[i].id \in DOMAIN recs'
        PROVE  ~recs'[frames'[i].id].gone
    <3>1. CASE i \in Slots
      BY <1>2, <1>3, <2>2, <3>1 DEF RowFits, FramesInOrder
    <3>2. CASE i \notin Slots
      BY <1>2, <1>3, <1>9, <2>2, <3>2
    <3> QED
      BY <3>1, <3>2
  <2>3. ASSUME NEW i \in Slots', NEW j \in Slots',
               frames'[i].type = "MSG", frames'[j].type = "DELETED",
               frames'[i].id = frames'[j].id, j < i
        PROVE  /\ frames'[i].id \notin DOMAIN recs'
               /\ \A k \in Slots' : frames'[k].type = "MSG" /\ frames'[k].id = frames'[i].id
                                       => j < k
    <3>1. j \in Slots
      BY <1>2, <2>3
    <3>2. i \in Slots /\ frames'[j].id # id
      BY <1>2, <1>10, <2>3, <3>1
    <3>3. \A k \in Slots' : frames'[k].id # id => k \in Slots
      BY <1>2
    <3> QED
      BY <1>2, <1>3, <2>3, <3>1, <3>2, <3>3 DEF RowFits, FramesInOrder
  <2> QED
    BY <2>1, <2>2, <2>3 DEF FramesInOrder
<1>12. NewestComes'
  <2>1. CASE ~conn
    <3>1. Slots' = {} /\ ~conn'
      BY <1>2, <1>3, <2>1 DEF RowFits, RestFits
    <3> QED
      BY <3>1 DEF NewestComes
  <2>2. CASE conn
    <3>0. /\ Len(frames') \in Slots' /\ Len(frames') \notin Slots
          /\ \A i \in Slots' : i <= Len(frames')
      BY <1>2, <2>2
    <3>1. PICK z \in Slots' : z = Len(frames') /\ z \notin Slots /\ \A i \in Slots' : i <= z
      BY <3>0
    <3>2. frames'[z].type = "MSG" /\ frames'[z].n = counter + 1
      BY <1>2, <2>2, <3>1
    <3>3. LastTold(z)' /\ \A i \in Slots' : LastTold(i)' => i = z
      BY <1>2, <3>1, <3>2 DEF LastTold, Told
    <3>4. \A j \in Slots' : frames'[j].type = "MSG" => frames'[j].n <= counter + 1
      <4>1. ASSUME NEW j \in Slots, frames[j].type = "MSG" PROVE frames[j].n <= counter + 1
        <5>1. frames[j].n \in DOMAIN posts
          BY <4>1 DEF RowFits, FramesTyped, FrameFits
        <5> QED
          BY <5>1, Unposted
      <4> QED
        BY <1>1, <1>2, <4>1, Unposted
    <3>5. \A x \in DOMAIN recs' : x < DateNow => Reached(x)'
      <4>1. ASSUME NEW x \in DOMAIN recs, x < DateNow PROVE x <= counter + 1
        BY <4>1, Unposted
      <4> QED
        BY <1>3, <3>1, <3>2, <3>3, <4>1 DEF Reached
    <3> QED
      BY <3>2, <3>3, <3>4, <3>5 DEF NewestComes, DateNow
  <2> QED
    BY <2>1, <2>2
<1> QED
  BY <1>1, <1>5, <1>7, <1>11, <1>12

\* The texts, when a message is stored.
LEMMA PostingTexts ==
    ASSUME RowFits, NEW id \in Nat, NEW by \in {"other", "user"}, NEW before,
           PostText(id, by, before),
           before = << >> \/ before = <<FrameOf("ACK", counter + 1, id, 0)>>,
           ~Posted(id), id = counter + 1 \/ (id >= DateNow /\ id \in DOMAIN recs),
           recs' = recs, misheard' = misheard, TextsCome
    PROVE  TextsCome'
<1>1. /\ DOMAIN posts' = DOMAIN posts \cup {counter + 1}
      /\ posts'[counter + 1] = [id |-> id, by |-> by, text |-> 1, gone |-> FALSE]
      /\ \A n \in DOMAIN posts : posts'[n] = posts[n] /\ posts'[n].id # id
  BY PostingPosts
<1>2. /\ Slots' = 1..Len(frames') /\ Slots = 1..Len(frames)
      /\ \A i \in Slots : i \in Slots' /\ frames'[i] = frames[i]
      /\ \A i \in Slots' : i \notin Slots =>
            /\ frames'[i].id = id /\ frames'[i].type \in {"ACK", "MSG"}
            /\ frames'[i].type = "MSG" => frames'[i].text = 1
  BY PostingFrames
<1>3. ASSUME NEW n \in DOMAIN posts, NEW x, x = posts[n].id, x \notin misheard
      PROVE  TextComes(n, x)'
  <2>1. TextComes(n, x) /\ x # id /\ posts'[n].text = posts[n].text
    BY <1>1, <1>3 DEF TextsCome
  <2>2. \A i \in Slots' : frames'[i].id = x => i \in Slots
    BY <1>2, <2>1
  <2>3. Comes("EDITED", x)' <=> Comes("EDITED", x)
    BY <1>2, <2>2 DEF Comes
  <2>4. \A j \in Slots' : LastEdit(j, x)' => LastEdit(j, x)
    BY <1>2, <2>2 DEF LastEdit
  <2>5. \A j \in Slots' : LastEdit(j, x)' => j \in Slots /\ frames'[j] = frames[j]
    BY <1>2, <2>2 DEF LastEdit
  <2>6. ASSUME NEW i \in Slots', frames'[i].type = "MSG", frames'[i].id = x
        PROVE  /\ x \in DOMAIN recs' => frames'[i].text = recs'[x].text
               /\ Comes("EDITED", x)' \/ frames'[i].text = posts'[n].text
               /\ \A j \in Slots' : frames'[j].type = "MSG" /\ frames'[j].id = x
                                       => frames'[j].text = frames'[i].text
    <3>1. i \in Slots /\ frames'[i] = frames[i]
      BY <1>2, <2>2, <2>6
    <3>2. \A j \in Slots' : frames'[j].id = x => j \in Slots /\ frames'[j] = frames[j]
      BY <1>2, <2>2
    <3>3. /\ x \in DOMAIN recs => frames[i].text = recs[x].text
          /\ Comes("EDITED", x) \/ frames[i].text = posts[n].text
          /\ \A j \in Slots : frames[j].type = "MSG" /\ frames[j].id = x
                                 => frames[j].text = frames[i].text
      BY <2>1, <2>6, <3>1 DEF TextComes
    <3> QED
      BY <2>1, <2>3, <3>1, <3>2, <3>3
  <2>7. \A j \in Slots' : LastEdit(j, x)' => frames'[j].text = posts'[n].text
    BY <2>1, <2>4, <2>5 DEF TextComes
  <2>8. x \in DOMAIN recs' => Comes("EDITED", x)' \/ recs'[x].text = posts'[n].text
    BY <2>1, <2>3 DEF TextComes
  <2> QED
    BY <2>6, <2>7, <2>8 DEF TextComes
<1>4. ASSUME NEW k, k = counter + 1 PROVE TextComes(k, id)'
  <2>1. \A i \in Slots : frames[i].type \in {"MSG", "EDITED"} => frames[i].id # id
    BY DEF RowFits, FramesTyped, FrameFits, Posted
  <2>2. /\ \A i \in Slots' : frames'[i].id = id /\ frames'[i].type = "MSG" => frames'[i].text = 1
        /\ \A i \in Slots' : frames'[i].id = id => frames'[i].type # "EDITED"
    BY <1>2, <2>1
  <2>3. id \in DOMAIN recs => recs[id].text = 1
    BY DEF RowFits, RecsFit, RecFits
  <2>4. posts'[k].text = 1
    BY <1>1, <1>4
  <2> QED
    BY <2>2, <2>3, <2>4 DEF TextComes, LastEdit
<1>5. ASSUME NEW n \in DOMAIN posts', NEW x, x = posts'[n].id, x \notin misheard'
      PROVE  TextComes(n, x)'
  <2>1. CASE n \in DOMAIN posts
    BY <1>1, <1>3, <1>5, <2>1
  <2>2. CASE n = counter + 1
    <3>1. x = id
      BY <1>1, <1>5, <2>2
    <3> QED
      BY <1>4, <2>2, <3>1
  <2> QED
    BY <1>1, <2>1, <2>2
<1> QED
  BY <1>5, TextsNow

\* The preview does not depend on the rest.
LEMMA PreviewSame ==
    ASSUME PreviewIsNewest, recs' = recs, lastMsg' = lastMsg, outrun' = outrun,
           misheard \subseteq misheard'
    PROVE  PreviewIsNewest'
  BY DEF PreviewIsNewest, DateNow

\* The three ways in which a message is stored.
LEMMA Storing ==
    ASSUME RowInv, NEW id \in Nat, NEW by \in {"other", "user"}, NEW before,
           PostText(id, by, before),
           before = << >> \/ before = <<FrameOf("ACK", counter + 1, id, 0)>>,
           ~Posted(id), id = counter + 1 \/ (id >= DateNow /\ id \in DOMAIN recs),
           UNCHANGED <<conn, rowShown, newest, lastReadSeq, readCursor, pane, seenLength, texts,
                       misheard, late, outrun, returned, breaks>>,
           readUpTo' \in {readUpTo, counter + 1}, InboxFits'
    PROVE  RowInv'
<1>1. RowFits
  BY DEF RowInv
<1>2. recs' = recs /\ lastMsg' = lastMsg /\ misheard' = misheard /\ outrun' = outrun
      /\ returned' = returned /\ late' = late /\ newest' = newest /\ texts' = texts
      /\ conn' = conn /\ lastReadSeq' = lastReadSeq /\ readCursor' = readCursor /\ pane' = pane
      /\ seenLength' = seenLength /\ breaks' = breaks
  BY DEF rowShown
<1>3. PostsFit' /\ RecsFit' /\ FramesTyped' /\ FramesInOrder' /\ NewestComes'
  <2>1. UNCHANGED <<conn, rowShown, newest, texts, late, outrun, misheard>>
    OBVIOUS
  <2> QED
    BY <1>1, <2>1, PostingKeeps
<1>4. RestFits'
  <2>1. counter' = counter + 1 /\ counter \in Nat
    BY <1>1, Unposted DEF PostText
  <2>2. readUpTo' \in 0..counter' /\ (lastReadSeq < DateNow => lastReadSeq <= readUpTo')
    BY <1>1, <2>1, Unposted, RowParameters DEF RowFits, RestFits
  <2>3. ~conn' => frames' = << >>
    BY <1>1, <1>2 DEF RowFits, RestFits, PostText, Emit
  <2> QED
    BY <1>1, <1>2, <2>2, <2>3 DEF RowFits, RestFits, DateNow
<1>5. ~returned' => TextsCome'
  BY <1>1, <1>2, PostingTexts DEF RowInv
<1>6. ~returned' => PreviewIsNewest'
  BY <1>2, PreviewSame DEF RowInv
<1> QED
  BY <1>3, <1>4, <1>5, <1>6 DEF RowInv, RowFits

\* Another user sends.
LEMMA OtherSendsKeeps ==
    ASSUME RowInv, OtherSends
    PROVE  RowInv'
<1>1. RowFits
  BY DEF RowInv
<1>2. PostText(counter + 1, "other", << >>) /\ recs' = recs /\ misheard' = misheard /\ conn' = conn
  BY DEF OtherSends, rowShown, rowHistory
<1>3. /\ counter \in Nat /\ counter < MaxNumbers /\ ~Posted(counter + 1)
      /\ counter + 1 \notin DOMAIN recs /\ \A n \in DOMAIN posts : n \in Nat /\ n <= counter
  BY <1>1, <1>2, Unposted DEF PostText
<1>4. /\ DOMAIN posts' = DOMAIN posts \cup {counter + 1}
      /\ posts'[counter + 1] = [id |-> counter + 1, by |-> "other", text |-> 1, gone |-> FALSE]
      /\ \A n \in DOMAIN posts : posts'[n] = posts[n]
  <2>1. PICK id \in Nat : id = counter + 1
    BY <1>3
  <2>2. PICK before : before = << >>
    OBVIOUS
  <2>3. PostText(id, "other", before) /\ ~Posted(id)
    BY <1>2, <1>3, <2>1, <2>2
  <2> QED
    BY <1>1, <1>2, <2>1, <2>3, PostingPosts
<1>5. PICK queued \in BOOLEAN :
         /\ IF conn THEN ~queued ELSE inbox # {} => queued
         /\ inbox' = IF queued THEN inbox \cup {counter + 1} ELSE inbox
  BY DEF OtherSends
<1>6. InboxFits'
  <2>1. CASE queued
    <3>1. ~conn /\ inbox' = inbox \cup {counter + 1}
      BY <1>5, <2>1
    <3>2. inbox' \subseteq DOMAIN posts'
      BY <1>1, <1>4, <3>1 DEF RowFits, InboxFits
    <3>3. ASSUME NEW n \in inbox'
          PROVE  /\ posts'[n].id = n /\ n \notin DOMAIN recs'
                 /\ posts'[n].text = 1 \/ n \in misheard'
      <4>1. CASE n \in inbox
        BY <1>1, <1>2, <1>4, <4>1 DEF RowFits, InboxFits
      <4>2. CASE n = counter + 1
        BY <1>2, <1>3, <1>4, <4>2
      <4> QED
        BY <3>1, <4>1, <4>2
    <3>4. \E k \in inbox' : \A m \in DOMAIN posts' : m <= k
      <4>1. PICK k : k = counter + 1
        OBVIOUS
      <4>2. k \in inbox' /\ \A m \in DOMAIN posts' : m <= k
        BY <1>3, <1>4, <3>1, <4>1
      <4> QED
        BY <4>2
    <3> QED
      BY <1>2, <3>1, <3>2, <3>3, <3>4 DEF InboxFits
  <2>2. CASE ~queued
    <3>1. inbox' = {}
      BY <1>1, <1>5, <2>2 DEF RowFits, InboxFits
    <3> QED
      BY <3>1 DEF InboxFits
  <2> QED
    BY <2>1, <2>2
<1>7. UNCHANGED <<conn, rowShown, newest, lastReadSeq, readCursor, pane, seenLength, texts,
                  misheard, late, outrun, returned, breaks>> /\ readUpTo' = readUpTo
  BY DEF OtherSends, rowHistory
<1> QED
  BY <1>2, <1>3, <1>6, <1>7, Storing

\* The user sends from the other device.
LEMMA SentElsewhereKeeps ==
    ASSUME RowInv, SentElsewhere
    PROVE  RowInv'
<1>1. /\ PostText(counter + 1, "user", << >>) /\ inbox' = {} /\ readUpTo' = counter + 1
      /\ UNCHANGED <<conn, rowShown, newest, lastReadSeq, readCursor, pane, seenLength, texts,
                     misheard, late, outrun, returned, breaks>>
  BY DEF SentElsewhere
<1>2. counter + 1 \in Nat /\ ~Posted(counter + 1)
  BY <1>1, Unposted DEF RowInv, PostText
<1>3. InboxFits'
  BY <1>1 DEF InboxFits
<1> QED
  BY <1>1, <1>2, <1>3, Storing

\* The SEND of a text arrives.
LEMMA ServeSendKeeps ==
    ASSUME RowInv, NEW id \in DOMAIN recs, ServeSend(id)
    PROVE  RowInv'
<1>1. /\ PostText(id, "user", <<FrameOf("ACK", counter + 1, id, 0)>>) /\ conn
      /\ ~Posted(id) /\ inbox' = inbox /\ readUpTo' = readUpTo
      /\ UNCHANGED <<conn, rowShown, newest, lastReadSeq, readCursor, pane, seenLength, texts,
                     misheard, late, outrun, returned, breaks>>
  BY DEF ServeSend, rowHistory, Posted
<1>2. id \in Nat /\ id >= DateNow
  <2>1. id \in Nat /\ recs[id].id = id /\ RecFits(recs[id])
    BY Unposted DEF RowInv, RowFits, RecsFit
  <2>2. id < DateNow => Posted(id)
    BY <2>1 DEF RecFits, Posted
  <2> QED
    BY <1>1, <2>1, <2>2, RowParameters
<1>3. InboxFits'
  <2>1. inbox = {}
    BY <1>1 DEF RowInv, RowFits, InboxFits
  <2> QED
    BY <1>1, <2>1 DEF InboxFits
<1> QED
  BY <1>1, <1>2, <1>3, Storing

-----------------------------------------------------------------------------
(* One frame more: an edit, a deletion, a receipt.                          *)

\* One frame is put on the socket.
LEMMA EmitOne ==
    ASSUME frames \in Seq(RowFrames), NEW f \in RowFrames, Emit(<<f>>)
    PROVE  /\ frames' \in Seq(RowFrames) /\ Len(frames) \in Nat
           /\ Slots' = 1..Len(frames') /\ Slots = 1..Len(frames)
           /\ \A i \in Slots : i \in Slots' /\ frames'[i] = frames[i] /\ i <= Len(frames)
           /\ \A i \in Slots' : i \notin Slots => i > Len(frames) /\ conn /\ frames'[i] = f
           /\ conn => \E i \in Slots' : i = Len(frames) + 1 /\ i \notin Slots
<1> DEFINE fs == <<f>>
<1>1. fs \in Seq(RowFrames) /\ Len(fs) = 1 /\ \A i \in 1..Len(fs) : fs[i] = f
  OBVIOUS
<1> HIDE DEF fs
<1>2. Emit(fs)
  BY DEF fs
<1>3. /\ frames' \in Seq(RowFrames) /\ Len(frames) \in Nat /\ Len(frames') \in Nat
      /\ Slots' = 1..Len(frames') /\ Slots = 1..Len(frames)
      /\ \A i \in Slots : i \in Slots' /\ frames'[i] = frames[i]
      /\ \A i \in Slots' : i \notin Slots =>
            /\ i > Len(frames) /\ conn
            /\ i - Len(frames) \in 1..Len(fs) /\ frames'[i] = fs[i - Len(frames)]
      /\ conn => Len(frames') = Len(frames) + Len(fs)
  BY <1>1, <1>2, Emitting
<1>4. conn => Len(frames') = Len(frames) + 1
  BY <1>1, <1>3
<1>5. \A i \in Slots' : i \notin Slots => frames'[i] = f
  BY <1>1, <1>3
<1>6. conn => Len(frames) + 1 \in Slots' /\ Len(frames) + 1 \notin Slots
  BY <1>3, <1>4
<1> QED
  BY <1>3, <1>5, <1>6

\* An event that is not a message is put on the socket.
LEMMA EventKeeps ==
    ASSUME RowFits, conn' = conn, recs' = recs, newest' = newest, late' = late,
           NEW f \in RowFrames, Emit(<<f>>), f.type \in {"EDITED", "DELETED", "RECEIPT"},
           \A r \in RowFrames : FrameFits(r) => FrameFits(r)', FrameFits(f)'
    PROVE  FramesTyped' /\ FramesInOrder' /\ NewestComes'
<1>1. /\ frames' \in Seq(RowFrames) /\ Len(frames) \in Nat
      /\ Slots' = 1..Len(frames') /\ Slots = 1..Len(frames)
      /\ \A i \in Slots : i \in Slots' /\ frames'[i] = frames[i] /\ i <= Len(frames)
      /\ \A i \in Slots' : i \notin Slots => i > Len(frames) /\ conn /\ frames'[i] = f
  BY EmitOne DEF RowFits, FramesTyped
<1>2. FramesTyped'
  <2>1. ASSUME NEW i \in Slots', NEW r, r = frames'[i] PROVE FrameFits(r)'
    <3>1. i \in Slots => r \in RowFrames /\ FrameFits(r)
      BY <1>1, <2>1 DEF RowFits, FramesTyped
    <3>2. i \notin Slots => r = f
      BY <1>1, <2>1
    <3> QED
      BY <3>1, <3>2
  <2> QED
    BY <1>1, <2>1, FramesNow
<1>3. \A i \in Slots' : frames'[i].type \in {"ACK", "MSG"} => i \in Slots
  BY <1>1
<1>4. FramesInOrder'
  <2>1. ASSUME NEW i \in Slots', NEW j \in Slots',
               frames'[i].type = "MSG", frames'[j].type = "EDITED", frames'[i].id = frames'[j].id
        PROVE  i < j
    <3>1. i \in Slots
      BY <1>3, <2>1
    <3>2. CASE j \in Slots
      BY <1>1, <2>1, <3>1, <3>2 DEF RowFits, FramesInOrder
    <3>3. CASE j \notin Slots
      BY <1>1, <3>1, <3>3
    <3> QED
      BY <3>2, <3>3
  <2>2. ASSUME NEW i \in Slots', frames'[i].type = "MSG", frames'[i].id \in DOMAIN recs'
        PROVE  ~recs'[frames'[i].id].gone
    BY <1>1, <1>3, <2>2 DEF RowFits, FramesInOrder
  <2>3. ASSUME NEW i \in Slots', NEW j \in Slots',
               frames'[i].type = "MSG", frames'[j].type = "DELETED",
               frames'[i].id = frames'[j].id, j < i
        PROVE  /\ frames'[i].id \notin DOMAIN recs'
               /\ \A k \in Slots' : frames'[k].type = "MSG" /\ frames'[k].id = frames'[i].id
                                       => j < k
    <3>1. i \in Slots
      BY <1>3, <2>3
    <3>2. j \in Slots
      BY <1>1, <2>3, <3>1
    <3>3. \A k \in Slots' : frames'[k].type = "MSG" => k \in Slots
      BY <1>3
    <3> QED
      BY <1>1, <2>3, <3>1, <3>2, <3>3 DEF RowFits, FramesInOrder
  <2> QED
    BY <2>1, <2>2, <2>3 DEF FramesInOrder
<1>5. \A i : (Told(i)' <=> Told(i)) /\ (LastTold(i)' <=> LastTold(i))
  <2>1. \A i : Told(i)' <=> Told(i)
    BY <1>1, <1>3 DEF Told
  <2> QED
    BY <1>1, <2>1 DEF LastTold, Told
<1>6. \A i : LastTold(i) => i \in Slots
  BY DEF LastTold, Told
<1>7. \A x : Reached(x) => Reached(x)'
  <2>1. ASSUME NEW x, NEW i \in Slots, LastTold(i), x <= frames[i].n PROVE Reached(x)'
    <3>1. i \in Slots' /\ LastTold(i)' /\ x <= frames'[i].n
      BY <1>1, <1>5, <2>1
    <3> QED
      BY <3>1 DEF Reached
  <2>2. ASSUME NEW x, x <= newest \/ late,
               \A i \in Slots : Told(i) => i = 1 /\ frames[i].type = "ACK"
        PROVE  Reached(x)'
    <3>1. \A i \in Slots' : Told(i)' => i = 1 /\ frames'[i].type = "ACK"
      BY <1>1, <1>5, <2>2 DEF Told
    <3> QED
      BY <2>2, <3>1 DEF Reached
  <2> QED
    BY <2>1, <2>2 DEF Reached
<1>8. \A x : Comes("DELETED", x) => Comes("DELETED", x)'
  BY <1>1 DEF Comes
<1>9. NewestComes'
  <2>1. ASSUME NEW i \in Slots', NEW j \in Slots', LastTold(i)', frames'[j].type = "MSG"
        PROVE  frames'[j].n <= frames'[i].n
    <3>1. i \in Slots /\ j \in Slots /\ LastTold(i)
      BY <1>3, <1>5, <1>6, <2>1
    <3> QED
      BY <1>1, <2>1, <3>1 DEF RowFits, NewestComes
  <2>2. conn' => \A x \in DOMAIN recs' :
                    x < DateNow /\ ~recs'[x].gone => Reached(x)' \/ Comes("DELETED", x)'
    BY <1>7, <1>8 DEF RowFits, NewestComes
  <2> QED
    BY <2>1, <2>2 DEF NewestComes, DateNow
<1> QED
  BY <1>2, <1>4, <1>9

\* The texts, when the frame is no edit and the texts stay.
LEMMA EventTexts ==
    ASSUME RowFits, TextsCome, recs' = recs, misheard' = misheard,
           DOMAIN posts' = DOMAIN posts,
           \A n \in DOMAIN posts : posts'[n].id = posts[n].id /\ posts'[n].text = posts[n].text,
           NEW f \in RowFrames, Emit(<<f>>), f.type \in {"ACK", "DELETED", "RECEIPT"}
    PROVE  TextsCome'
<1>1. /\ \A i \in Slots : i \in Slots' /\ frames'[i] = frames[i]
      /\ \A i \in Slots' : i \notin Slots => frames'[i] = f
  BY EmitOne DEF RowFits, FramesTyped
<1>2. \A i \in Slots' : frames'[i].type \in {"MSG", "EDITED"} => i \in Slots
  BY <1>1
<1>3. \A j, x : (Comes("EDITED", x)' <=> Comes("EDITED", x)) /\ (LastEdit(j, x)' => LastEdit(j, x))
  BY <1>1, <1>2 DEF Comes, LastEdit
<1>4. ASSUME NEW n \in DOMAIN posts, NEW x, x = posts[n].id, x \notin misheard
      PROVE  TextComes(n, x)'
  <2>1. TextComes(n, x) /\ posts'[n].text = posts[n].text
    BY <1>4 DEF TextsCome
  <2>2. ASSUME NEW i \in Slots', frames'[i].type = "MSG", frames'[i].id = x
        PROVE  /\ x \in DOMAIN recs' => frames'[i].text = recs'[x].text
               /\ Comes("EDITED", x)' \/ frames'[i].text = posts'[n].text
               /\ \A j \in Slots' : frames'[j].type = "MSG" /\ frames'[j].id = x
                                       => frames'[j].text = frames'[i].text
    <3>1. i \in Slots /\ frames'[i] = frames[i]
      BY <1>1, <1>2, <2>2
    <3>2. \A j \in Slots' : frames'[j].type = "MSG" => j \in Slots /\ frames'[j] = frames[j]
      BY <1>1, <1>2
    <3>3. /\ x \in DOMAIN recs => frames[i].text = recs[x].text
          /\ Comes("EDITED", x) \/ frames[i].text = posts[n].text
          /\ \A j \in Slots : frames[j].type = "MSG" /\ frames[j].id = x
                                 => frames[j].text = frames[i].text
      BY <2>1, <2>2, <3>1 DEF TextComes
    <3> QED
      BY <1>3, <2>1, <3>1, <3>2, <3>3
  <2>3. \A j \in Slots' : LastEdit(j, x)' => frames'[j].text = posts'[n].text
    <3>1. \A j : LastEdit(j, x) => j \in Slots
      BY DEF LastEdit
    <3> QED
      BY <1>1, <1>3, <2>1, <3>1 DEF TextComes
  <2>4. x \in DOMAIN recs' => Comes("EDITED", x)' \/ recs'[x].text = posts'[n].text
    BY <1>3, <2>1 DEF TextComes
  <2> QED
    BY <2>2, <2>3, <2>4 DEF TextComes
<1> QED
  BY <1>4, TextsNow

\* The texts, when one is edited.
LEMMA EditTexts ==
    ASSUME RowFits, TextsCome, recs' = recs, NEW n \in DOMAIN posts, NEW t,
           DOMAIN posts' = DOMAIN posts, posts'[n].id = posts[n].id, posts'[n].text = t,
           \A m \in DOMAIN posts : m # n => posts'[m] = posts[m],
           NEW f \in RowFrames, Emit(<<f>>),
           f.type = "EDITED", f.id = posts[n].id, f.text = t,
           misheard' = IF conn THEN misheard ELSE misheard \cup {posts[n].id}
    PROVE  TextsCome'
<1>1. /\ \A i \in Slots : i \in Slots' /\ frames'[i] = frames[i] /\ i <= Len(frames)
      /\ \A i \in Slots' : i \notin Slots => i > Len(frames) /\ frames'[i] = f
      /\ conn => \E i \in Slots' : i = Len(frames) + 1 /\ i \notin Slots
      /\ Len(frames) \in Nat /\ Slots = 1..Len(frames) /\ Slots' = 1..Len(frames')
  BY EmitOne DEF RowFits, FramesTyped
<1>2. ASSUME NEW m \in DOMAIN posts, NEW x, x = posts[m].id, x \notin misheard'
      PROVE  TextComes(m, x)'
  <2>1. TextComes(m, x)
    BY <1>2 DEF TextsCome
  <2>2. \A i \in Slots' : frames'[i].type = "MSG" => i \in Slots /\ frames'[i] = frames[i]
    BY <1>1
  <2>3. Comes("EDITED", x) => Comes("EDITED", x)'
    BY <1>1 DEF Comes
  <2>4. CASE m # n
    <3>1. x # f.id /\ posts'[m] = posts[m]
      BY <1>2, <2>4 DEF RowFits, PostsFit
    <3>2. \A i \in Slots' : frames'[i].id = x => i \in Slots /\ frames'[i] = frames[i]
      BY <1>1, <3>1
    <3>3. \A j : LastEdit(j, x)' => LastEdit(j, x) /\ j \in Slots /\ frames'[j] = frames[j]
      BY <1>1, <3>2 DEF LastEdit
    <3>4. ASSUME NEW i \in Slots', frames'[i].type = "MSG", frames'[i].id = x
          PROVE  /\ x \in DOMAIN recs' => frames'[i].text = recs'[x].text
                 /\ Comes("EDITED", x)' \/ frames'[i].text = posts'[m].text
                 /\ \A j \in Slots' : frames'[j].type = "MSG" /\ frames'[j].id = x
                                         => frames'[j].text = frames'[i].text
      <4>1. /\ x \in DOMAIN recs => frames[i].text = recs[x].text
            /\ Comes("EDITED", x) \/ frames[i].text = posts[m].text
            /\ \A j \in Slots : frames[j].type = "MSG" /\ frames[j].id = x
                                   => frames[j].text = frames[i].text
        BY <2>1, <2>2, <3>4 DEF TextComes
      <4> QED
        BY <2>2, <2>3, <3>1, <3>4, <4>1
    <3>5. \A j \in Slots' : LastEdit(j, x)' => frames'[j].text = posts'[m].text
      BY <2>1, <3>1, <3>3 DEF TextComes
    <3>6. x \in DOMAIN recs' => Comes("EDITED", x)' \/ recs'[x].text = posts'[m].text
      BY <2>1, <2>3, <3>1 DEF TextComes
    <3> QED
      BY <3>4, <3>5, <3>6 DEF TextComes
  <2>5. CASE m = n
    <3>1. conn
      BY <1>2, <2>5
    <3>2. PICK z \in Slots' : z = Len(frames) + 1 /\ z \notin Slots
      BY <1>1, <3>1
    <3>3. frames'[z] = f /\ x = f.id
      BY <1>1, <1>2, <2>5, <3>2
    <3>4. Comes("EDITED", x)'
      BY <3>2, <3>3 DEF Comes
    <3>5. ASSUME NEW j \in Slots', LastEdit(j, x)' PROVE frames'[j].text = posts'[m].text
      <4>1. z <= j
        BY <3>2, <3>3, <3>5 DEF LastEdit
      <4>2. j \notin Slots
        BY <1>1, <3>2, <4>1
      <4> QED
        BY <1>1, <2>5, <4>2
    <3>6. ASSUME NEW i \in Slots', frames'[i].type = "MSG", frames'[i].id = x
          PROVE  /\ x \in DOMAIN recs' => frames'[i].text = recs'[x].text
                 /\ \A j \in Slots' : frames'[j].type = "MSG" /\ frames'[j].id = x
                                         => frames'[j].text = frames'[i].text
      <4>1. /\ x \in DOMAIN recs => frames[i].text = recs[x].text
            /\ \A j \in Slots : frames[j].type = "MSG" /\ frames[j].id = x
                                   => frames[j].text = frames[i].text
        BY <2>1, <2>2, <3>6 DEF TextComes
      <4> QED
        BY <2>2, <3>6, <4>1
    <3> QED
      BY <3>4, <3>5, <3>6 DEF TextComes
  <2> QED
    BY <2>4, <2>5
<1>3. ASSUME NEW m \in DOMAIN posts' PROVE m \in DOMAIN posts /\ posts'[m].id = posts[m].id
  BY <1>3
<1> QED
  BY <1>2, <1>3, TextsNow

\* A message is edited or deleted.
LEMMA ChangePostKeeps ==
    ASSUME RowInv, NEW n \in DOMAIN posts, NEW type \in {"EDITED", "DELETED"}, ChangePost(n, type)
    PROVE  RowInv'
<1> DEFINE p == IF type = "DELETED" THEN [posts[n] EXCEPT !.gone = TRUE]
                ELSE [posts[n] EXCEPT !.text = counter + 1]
<1>0. PICK f : f = FrameOf(type, counter + 1, posts[n].id, counter + 1)
  OBVIOUS
<1>1. /\ counter < MaxNumbers /\ counter' = counter + 1 /\ ~posts[n].gone
      /\ posts' = [posts EXCEPT ![n] = p] /\ Emit(<<f>>)
      /\ misheard' = IF conn \/ type = "DELETED" THEN misheard ELSE misheard \cup {posts[n].id}
      /\ inbox' = inbox /\ conn' = conn /\ recs' = recs /\ idbRecs' = idbRecs /\ lastMsg' = lastMsg
      /\ newest' = newest /\ lastReadSeq' = lastReadSeq /\ readCursor' = readCursor /\ pane' = pane
      /\ seenLength' = seenLength /\ texts' = texts /\ readUpTo' = readUpTo /\ late' = late
      /\ outrun' = outrun /\ returned' = returned /\ breaks' = breaks
  <2>1. posts' = [posts EXCEPT ![n] = p]
    BY DEF ChangePost
  <2>2. Emit(<<f>>)
    BY <1>0 DEF ChangePost
  <2> HIDE DEF p
  <2> QED
    BY <2>1, <2>2 DEF ChangePost, rowShown
<1>2. /\ RowFits /\ counter \in Nat
      /\ posts[n] \in [id : Nat, by : {"other", "user"}, text : Nat, gone : BOOLEAN]
  BY Unposted DEF RowInv, RowFits, PostsFit
<1>3. /\ p \in [id : Nat, by : {"other", "user"}, text : Nat, gone : BOOLEAN]
      /\ p.id = posts[n].id
      /\ type = "DELETED" => p.gone /\ p.text = posts[n].text
      /\ type = "EDITED" => p.text = counter + 1 /\ p.gone = posts[n].gone
  <2>1. CASE type = "DELETED"
    <3>1. p = [posts[n] EXCEPT !.gone = TRUE]
      BY <2>1
    <3> HIDE DEF p
    <3>2. p \in [id : Nat, by : {"other", "user"}, text : Nat, gone : BOOLEAN]
      BY <1>2, <3>1
    <3> QED
      BY <1>2, <2>1, <3>1, <3>2
  <2>2. CASE type = "EDITED"
    <3>1. p = [posts[n] EXCEPT !.text = counter + 1]
      BY <2>2
    <3> HIDE DEF p
    <3>2. p \in [id : Nat, by : {"other", "user"}, text : Nat, gone : BOOLEAN]
      BY <1>2, <3>1
    <3> QED
      BY <1>2, <2>2, <3>1, <3>2
  <2> QED
    BY <2>1, <2>2
<1>4. f \in RowFrames /\ f.type = type /\ f.id = posts[n].id /\ f.text = counter + 1
  BY <1>0, <1>2 DEF FrameOf, RowFrames
<1> HIDE DEF p
<1>5. /\ DOMAIN posts' = DOMAIN posts /\ posts'[n] = p
      /\ \A m \in DOMAIN posts : m # n => posts'[m] = posts[m]
  BY <1>1
<1>6. \A m \in DOMAIN posts :
         /\ posts'[m].id = posts[m].id
         /\ posts[m].gone => posts'[m].gone
         /\ posts'[m] \in [id : Nat, by : {"other", "user"}, text : Nat, gone : BOOLEAN]
  BY <1>1, <1>2, <1>3, <1>5 DEF RowFits, PostsFit
<1>7. PostsFit'
  <2>1. counter' \in 0..MaxNumbers /\ DOMAIN posts' \subseteq 1..counter'
    BY <1>1, <1>2, <1>5, RowParameters DEF RowFits, PostsFit
  <2>2. \A m, k \in DOMAIN posts' : posts'[m].id = posts'[k].id => m = k
    BY <1>2, <1>5, <1>6 DEF RowFits, PostsFit
  <2> QED
    BY <1>1, <1>2, <1>5, <1>6, <2>1, <2>2 DEF RowFits, PostsFit, DateNow
<1>8. /\ \A x : (Posted(x) => Posted(x)') /\ (PostGone(x) => PostGone(x)')
      /\ \A r : RecFits(r) => RecFits(r)'
      /\ \A r \in RowFrames : FrameFits(r) => FrameFits(r)'
  <2>1. texts \in Int /\ readUpTo \in Int
    BY <1>2 DEF RowFits, RestFits
  <2> QED
    BY <1>1, <1>5, <1>6, <2>1, Later
<1>9. RecsFit'
  BY <1>1, <1>2, <1>8 DEF RowFits, RecsFit
<1>10. FrameFits(f)'
  <2>1. ASSUME NEW x, x = posts[n].id
        PROVE  Posted(x)' /\ (type = "DELETED" => PostGone(x)')
    BY <1>3, <1>5, <2>1 DEF Posted, PostGone
  <2> QED
    BY <1>4, <2>1 DEF FrameFits
<1>11. FramesTyped' /\ FramesInOrder' /\ NewestComes'
  BY <1>1, <1>2, <1>4, <1>8, <1>10, EventKeeps
<1>12. InboxFits'
  <2>1. \A k \in inbox : posts[k].id = k /\ k \in DOMAIN posts /\ k \notin DOMAIN recs /\ ~conn
                        /\ (posts[k].text = 1 \/ k \in misheard)
    BY <1>2 DEF RowFits, InboxFits
  <2>2. ASSUME NEW k \in inbox PROVE posts'[k].text = 1 \/ k \in misheard'
    <3>1. misheard \subseteq misheard'
      BY <1>1
    <3>2. CASE k = n /\ type = "EDITED"
      BY <1>1, <2>1, <3>2
    <3>3. CASE k = n /\ type = "DELETED"
      BY <1>3, <1>5, <2>1, <3>1, <3>3
    <3>4. CASE k # n
      BY <1>5, <2>1, <3>1, <3>4
    <3> QED
      BY <3>2, <3>3, <3>4
  <2>3. inbox' # {} => ~conn' /\ \E k \in inbox' : \A m \in DOMAIN posts' : m <= k
    BY <1>1, <1>2, <1>5 DEF RowFits, InboxFits
  <2> QED
    BY <1>1, <1>5, <1>6, <2>1, <2>2, <2>3 DEF InboxFits
<1>13. RestFits'
  <2>1. readUpTo' \in 0..counter'
    BY <1>1, <1>2 DEF RowFits, RestFits
  <2>2. ~conn' => frames' = << >>
    BY <1>1, <1>2 DEF RowFits, RestFits, Emit
  <2> QED
    BY <1>1, <1>2, <2>1, <2>2 DEF RowFits, RestFits, DateNow
<1>14. ASSUME ~returned' PROVE TextsCome' /\ PreviewIsNewest'
  <2>1. TextsCome /\ PreviewIsNewest
    BY <1>1, <1>14 DEF RowInv
  <2>2. misheard \subseteq misheard'
    BY <1>1
  <2>3. PreviewIsNewest'
    BY <1>1, <2>1, <2>2, PreviewSame
  <2>4. CASE type = "EDITED"
    <3>1. PICK t : t = counter + 1
      OBVIOUS
    <3>2. posts'[n].id = posts[n].id /\ posts'[n].text = t /\ f.text = t
      BY <1>3, <1>4, <1>5, <2>4, <3>1
    <3>3. misheard' = IF conn THEN misheard ELSE misheard \cup {posts[n].id}
      BY <1>1, <2>4
    <3>4. TextsCome'
      BY <1>1, <1>2, <1>4, <1>5, <2>1, <2>4, <3>2, <3>3, EditTexts
    <3> QED
      BY <2>3, <3>4
  <2>5. CASE type = "DELETED"
    <3>1. \A m \in DOMAIN posts : posts'[m].id = posts[m].id /\ posts'[m].text = posts[m].text
      BY <1>3, <1>5, <1>6, <2>5
    <3>2. misheard' = misheard
      BY <1>1, <2>5
    <3>3. TextsCome'
      BY <1>1, <1>2, <1>4, <1>5, <2>1, <2>5, <3>1, <3>2, EventTexts
    <3> QED
      BY <2>3, <3>3
  <2> QED
    BY <2>4, <2>5
<1> QED
  BY <1>7, <1>9, <1>11, <1>12, <1>13, <1>14 DEF RowInv, RowFits

\* The user reads on the other device.
LEMMA ReadElsewhereKeeps ==
    ASSUME RowInv, NEW n \in DOMAIN posts, ReadElsewhere(n)
    PROVE  RowInv'
<1>0. PICK f : f = FrameOf("RECEIPT", n, 0, 0)
  OBVIOUS
<1>1. /\ n > readUpTo /\ readUpTo' = n /\ inbox' = {} /\ Emit(<<f>>)
      /\ counter' = counter /\ posts' = posts
      /\ conn' = conn /\ recs' = recs /\ idbRecs' = idbRecs /\ lastMsg' = lastMsg
      /\ newest' = newest /\ lastReadSeq' = lastReadSeq /\ readCursor' = readCursor /\ pane' = pane
      /\ seenLength' = seenLength /\ texts' = texts /\ misheard' = misheard /\ late' = late
      /\ outrun' = outrun /\ returned' = returned /\ breaks' = breaks
  BY <1>0 DEF ReadElsewhere, rowShown
<1>2. RowFits /\ n \in Nat /\ n \in 0..counter /\ readUpTo \in 0..counter
  BY Unposted DEF RowInv, RowFits, RestFits
<1>3. f \in RowFrames /\ f.type = "RECEIPT" /\ f.n = n
  BY <1>0, <1>2 DEF FrameOf, RowFrames
<1>4. /\ \A r : RecFits(r) => RecFits(r)'
      /\ \A r \in RowFrames : FrameFits(r) => FrameFits(r)'
  <2>1. texts \in Int /\ readUpTo \in Int /\ readUpTo <= readUpTo'
    BY <1>1, <1>2 DEF RowFits, RestFits
  <2> QED
    BY <1>1, <1>2, <2>1, Later
<1>5. FrameFits(f)'
  BY <1>1, <1>2, <1>3 DEF FrameFits
<1>6. FramesTyped' /\ FramesInOrder' /\ NewestComes'
  BY <1>1, <1>2, <1>3, <1>4, <1>5, EventKeeps
<1>7. PostsFit' /\ RecsFit' /\ InboxFits'
  BY <1>1, <1>2, <1>4 DEF RowFits, PostsFit, RecsFit, InboxFits, DateNow
<1>8. RestFits'
  <2>1. lastReadSeq \in Int /\ (lastReadSeq < DateNow => lastReadSeq <= readUpTo')
    BY <1>1, <1>2 DEF RowFits, RestFits
  <2>2. ~conn' => frames' = << >>
    BY <1>1, <1>2 DEF RowFits, RestFits, Emit
  <2> QED
    BY <1>1, <1>2, <2>1, <2>2 DEF RowFits, RestFits, DateNow
<1>9. ASSUME ~returned' PROVE TextsCome' /\ PreviewIsNewest'
  <2>1. TextsCome /\ PreviewIsNewest
    BY <1>1, <1>9 DEF RowInv
  <2>2. PreviewIsNewest'
    BY <1>1, <2>1, PreviewSame
  <2> QED
    BY <1>1, <1>2, <1>3, <2>1, <2>2, EventTexts
<1> QED
  BY <1>6, <1>7, <1>8, <1>9 DEF RowInv, RowFits

\* A repeated SEND is acknowledged again.
LEMMA ServeAgainKeeps ==
    ASSUME RowInv, NEW id \in DOMAIN recs, ServeAgain(id)
    PROVE  RowInv'
<1>1. /\ conn /\ frames = << >>
      /\ counter' = counter /\ posts' = posts /\ inbox' = inbox
      /\ conn' = conn /\ recs' = recs /\ idbRecs' = idbRecs /\ lastMsg' = lastMsg
      /\ newest' = newest /\ lastReadSeq' = lastReadSeq /\ readCursor' = readCursor /\ pane' = pane
      /\ seenLength' = seenLength /\ texts' = texts /\ readUpTo' = readUpTo /\ misheard' = misheard
      /\ late' = late /\ outrun' = outrun /\ returned' = returned /\ breaks' = breaks
  BY DEF ServeAgain, rowServer, rowShown, rowHistory
<1>2. RowFits
  BY DEF RowInv
<1>3. PICK n \in DOMAIN posts : posts[n].id = id /\ Emit(<<FrameOf("ACK", n, id, 0)>>)
  BY DEF ServeAgain
<1>4. PICK f : f = FrameOf("ACK", n, id, 0)
  OBVIOUS
<1>5. f \in RowFrames /\ f.type = "ACK" /\ f.n = n /\ f.id = id
  <2>1. n \in Nat /\ id \in Nat
    BY <1>2, Unposted
  <2> QED
    BY <1>4, <2>1 DEF FrameOf, RowFrames
<1>6. frames' = <<f>>
  BY <1>1, <1>3, <1>4 DEF Emit
<1>7. /\ frames' \in Seq(RowFrames) /\ Slots' = 1..1 /\ frames'[1] = f /\ Slots = {}
  BY <1>1, <1>5, <1>6 DEF Slots
<1>8. FramesTyped'
  <2>1. FrameFits(f)'
    BY <1>1, <1>3, <1>5 DEF FrameFits
  <2>2. \A i \in Slots' : \A r : r = frames'[i] => FrameFits(r)'
    BY <1>7, <2>1
  <2> QED
    BY <1>7, <2>2, FramesNow
<1>9. FramesInOrder'
  BY <1>5, <1>7 DEF FramesInOrder
<1>10. NewestComes'
  <2>1. \A x : Reached(x) => x <= newest \/ late
    BY <1>7 DEF Reached
  <2>2. \A x : Reached(x) => Reached(x)'
    <3>1. \A i \in Slots' : i = 1 /\ frames'[i].type = "ACK"
      BY <1>5, <1>7
    <3> QED
      BY <1>1, <2>1, <3>1 DEF Reached
  <2>3. \A x : ~Comes("DELETED", x)
    BY <1>7 DEF Comes
  <2>4. \A i \in Slots' : frames'[i].type # "MSG"
    BY <1>5, <1>7
  <2> QED
    BY <1>1, <1>2, <2>2, <2>3, <2>4 DEF NewestComes, RowFits, DateNow
<1>11. PostsFit' /\ RecsFit' /\ InboxFits' /\ RestFits'
  <2>1. texts \in Int /\ readUpTo \in Int
    BY <1>2 DEF RowFits, RestFits
  <2>2. \A r : RecFits(r) => RecFits(r)'
    BY <1>1, <2>1, Later
  <2>3. PostsFit' /\ InboxFits' /\ RecsFit'
    BY <1>1, <1>2, <2>2 DEF RowFits, PostsFit, RecsFit, InboxFits, DateNow
  <2> QED
    BY <1>1, <1>2, <2>3 DEF RowFits, RestFits, DateNow
<1>12. ASSUME ~returned' PROVE TextsCome' /\ PreviewIsNewest'
  <2>1. TextsCome /\ PreviewIsNewest
    BY <1>1, <1>12 DEF RowInv
  <2>2. PreviewIsNewest'
    BY <1>1, <2>1, PreviewSame
  <2>3. Emit(<<f>>)
    BY <1>3, <1>4
  <2> QED
    BY <1>1, <1>2, <1>5, <2>1, <2>2, <2>3, EventTexts
<1> QED
  BY <1>8, <1>9, <1>10, <1>11, <1>12 DEF RowInv, RowFits

-----------------------------------------------------------------------------
(* What the user does.                                                      *)

\* Where ids and numbers end.
LEMMA RecsBounded ==
    ASSUME RowFits
    PROVE  /\ DateNow + MaxTexts \in Nat /\ texts \in Nat /\ texts <= MaxTexts
           /\ \A id \in DOMAIN recs :
                 /\ id \in 0..(DateNow + MaxTexts) /\ id < DateNow + texts
                 /\ recs[id].seq \in 0..(DateNow + MaxTexts)
                 /\ recs[id].seq < DateNow + texts
                 /\ recs[id].seq < DateNow => recs[id].seq \in 1..counter
                 /\ recs[id].seq \in DOMAIN posts \/ recs[id].seq = id
                 /\ recs[id].seq \in DOMAIN posts => posts[recs[id].seq].id = id
           /\ \A n \in DOMAIN idbRecs : n \in 0..(DateNow + MaxTexts)
<1>1. texts \in 0..MaxTexts
  BY DEF RowFits, RestFits
<1>2. DateNow + MaxTexts \in Nat /\ texts \in Nat /\ texts <= MaxTexts
  BY <1>1, RowParameters
<1>3. ASSUME NEW r, RecFits(r)
      PROVE  /\ r.id \in Nat /\ r.id < DateNow + texts /\ r.seq \in Nat /\ r.seq < DateNow + texts
             /\ r.seq < DateNow => r.seq \in 1..counter
             /\ r.seq \in DOMAIN posts \/ r.seq = r.id
             /\ r.seq \in DOMAIN posts => posts[r.seq].id = r.id
  <2>1. r.id \in Nat /\ r.seq \in Nat
    BY <1>3 DEF RecFits, Records
  <2>2. r.id < DateNow + texts
    BY <1>2, <1>3, <2>1, RowParameters DEF RecFits
  <2>3. CASE r.seq = r.id /\ r.id >= DateNow
    <3>1. r.seq \notin DOMAIN posts
      BY <2>1, <2>3, Unposted, RowParameters
    <3> QED
      BY <2>1, <2>2, <2>3, <3>1, RowParameters
  <2>4. CASE ~(r.seq = r.id /\ r.id >= DateNow)
    <3>1. r.seq \in DOMAIN posts /\ posts[r.seq].id = r.id
      BY <1>3, <2>1, <2>4, RowParameters DEF RecFits
    <3>2. r.seq \in 1..counter /\ r.seq < DateNow
      BY <2>1, <3>1, Unposted
    <3> QED
      BY <1>2, <2>1, <2>2, <3>1, <3>2, RowParameters
  <2> QED
    BY <2>3, <2>4
<1>4. ASSUME NEW id \in DOMAIN recs
      PROVE  /\ id \in 0..(DateNow + MaxTexts) /\ id < DateNow + texts
             /\ recs[id].seq \in 0..(DateNow + MaxTexts)
             /\ recs[id].seq < DateNow + texts
             /\ recs[id].seq < DateNow => recs[id].seq \in 1..counter
             /\ recs[id].seq \in DOMAIN posts \/ recs[id].seq = id
             /\ recs[id].seq \in DOMAIN posts => posts[recs[id].seq].id = id
  <2>1. recs[id].id = id /\ RecFits(recs[id])
    BY DEF RowFits, RecsFit
  <2> DEFINE r == recs[id]
  <2>2. r.id = id /\ RecFits(r)
    BY <2>1
  <2> HIDE DEF r
  <2>3. /\ r.id \in Nat /\ r.id < DateNow + texts /\ r.seq \in Nat /\ r.seq < DateNow + texts
        /\ r.seq < DateNow => r.seq \in 1..counter
        /\ r.seq \in DOMAIN posts \/ r.seq = r.id
        /\ r.seq \in DOMAIN posts => posts[r.seq].id = r.id
    BY <1>3, <2>2
  <2>4. r.id \in 0..(DateNow + MaxTexts) /\ r.seq \in 0..(DateNow + MaxTexts)
    BY <1>2, <2>3, RowParameters
  <2> QED
    BY <2>2, <2>3, <2>4 DEF r
<1>5. ASSUME NEW n \in DOMAIN idbRecs PROVE n \in 0..(DateNow + MaxTexts)
  <2> DEFINE r == idbRecs[n]
  <2>1. r.seq = n /\ RecFits(r)
    BY DEF RowFits, RecsFit
  <2> HIDE DEF r
  <2>2. n \in Nat /\ n < DateNow + texts
    BY <1>3, <2>1
  <2> QED
    BY <1>2, <2>2, RowParameters
<1> QED
  BY <1>2, <1>4, <1>5

\* Nothing is stored, sent or shown.
LEMMA ShownSame ==
    ASSUME RowInv, UNCHANGED <<rowServer, conn, frames, rowShown, newest, texts, misheard, late,
                               outrun, returned>>,
           readUpTo' \in Int, readUpTo <= readUpTo', RestFits'
    PROVE  RowInv'
<1>1. /\ counter' = counter /\ posts' = posts /\ inbox' = inbox /\ conn' = conn
      /\ frames' = frames /\ recs' = recs /\ idbRecs' = idbRecs /\ lastMsg' = lastMsg
      /\ newest' = newest /\ texts' = texts /\ misheard' = misheard /\ late' = late
      /\ outrun' = outrun /\ returned' = returned /\ Slots' = Slots
  BY DEF rowServer, rowShown, Slots
<1>2. RowFits
  BY DEF RowInv
<1>3. /\ \A r : RecFits(r) => RecFits(r)'
      /\ \A r \in RowFrames : FrameFits(r) => FrameFits(r)'
  <2>1. texts \in Int /\ readUpTo \in Int
    BY <1>2 DEF RowFits, RestFits
  <2> QED
    BY <1>1, <2>1, Later
<1>4. FramesTyped'
  <2>1. \A i \in Slots' : \A r : r = frames'[i] => FrameFits(r)'
    <3>1. \A i \in Slots : frames[i] \in RowFrames /\ FrameFits(frames[i])
      BY <1>2 DEF RowFits, FramesTyped, Slots
    <3> QED
      BY <1>1, <1>3, <3>1
  <2>2. frames' \in Seq(RowFrames)
    BY <1>1, <1>2 DEF RowFits, FramesTyped
  <2> QED
    BY <2>1, <2>2, FramesNow
<1>5. PostsFit' /\ InboxFits' /\ RecsFit'
  BY <1>1, <1>2, <1>3 DEF RowFits, PostsFit, InboxFits, RecsFit, DateNow
<1>6. FramesInOrder'
  BY <1>1, <1>2 DEF RowFits, FramesInOrder, Slots
<1>7. NewestComes'
  BY <1>1, <1>2 DEF RowFits, NewestComes, Reached, LastTold, Told, Comes, Slots, DateNow
<1>8. ASSUME ~returned' PROVE TextsCome' /\ PreviewIsNewest'
  <2>1. TextsCome /\ PreviewIsNewest
    BY <1>1, <1>8 DEF RowInv
  <2>2. PreviewIsNewest'
    BY <1>1, <2>1, PreviewSame
  <2>3. TextsCome'
    BY <1>1, <2>1 DEF TextsCome, TextComes, LastEdit, Comes, Slots
  <2> QED
    BY <2>2, <2>3
<1> QED
  BY <1>2, <1>4, <1>5, <1>6, <1>7, <1>8 DEF RowInv, RowFits

\* What is in the open pane is read: no number that is read is above the counter.
LEMMA ReadPaneKeeps ==
    ASSUME RowInv, ReadPane
    PROVE  RowInv'
<1>1. /\ UNCHANGED <<rowServer, conn, frames, rowShown, newest, texts, misheard, late, outrun,
                     returned>>
      /\ counter' = counter /\ conn' = conn /\ frames' = frames /\ recs' = recs
      /\ lastMsg' = lastMsg /\ newest' = newest /\ texts' = texts /\ late' = late
      /\ outrun' = outrun /\ returned' = returned /\ pane' = pane /\ breaks' = breaks
      /\ seenLength' = Cardinality(DOMAIN recs)
      /\ \/ UNCHANGED <<lastReadSeq, readCursor, readUpTo>>
         \/ /\ lastReadSeq' = LastRealSeq /\ readCursor' = LastRealSeq
            /\ readUpTo' = Larger(readUpTo, Max(RealSeqs \cap 0..counter))
  BY DEF ReadPane, rowServer, rowShown
<1>2. RowFits /\ counter \in Nat /\ readUpTo \in 0..counter
  BY Unposted DEF RowInv, RowFits, RestFits
<1>3. Cardinality(DOMAIN recs) \in Nat
  <2>1. DOMAIN recs \in SUBSET (0..(DateNow + MaxTexts))
    BY <1>2, RecsBounded
  <2> QED
    BY <1>2, <2>1, RecsBounded, Bounded
<1>4. /\ RealSeqs \in SUBSET (0..(DateNow + MaxTexts)) /\ 0 \in RealSeqs
      /\ \A n \in RealSeqs : n \in Nat /\ (n < DateNow => n \in 0..counter)
  <2>1. \A n \in RealSeqs : n = 0 \/ \E id \in DOMAIN recs : n = recs[id].seq
    BY DEF RealSeqs
  <2> QED
    BY <1>2, <2>1, RecsBounded DEF RealSeqs
<1> DEFINE S == RealSeqs \cap 0..counter
<1>5. /\ LastRealSeq \in RealSeqs /\ LastRealSeq \in Nat
      /\ LastRealSeq < DateNow => LastRealSeq \in S
  <2>1. DateNow + MaxTexts \in Nat /\ RealSeqs # {}
    BY <1>2, <1>4, RecsBounded
  <2>2. LastRealSeq \in RealSeqs
    BY <1>4, <2>1, Extremes DEF LastRealSeq
  <2> QED
    BY <1>4, <2>2
<1>6. Max(S) \in 0..counter /\ \A n \in S : n <= Max(S)
  <2>1. S \in SUBSET (0..counter) /\ S # {}
    BY <1>2, <1>4
  <2> HIDE DEF S
  <2> QED
    BY <1>2, <2>1, Extremes
<1>7. /\ readUpTo' \in 0..counter /\ readUpTo <= readUpTo' /\ lastReadSeq' \in Nat
      /\ readCursor' \in Nat
      /\ (lastReadSeq' < DateNow => lastReadSeq' <= readUpTo')
  <2>1. CASE UNCHANGED <<lastReadSeq, readCursor, readUpTo>>
    BY <1>2, <2>1 DEF RowFits, RestFits
  <2>2. CASE /\ lastReadSeq' = LastRealSeq /\ readCursor' = LastRealSeq
             /\ readUpTo' = Larger(readUpTo, Max(S))
    <3> HIDE DEF S
    <3> QED
      BY <1>2, <1>5, <1>6, <2>2 DEF Larger
  <2> QED
    BY <1>1, <2>1, <2>2
<1>8. RestFits'
  BY <1>1, <1>2, <1>3, <1>7 DEF RowFits, RestFits, DateNow
<1> QED
  BY <1>1, <1>7, <1>8, ShownSame

\* The pane is opened or closed.
LEMMA SelectKeeps ==
    ASSUME RowInv, Select
    PROVE  RowInv'
<1>1. /\ UNCHANGED <<rowServer, conn, frames, rowShown, newest, texts, misheard, late, outrun,
                     returned>>
      /\ counter' = counter /\ conn' = conn /\ frames' = frames /\ recs' = recs
      /\ lastMsg' = lastMsg /\ newest' = newest /\ texts' = texts /\ late' = late
      /\ outrun' = outrun /\ returned' = returned /\ breaks' = breaks
      /\ seenLength' = 0 /\ pane' = ~pane /\ lastReadSeq' = lastReadSeq
      /\ readCursor' = readCursor /\ readUpTo' = readUpTo
  BY DEF Select, rowServer, rowShown, rowHistory
<1>2. RestFits
  BY DEF RowInv, RowFits
<1>3. pane' \in BOOLEAN
  BY <1>1
<1>4. RestFits'
  BY <1>1, <1>2, <1>3 DEF RestFits, DateNow
<1>5. readUpTo' \in Int /\ readUpTo <= readUpTo'
  BY <1>1, <1>2 DEF RestFits
<1> QED
  BY <1>1, <1>4, <1>5, ShownSame

\* A record is put where none of another message is.
LEMMA PuttingRec ==
    ASSUME RowFits, NEW m, recs' = Keep(recs, m.id, m), idbRecs' = Keep(idbRecs, m.seq, m),
           RecFits(m)', \A r : RecFits(r) => RecFits(r)',
           \A id \in DOMAIN recs : id # m.id => recs[id].seq # m.seq
    PROVE  /\ RecsFit' /\ DOMAIN recs' = DOMAIN recs \cup {m.id} /\ recs'[m.id] = m
           /\ \A id \in DOMAIN recs : id # m.id => recs'[id] = recs[id]
<1>1. /\ DOMAIN recs' = DOMAIN recs \cup {m.id} /\ recs'[m.id] = m
      /\ \A id \in DOMAIN recs : id # m.id => recs'[id] = recs[id]
  BY DEF Keep
<1>2. /\ DOMAIN idbRecs' = DOMAIN idbRecs \cup {m.seq} /\ idbRecs'[m.seq] = m
      /\ \A n \in DOMAIN idbRecs : n # m.seq => idbRecs'[n] = idbRecs[n]
  BY DEF Keep
<1>3. ASSUME NEW id \in DOMAIN recs'
      PROVE  /\ recs'[id].id = id
             /\ recs'[id].seq \in DOMAIN idbRecs' /\ idbRecs'[recs'[id].seq] = recs'[id]
  <2>1. CASE id = m.id
    BY <1>1, <1>2, <2>1
  <2>2. CASE id # m.id
    <3>1. id \in DOMAIN recs /\ recs'[id] = recs[id]
      BY <1>1, <2>2
    <3>2. recs[id].id = id /\ recs[id].seq \in DOMAIN idbRecs /\ idbRecs[recs[id].seq] = recs[id]
          /\ recs[id].seq # m.seq
      BY <2>2, <3>1 DEF RowFits, RecsFit
    <3> QED
      BY <1>2, <3>1, <3>2
  <2> QED
    BY <2>1, <2>2
<1>4. ASSUME NEW r, \/ \E id \in DOMAIN recs' : r = recs'[id]
                    \/ \E n \in DOMAIN idbRecs' : r = idbRecs'[n]
      PROVE  RecFits(r)'
  <2>1. \/ r = m
        \/ \E id \in DOMAIN recs : r = recs[id]
        \/ \E n \in DOMAIN idbRecs : r = idbRecs[n]
    BY <1>1, <1>2, <1>4
  <2>2. r = m \/ RecFits(r)
    BY <2>1 DEF RowFits, RecsFit
  <2> QED
    BY <2>2
<1>5. ASSUME NEW n \in DOMAIN idbRecs'
      PROVE  idbRecs'[n].seq = n /\ idbRecs'[n].id \in DOMAIN recs'
  <2>1. CASE n = m.seq
    BY <1>1, <1>2, <2>1
  <2>2. CASE n # m.seq
    <3>1. n \in DOMAIN idbRecs /\ idbRecs'[n] = idbRecs[n]
      BY <1>2, <2>2
    <3>2. idbRecs[n].seq = n /\ idbRecs[n].id \in DOMAIN recs
      BY <3>1 DEF RowFits, RecsFit
    <3> QED
      BY <1>1, <3>1, <3>2
  <2> QED
    BY <2>1, <2>2
<1>6. /\ \A id \in DOMAIN recs' : RecFits(recs[id])'
      /\ \A n \in DOMAIN idbRecs' : RecFits(idbRecs[n])'
  <2>1. \A id \in DOMAIN recs' : \A r : r = recs'[id] => RecFits(r)'
    BY <1>4
  <2>2. \A n \in DOMAIN idbRecs' : \A r : r = idbRecs'[n] => RecFits(r)'
    BY <1>4
  <2> QED
    BY <2>1, <2>2 DEF RecFits
<1> QED
  BY <1>1, <1>3, <1>5, <1>6 DEF RecsFit

\* A text is shown under its pending number, above all the others.
LEMMA SendHereKeeps ==
    ASSUME RowInv, SendHere
    PROVE  RowInv'
<1> DEFINE fresh == DateNow + texts
<1>0. PICK m : m = RecordOf(fresh, fresh, 1, TRUE)
  OBVIOUS
<1>1. /\ texts < MaxTexts /\ texts' = texts + 1 /\ lastMsg' = Preview(m)
      /\ recs' = Keep(recs, m.id, m) /\ idbRecs' = Keep(idbRecs, m.seq, m)
      /\ counter' = counter /\ posts' = posts /\ inbox' = inbox /\ conn' = conn
      /\ frames' = frames /\ newest' = newest /\ lastReadSeq' = lastReadSeq
      /\ readCursor' = readCursor /\ pane' = pane /\ seenLength' = seenLength
      /\ readUpTo' = readUpTo /\ misheard' = misheard /\ late' = late
      /\ outrun' = outrun /\ returned' = returned /\ breaks' = breaks /\ Slots' = Slots
  BY <1>0 DEF SendHere, InsertRec, rowServer, rowHistory, Slots
<1>2. RowFits /\ texts \in Nat /\ DateNow \in Nat /\ fresh \in Nat /\ fresh >= DateNow
  BY RecsBounded, RowParameters DEF RowInv
<1> HIDE DEF fresh
<1>3. m = [id |-> fresh, seq |-> fresh, text |-> 1, gone |-> FALSE, pending |-> TRUE]
  BY <1>0 DEF RecordOf
<1>4. m \in Records /\ m.id = fresh /\ m.seq = fresh /\ m.text = 1 /\ m.gone = FALSE
  BY <1>2, <1>3 DEF Records
<1>5. /\ fresh \notin DOMAIN recs /\ ~Posted(fresh)
      /\ \A id \in DOMAIN recs : recs[id].seq \in Nat /\ recs[id].seq < fresh
  <2>1. \A id \in DOMAIN recs : /\ id \in Nat /\ id < fresh
                                /\ recs[id].seq \in Nat /\ recs[id].seq < fresh
    BY <1>2, RecsBounded DEF fresh
  <2>2. fresh \notin DOMAIN recs
    BY <1>2, <2>1
  <2> QED
    BY <1>2, <2>1, <2>2 DEF RowFits, PostsFit, Posted
<1>6. /\ \A x : (Posted(x) => Posted(x)') /\ (PostGone(x) => PostGone(x)')
      /\ \A r : RecFits(r) => RecFits(r)'
      /\ \A f \in RowFrames : FrameFits(f) => FrameFits(f)'
  <2>1. readUpTo \in Int
    BY <1>2 DEF RowFits, RestFits
  <2> QED
    BY <1>1, <1>2, <2>1, Later
<1>7. RecFits(m)'
  <2>1. fresh < DateNow + texts'
    BY <1>1, <1>2 DEF fresh
  <2> QED
    BY <1>2, <1>4, <2>1 DEF RecFits, DateNow
<1>8. /\ RecsFit' /\ DOMAIN recs' = DOMAIN recs \cup {fresh} /\ recs'[fresh] = m
      /\ \A id \in DOMAIN recs : recs'[id] = recs[id]
  <2>1. \A id \in DOMAIN recs : id # m.id => recs[id].seq # m.seq
    BY <1>2, <1>4, <1>5
  <2>2. /\ RecsFit' /\ DOMAIN recs' = DOMAIN recs \cup {m.id} /\ recs'[m.id] = m
        /\ \A id \in DOMAIN recs : id # m.id => recs'[id] = recs[id]
    BY <1>1, <1>2, <1>6, <1>7, <2>1, PuttingRec
  <2> QED
    BY <1>4, <1>5, <2>2
<1>9. PostsFit'
  BY <1>1, <1>2, <1>8 DEF RowFits, PostsFit, DateNow
<1>10. InboxFits'
  <2>1. \A n \in inbox : n \in DOMAIN posts /\ n < DateNow /\ n \in Nat
    BY <1>2, Unposted DEF RowFits, InboxFits
  <2>2. \A n \in inbox : n # fresh
    BY <1>2, <2>1
  <2> QED
    BY <1>1, <1>2, <1>8, <2>2 DEF RowFits, InboxFits
<1>11. FramesTyped'
  <2>1. \A i \in Slots' : \A r : r = frames'[i] => FrameFits(r)'
    <3>1. \A i \in Slots : frames[i] \in RowFrames /\ FrameFits(frames[i])
      BY <1>2 DEF RowFits, FramesTyped, Slots
    <3> QED
      BY <1>1, <1>6, <3>1
  <2>2. frames' \in Seq(RowFrames)
    BY <1>1, <1>2 DEF RowFits, FramesTyped
  <2> QED
    BY <2>1, <2>2, FramesNow
<1>12. \A i \in Slots : frames[i].type = "MSG" => frames[i].id # fresh
  BY <1>2, <1>5 DEF RowFits, FramesTyped, FrameFits, Posted
<1>13. FramesInOrder'
  BY <1>1, <1>2, <1>8, <1>12 DEF RowFits, FramesInOrder
<1>14. NewestComes'
  <2>1. /\ \A i : LastTold(i)' <=> LastTold(i)
        /\ \A x : (Reached(x)' <=> Reached(x)) /\ (Comes("DELETED", x)' <=> Comes("DELETED", x))
    BY <1>1 DEF Reached, LastTold, Told, Comes
  <2>2. \A id \in DOMAIN recs' : id < DateNow => id \in DOMAIN recs /\ recs'[id] = recs[id]
    BY <1>2, <1>8
  <2> QED
    BY <1>1, <1>2, <2>1, <2>2 DEF RowFits, NewestComes, DateNow
<1>15. lastMsg' \in [id : Nat, seq : Nat, text : Nat, gone : BOOLEAN]
  <2>1. [id |-> m.id, seq |-> m.seq, text |-> m.text, gone |-> FALSE]
           \in [id : Nat, seq : Nat, text : Nat, gone : BOOLEAN]
    BY <1>2, <1>4
  <2> QED
    BY <1>1, <1>2, <2>1 DEF Preview, RowFits, RestFits
<1>16. RestFits'
  <2>1. texts' \in 0..MaxTexts
    BY <1>1, <1>2, RowParameters
  <2>2. DOMAIN recs' # {}
    BY <1>8
  <2> QED
    BY <1>1, <1>2, <1>15, <2>1, <2>2 DEF RowFits, RestFits, DateNow
<1>17. ASSUME ~returned' PROVE TextsCome' /\ PreviewIsNewest'
  <2>1. TextsCome /\ PreviewIsNewest
    BY <1>1, <1>17 DEF RowInv
  <2>2. TextsCome'
    <3>1. ASSUME NEW n \in DOMAIN posts, NEW x, x = posts[n].id, x \notin misheard
          PROVE  TextComes(n, x)'
      <4>1. TextComes(n, x) /\ x # fresh
        BY <1>5, <2>1, <3>1 DEF TextsCome, Posted
      <4>2. /\ Comes("EDITED", x)' <=> Comes("EDITED", x)
            /\ \A j : LastEdit(j, x)' <=> LastEdit(j, x)
        BY <1>1 DEF Comes, LastEdit
      <4>3. x \in DOMAIN recs' <=> x \in DOMAIN recs
        BY <1>8, <4>1
      <4>4. x \in DOMAIN recs => recs'[x] = recs[x]
        BY <1>8
      <4> QED
        BY <1>1, <4>1, <4>2, <4>3, <4>4 DEF TextComes
    <3> QED
      BY <1>1, <3>1, TextsNow
  <2>3. lastMsg = NoMsg \/ lastMsg.seq < fresh
    <3>1. DOMAIN recs # {} => lastMsg.id \in DOMAIN recs /\ lastMsg.seq = recs[lastMsg.id].seq
      BY <2>1 DEF PreviewIsNewest
    <3> QED
      BY <1>2, <1>5, <3>1 DEF RowFits, RestFits
  <2>4. lastMsg' = [id |-> m.id, seq |-> m.seq, text |-> m.text, gone |-> FALSE]
    <3>1. lastMsg.seq \in Nat
      BY <1>2 DEF RowFits, RestFits
    <3> QED
      BY <1>1, <1>2, <1>4, <2>3, <3>1 DEF Preview
  <2>5. lastMsg'.id = fresh /\ lastMsg'.seq = fresh /\ lastMsg'.text = 1 /\ lastMsg'.gone = FALSE
    BY <1>4, <2>4
  <2>6. \A id \in DOMAIN recs' : ~(recs'[id].seq > fresh)
    BY <1>2, <1>4, <1>5, <1>8
  <2>7. PreviewIsNewest'
    BY <1>4, <1>8, <2>5, <2>6 DEF PreviewIsNewest
  <2> QED
    BY <2>2, <2>7
<1> QED
  BY <1>8, <1>9, <1>10, <1>11, <1>13, <1>14, <1>16, <1>17 DEF RowInv, RowFits

-----------------------------------------------------------------------------
(* The connection breaks, the page is reloaded.                             *)

\* Nothing comes any more; the edits that were on the way are not heard.
LEMMA Losing ==
    ASSUME RowFits, Lost, rowServer' = rowServer, texts' = texts, readUpTo' = readUpTo,
           EditsLost \subseteq misheard', misheard \subseteq misheard', DOMAIN recs' = DOMAIN recs,
           TextsCome => \/ returned'
                        \/ recs' = recs
    PROVE  /\ PostsFit' /\ InboxFits' /\ FramesTyped' /\ FramesInOrder' /\ NewestComes'
           /\ counter' = counter /\ conn' = FALSE /\ frames' = << >>
           /\ breaks \in 0..MaxBreaks => breaks' \in 0..MaxBreaks
           /\ TextsCome /\ ~returned' => TextsCome'
<1>1. /\ counter' = counter /\ posts' = posts /\ inbox' = inbox
      /\ breaks < MaxBreaks /\ breaks' = breaks + 1 /\ conn' = FALSE /\ frames' = << >>
  BY DEF Lost, rowServer
<1>2. Slots' = {} /\ frames' \in Seq(RowFrames)
  BY <1>1 DEF Slots
<1>3. PostsFit'
  BY <1>1 DEF RowFits, PostsFit, DateNow
<1>4. InboxFits'
  BY <1>1 DEF RowFits, InboxFits
<1>5. FramesTyped' /\ FramesInOrder' /\ NewestComes'
  BY <1>1, <1>2 DEF FramesTyped, FramesInOrder, NewestComes
<1>6. ASSUME TextsCome, recs' = recs PROVE TextsCome'
  <2>1. ASSUME NEW n \in DOMAIN posts, NEW x, x = posts[n].id, x \notin misheard'
        PROVE  TextComes(n, x)'
    <3>1. TextComes(n, x)
      BY <1>6, <2>1 DEF TextsCome
    <3>2. ~Comes("EDITED", x)
      BY <2>1 DEF Comes, EditsLost, Slots
    <3> QED
      BY <1>1, <1>2, <1>6, <3>1, <3>2 DEF TextComes, LastEdit
  <2> QED
    BY <1>1, <2>1, TextsNow
<1>7. breaks \in 0..MaxBreaks => breaks' \in 0..MaxBreaks
  BY <1>1, RowParameters
<1> QED
  BY <1>1, <1>3, <1>4, <1>5, <1>6, <1>7

\* What was on the socket is lost.
LEMMA BreakKeeps ==
    ASSUME RowInv, Break
    PROVE  RowInv'
<1>1. /\ Lost /\ misheard' = misheard \cup EditsLost /\ rowServer' = rowServer
      /\ recs' = recs /\ idbRecs' = idbRecs /\ lastMsg' = lastMsg /\ posts' = posts
      /\ newest' = newest /\ lastReadSeq' = lastReadSeq /\ readCursor' = readCursor /\ pane' = pane
      /\ seenLength' = seenLength /\ texts' = texts /\ readUpTo' = readUpTo /\ late' = late
      /\ outrun' = outrun /\ returned' = returned
  BY DEF Break, rowShown, rowServer
<1>2. RowFits
  BY DEF RowInv
<1>3. /\ PostsFit' /\ InboxFits' /\ FramesTyped' /\ FramesInOrder' /\ NewestComes'
      /\ counter' = counter /\ conn' = FALSE /\ frames' = << >>
      /\ breaks \in 0..MaxBreaks => breaks' \in 0..MaxBreaks
      /\ TextsCome /\ ~returned' => TextsCome'
  BY <1>1, <1>2, Losing
<1>4. RecsFit'
  <2>1. texts \in Int /\ readUpTo \in Int
    BY <1>2 DEF RowFits, RestFits
  <2>2. \A r : RecFits(r) => RecFits(r)'
    BY <1>1, <2>1, Later
  <2> QED
    BY <1>1, <1>2, <2>2 DEF RowFits, RecsFit
<1>5. RestFits'
  BY <1>1, <1>2, <1>3 DEF RowFits, RestFits, DateNow
<1>6. ASSUME ~returned' PROVE TextsCome' /\ PreviewIsNewest'
  <2>1. TextsCome /\ PreviewIsNewest
    BY <1>1, <1>6 DEF RowInv
  <2>2. PreviewIsNewest'
    BY <1>1, <2>1, PreviewSame
  <2> QED
    BY <1>3, <1>6, <2>1, <2>2
<1> QED
  BY <1>3, <1>4, <1>5, <1>6 DEF RowInv, RowFits

\* What is loaded is the record of a message under its largest number.
LEMMA Loading ==
    ASSUME RowFits
    PROVE  /\ \A id \in DOMAIN recs : /\ LoadedRec(id).id = id /\ RecFits(LoadedRec(id))
                                      /\ LoadedRec(id).seq \in DOMAIN idbRecs
                                      /\ idbRecs[LoadedRec(id).seq] = LoadedRec(id)
           /\ DOMAIN idbRecs # {} =>
                 /\ TopLoaded.id \in DOMAIN recs /\ RecFits(TopLoaded)
                 /\ LoadedRec(TopLoaded.id) = TopLoaded
                 /\ \A n \in DOMAIN idbRecs : n <= TopLoaded.seq
<1> DEFINE Under(id) == {n \in DOMAIN idbRecs : idbRecs[n].id = id}
<1>1. /\ DOMAIN idbRecs \in SUBSET (0..(DateNow + MaxTexts)) /\ DateNow + MaxTexts \in Nat
      /\ \A n \in DOMAIN idbRecs :
            idbRecs[n].seq = n /\ RecFits(idbRecs[n]) /\ idbRecs[n].id \in DOMAIN recs
  BY RecsBounded DEF RowFits, RecsFit
<1>2. ASSUME NEW id \in DOMAIN recs
      PROVE  /\ Max(Under(id)) \in Under(id) /\ \A n \in Under(id) : n <= Max(Under(id))
             /\ LoadedRec(id) = idbRecs[Max(Under(id))]
  <2>1. Under(id) \in SUBSET (0..(DateNow + MaxTexts))
    BY <1>1
  <2>2. Under(id) # {}
    BY DEF RowFits, RecsFit
  <2>3. LoadedRec(id) = idbRecs[Max(Under(id))]
    BY DEF LoadedRec
  <2> HIDE DEF Under
  <2> QED
    BY <1>1, <2>1, <2>2, <2>3, Extremes
<1>3. ASSUME NEW id \in DOMAIN recs
      PROVE  /\ LoadedRec(id).id = id /\ RecFits(LoadedRec(id))
             /\ LoadedRec(id).seq \in DOMAIN idbRecs
             /\ idbRecs[LoadedRec(id).seq] = LoadedRec(id)
  <2>1. PICK k : k = Max(Under(id))
    OBVIOUS
  <2>2. k \in DOMAIN idbRecs /\ idbRecs[k].id = id /\ LoadedRec(id) = idbRecs[k]
    BY <1>2, <2>1
  <2>3. idbRecs[k].seq = k /\ RecFits(idbRecs[k])
    BY <1>1, <2>2
  <2> QED
    BY <2>2, <2>3
<1>4. ASSUME DOMAIN idbRecs # {}
      PROVE  /\ TopLoaded.id \in DOMAIN recs /\ RecFits(TopLoaded)
             /\ LoadedRec(TopLoaded.id) = TopLoaded
             /\ \A n \in DOMAIN idbRecs : n <= TopLoaded.seq
  <2>1. PICK k : k = Max(DOMAIN idbRecs)
    OBVIOUS
  <2>2. k \in DOMAIN idbRecs /\ \A n \in DOMAIN idbRecs : n <= k
    BY <1>1, <1>4, <2>1, Extremes
  <2>3. TopLoaded = idbRecs[k]
    BY <2>1 DEF TopLoaded
  <2>4. idbRecs[k].seq = k /\ RecFits(idbRecs[k]) /\ idbRecs[k].id \in DOMAIN recs
    BY <1>1, <2>2
  <2>5. PICK id \in DOMAIN recs : id = idbRecs[k].id
    BY <2>4
  <2>6. PICK g : g = Max(Under(id))
    OBVIOUS
  <2>7. /\ g \in DOMAIN idbRecs /\ k <= g /\ LoadedRec(id) = idbRecs[g]
    BY <1>2, <2>2, <2>5, <2>6
  <2>8. g \in Int /\ k \in Int
    BY <1>1, <2>2, <2>7
  <2>9. g = k
    BY <2>2, <2>7, <2>8
  <2> QED
    BY <2>2, <2>3, <2>4, <2>5, <2>7, <2>9
<1> QED
  BY <1>3, <1>4

\* The records come back from the disk.
LEMMA ReloadRowKeeps ==
    ASSUME RowInv, ReloadRow
    PROVE  RowInv'
<1>1. /\ Lost /\ rowServer' = rowServer /\ posts' = posts /\ idbRecs' = idbRecs
      /\ recs' = [id \in DOMAIN recs |-> LoadedRec(id)]
      /\ lastMsg' = IF PreviewLoaded
                    THEN [id |-> TopLoaded.id, seq |-> TopLoaded.seq, text |-> TopLoaded.text,
                          gone |-> FALSE]
                    ELSE lastMsg
      /\ misheard' = misheard \cup EditsLost
                     \cup (IF PreviewLoaded /\ TopLoaded.gone THEN {TopLoaded.id} ELSE {})
      /\ returned' = (returned \/ recs' # recs)
      /\ newest' = IF readCursor # 0 THEN readCursor ELSE newest
      /\ lastReadSeq' = lastReadSeq /\ readCursor' = readCursor /\ pane' = pane
      /\ seenLength' = 0 /\ texts' = texts /\ readUpTo' = readUpTo /\ late' = late
      /\ outrun' = outrun
  BY DEF ReloadRow, rowServer
<1>2. RowFits
  BY DEF RowInv
<1>3. DOMAIN recs' = DOMAIN recs /\ \A id \in DOMAIN recs : recs'[id] = LoadedRec(id)
  BY <1>1
<1>4. /\ PostsFit' /\ InboxFits' /\ FramesTyped' /\ FramesInOrder' /\ NewestComes'
      /\ counter' = counter /\ conn' = FALSE /\ frames' = << >>
      /\ breaks \in 0..MaxBreaks => breaks' \in 0..MaxBreaks
      /\ TextsCome /\ ~returned' => TextsCome'
  <2>1. TextsCome => returned' \/ recs' = recs
    BY <1>1
  <2>2. EditsLost \subseteq misheard' /\ misheard \subseteq misheard'
    BY <1>1
  <2> QED
    BY <1>1, <1>2, <1>3, <2>1, <2>2, Losing
<1>5. RecsFit'
  <2>1. texts \in Int /\ readUpTo \in Int
    BY <1>2 DEF RowFits, RestFits
  <2>2. \A r : RecFits(r) => RecFits(r)'
    BY <1>1, <2>1, Later
  <2>3. \A id \in DOMAIN recs' : /\ recs'[id].id = id /\ RecFits(recs'[id])
                                 /\ recs'[id].seq \in DOMAIN idbRecs'
                                 /\ idbRecs'[recs'[id].seq] = recs'[id]
    BY <1>1, <1>2, <1>3, Loading
  <2>4. \A id \in DOMAIN recs' : RecFits(recs[id])'
    <3>1. \A id \in DOMAIN recs' : \A r : r = recs'[id] => RecFits(r)'
      BY <2>2, <2>3
    <3> QED
      BY <3>1 DEF RecFits
  <2>5. \A n \in DOMAIN idbRecs' : idbRecs'[n].seq = n /\ idbRecs'[n].id \in DOMAIN recs'
    BY <1>1, <1>2, <1>3 DEF RowFits, RecsFit
  <2>6. \A n \in DOMAIN idbRecs' : RecFits(idbRecs[n])'
    <3>1. \A n \in DOMAIN idbRecs' : \A r : r = idbRecs'[n] => RecFits(r)'
      BY <1>1, <1>2, <2>2 DEF RowFits, RecsFit
    <3> QED
      BY <3>1 DEF RecFits
  <2> QED
    BY <2>3, <2>4, <2>5, <2>6 DEF RecsFit
<1>6. PreviewLoaded => TopLoaded.id \in DOMAIN recs /\ RecFits(TopLoaded)
                       /\ LoadedRec(TopLoaded.id) = TopLoaded
                       /\ \A n \in DOMAIN idbRecs : n <= TopLoaded.seq
  BY <1>2, Loading DEF PreviewLoaded
<1>7. RestFits'
  <2>1. lastMsg' \in [id : Nat, seq : Nat, text : Nat, gone : BOOLEAN]
    <3>1. CASE PreviewLoaded
      <4>1. TopLoaded.id \in Nat /\ TopLoaded.seq \in Nat /\ TopLoaded.text \in Nat
        BY <1>6, <3>1 DEF RecFits, Records
      <4> QED
        BY <1>1, <3>1, <4>1
    <3>2. CASE ~PreviewLoaded
      BY <1>1, <1>2, <3>2 DEF RowFits, RestFits
    <3> QED
      BY <3>1, <3>2
  <2>2. DOMAIN recs' = {} => lastMsg' = NoMsg
    BY <1>1, <1>2, <1>3, <1>6 DEF RowFits, RestFits
  <2>3. newest' \in Nat /\ returned' \in BOOLEAN
    BY <1>1, <1>2 DEF RowFits, RestFits
  <2>4. {newest', lastReadSeq', readCursor', seenLength'} \subseteq Nat
    BY <1>1, <1>2, <2>3 DEF RowFits, RestFits
  <2>5. {conn', pane', late', outrun', returned'} \subseteq BOOLEAN
    BY <1>1, <1>2, <1>4, <2>3 DEF RowFits, RestFits
  <2>6. /\ texts' \in 0..MaxTexts /\ breaks' \in 0..MaxBreaks /\ readUpTo' \in 0..counter'
        /\ lastReadSeq' < DateNow => lastReadSeq' <= readUpTo'
    BY <1>1, <1>2, <1>4 DEF RowFits, RestFits
  <2> QED
    BY <1>4, <2>1, <2>2, <2>4, <2>5, <2>6 DEF RestFits, DateNow
<1>8. ASSUME ~returned' PROVE TextsCome' /\ PreviewIsNewest'
  <2>1. TextsCome /\ PreviewIsNewest /\ recs' = recs
    BY <1>1, <1>8 DEF RowInv
  <2>2. CASE ~PreviewLoaded
    <3>1. misheard \subseteq misheard' /\ lastMsg' = lastMsg
      BY <1>1, <2>2
    <3> QED
      BY <1>1, <1>4, <1>8, <2>1, <3>1, PreviewSame
  <2>3. CASE PreviewLoaded
    <3>1. /\ lastMsg'.id = TopLoaded.id /\ lastMsg'.seq = TopLoaded.seq
          /\ lastMsg'.text = TopLoaded.text /\ lastMsg'.gone = FALSE
      BY <1>1, <2>3
    <3>2. TopLoaded.id \in DOMAIN recs' /\ recs'[TopLoaded.id] = TopLoaded
      BY <1>3, <1>6, <2>3
    <3>3. TopLoaded.gone => TopLoaded.id \in misheard'
      BY <1>1, <2>3
    <3>4. TopLoaded.gone \in BOOLEAN /\ TopLoaded.seq \in Nat
      BY <1>6, <2>3 DEF RecFits, Records
    <3>5. \A id \in DOMAIN recs' : ~(recs'[id].seq > TopLoaded.seq)
      <4>1. \A id \in DOMAIN recs : recs[id].seq \in DOMAIN idbRecs /\ recs[id].seq \in Nat
        BY <1>2, RecsBounded DEF RowFits, RecsFit
      <4> QED
        BY <1>6, <2>1, <2>3, <3>4, <4>1
    <3>6. PreviewIsNewest'
      BY <3>1, <3>2, <3>3, <3>4, <3>5 DEF PreviewIsNewest
    <3> QED
      BY <1>4, <1>8, <2>1, <3>6
  <2> QED
    BY <2>2, <2>3
<1> QED
  BY <1>4, <1>5, <1>7, <1>8 DEF RowInv, RowFits

-----------------------------------------------------------------------------
(* A HELLO is answered.                                                     *)

\* Numbers in order: all of them, each but once.
LEMMA Ordering ==
    ASSUME NEW b \in Nat, NEW S \in SUBSET (0..b)
    PROVE  /\ Cardinality(S) \in Nat /\ DOMAIN InOrder(S) = 1..Cardinality(S)
           /\ InOrder(S) \in Seq(S) /\ Len(InOrder(S)) = Cardinality(S)
           /\ \A i \in 1..Cardinality(S) : InOrder(S)[i] \in S
           /\ \A i, j \in 1..Cardinality(S) : i <= j => InOrder(S)[i] <= InOrder(S)[j]
           /\ \A n \in S : \E i \in 1..Cardinality(S) : InOrder(S)[i] = n
<1> DEFINE Nth(i) == CHOOSE n \in S : Cardinality(Below(S, n)) = i - 1
<1>1. Cardinality(S) \in Nat
  BY Bounded
<1>2. InOrder(S) = [i \in 1..Cardinality(S) |-> Nth(i)]
  BY DEF InOrder, Below
<1>3. ASSUME NEW i \in 1..Cardinality(S)
      PROVE  Nth(i) \in S /\ Cardinality(Below(S, Nth(i))) = i - 1
  <2>1. \E n \in S : Cardinality(Below(S, n)) = i - 1
    BY Ranks
  <2> QED
    BY <2>1
<1> HIDE DEF Nth
<1>4. \A i \in 1..Cardinality(S) : InOrder(S)[i] = Nth(i)
  BY <1>2
<1>5. ASSUME NEW i \in 1..Cardinality(S), NEW j \in 1..Cardinality(S), i <= j
      PROVE  Nth(i) <= Nth(j)
  <2>1. Nth(i) \in Int /\ Nth(j) \in Int /\ Nth(i) \in S /\ Nth(j) \in S
    <3>1. \A x \in S : x \in Int
      OBVIOUS
    <3> QED
      BY <1>3, <3>1
  <2>2. SUFFICES ASSUME Nth(j) < Nth(i) PROVE FALSE
    BY <2>1
  <2>3. Cardinality(Below(S, Nth(j))) < Cardinality(Below(S, Nth(i)))
    BY <2>1, <2>2, Ranks
  <2>4. Cardinality(Below(S, Nth(j))) = j - 1 /\ Cardinality(Below(S, Nth(i))) = i - 1
    BY <1>3
  <2> QED
    BY <1>1, <1>5, <2>3, <2>4
<1>6. ASSUME NEW n \in S
      PROVE  \E i \in 1..Cardinality(S) : Nth(i) = n
  <2>1. Cardinality(Below(S, n)) \in Nat /\ Cardinality(Below(S, n)) < Cardinality(S)
    BY Ranks
  <2> DEFINE i == Cardinality(Below(S, n)) + 1
  <2>2. i \in 1..Cardinality(S) /\ i - 1 = Cardinality(Below(S, n))
    BY <1>1, <2>1
  <2> HIDE DEF i
  <2>3. Nth(i) \in S /\ Cardinality(Below(S, Nth(i))) = Cardinality(Below(S, n))
    BY <1>3, <2>2
  <2>4. Nth(i) = n
    BY <2>3, Ranks
  <2> QED
    BY <2>2, <2>4
<1>7. InOrder(S) \in Seq(S) /\ Len(InOrder(S)) = Cardinality(S)
  BY <1>1, <1>2, <1>3
<1> QED
  BY <1>1, <1>2, <1>3, <1>4, <1>5, <1>6, <1>7

\* What comes after a HELLO: first, up to r, what is above lastSeq, then what was queued.
HelloAnswer(r) ==
    /\ \A i \in Slots' : i <= r =>
          LET n == frames'[i].n
          IN  /\ n \in DOMAIN posts /\ n > newest /\ frames'[i].id = posts[n].id
              /\ IF posts[n].gone THEN frames'[i].type = "DELETED"
                 ELSE frames'[i].type = "MSG" /\ frames'[i].text = posts[n].text
    /\ \A i \in Slots' : i > r => /\ frames'[i].n \in inbox /\ frames'[i].id = frames'[i].n
                                  /\ frames'[i].type = "MSG" /\ frames'[i].text = 1
    /\ \A i, j \in Slots' : i <= j /\ (j <= r \/ i > r) => frames'[i].n <= frames'[j].n
    /\ \A n \in DOMAIN posts : n > newest => \E i \in Slots' : i <= r /\ frames'[i].n = n
    /\ \A n \in inbox : \E i \in Slots' : i > r /\ frames'[i].n = n

\* What is put on the socket is such an answer.
LEMMA Answering ==
    ASSUME RowFits, ConnectRow
    PROVE  /\ frames' \in Seq(RowFrames) /\ Len(frames') \in Nat /\ Slots' = 1..Len(frames')
           /\ \E r \in Nat : HelloAnswer(r)
<1> DEFINE A == {n \in DOMAIN posts : n > newest}
           a == InOrder(A)
           b == InOrder(inbox)
           r == Cardinality(A)
           d == Cardinality(inbox)
<1>1. /\ counter \in Nat /\ A \in SUBSET (0..counter) /\ inbox \in SUBSET (0..counter)
      /\ A \subseteq DOMAIN posts /\ inbox \subseteq DOMAIN posts
      /\ \A n \in A : n \in Nat /\ n > newest
      /\ \A n \in inbox : n \in Nat
      /\ \A n \in DOMAIN posts : n > newest => n \in A
      /\ \A n \in DOMAIN posts :
            posts[n] \in [id : Nat, by : {"other", "user"}, text : Nat, gone : BOOLEAN]
  BY Unposted DEF RowFits, PostsFit, InboxFits
<1>2. frames' = Replayed \o Drained
  BY DEF ConnectRow
<1>3. Replayed = [i \in DOMAIN a |->
                     IF posts[a[i]].gone THEN FrameOf("DELETED", a[i], posts[a[i]].id, 0)
                     ELSE FrameOf("MSG", a[i], posts[a[i]].id, posts[a[i]].text)]
  BY DEF Replayed
<1>4. Drained = [i \in DOMAIN b |-> FrameOf("MSG", b[i], b[i], 1)]
  BY DEF Drained
<1> HIDE DEF A
<1>5. /\ r \in Nat /\ DOMAIN a = 1..r
      /\ \A i \in 1..r : a[i] \in A
      /\ \A i, j \in 1..r : i <= j => a[i] <= a[j]
      /\ \A n \in A : \E i \in 1..r : a[i] = n
  BY <1>1, Ordering
<1>6. /\ d \in Nat /\ DOMAIN b = 1..d
      /\ \A i \in 1..d : b[i] \in inbox
      /\ \A i, j \in 1..d : i <= j => b[i] <= b[j]
      /\ \A n \in inbox : \E i \in 1..d : b[i] = n
  BY <1>1, Ordering
<1> HIDE DEF a, b, r, d
<1>7. /\ Replayed \in Seq(RowFrames) /\ Len(Replayed) = r
      /\ \A i \in 1..r :
            /\ Replayed[i].n = a[i] /\ Replayed[i].id = posts[a[i]].id
            /\ IF posts[a[i]].gone THEN Replayed[i].type = "DELETED"
               ELSE Replayed[i].type = "MSG" /\ Replayed[i].text = posts[a[i]].text
  <2>1. ASSUME NEW i \in 1..r
        PROVE  /\ Replayed[i] \in RowFrames
               /\ Replayed[i].n = a[i] /\ Replayed[i].id = posts[a[i]].id
               /\ IF posts[a[i]].gone THEN Replayed[i].type = "DELETED"
                  ELSE Replayed[i].type = "MSG" /\ Replayed[i].text = posts[a[i]].text
    <3>1. /\ a[i] \in Nat
          /\ posts[a[i]] \in [id : Nat, by : {"other", "user"}, text : Nat, gone : BOOLEAN]
      BY <1>1, <1>5
    <3>2. CASE posts[a[i]].gone
      <4>1. Replayed[i] = [type |-> "DELETED", n |-> a[i], id |-> posts[a[i]].id, text |-> 0]
        BY <1>3, <1>5, <3>2 DEF FrameOf
      <4> QED
        BY <3>1, <3>2, <4>1 DEF RowFrames
    <3>3. CASE ~posts[a[i]].gone
      <4>1. Replayed[i] = [type |-> "MSG", n |-> a[i], id |-> posts[a[i]].id,
                           text |-> posts[a[i]].text]
        BY <1>3, <1>5, <3>3 DEF FrameOf
      <4> QED
        BY <3>1, <3>3, <4>1 DEF RowFrames
    <3> QED
      BY <3>2, <3>3
  <2>2. Replayed \in Seq(RowFrames) /\ Len(Replayed) = r
    <3>1. DOMAIN Replayed = 1..r /\ Replayed = [i \in 1..r |-> Replayed[i]]
      BY <1>3, <1>5
    <3> QED
      BY <1>5, <2>1, <3>1
  <2> QED
    BY <2>1, <2>2
<1>8. /\ Drained \in Seq(RowFrames) /\ Len(Drained) = d
      /\ \A i \in 1..d : /\ Drained[i].n = b[i] /\ Drained[i].id = b[i]
                         /\ Drained[i].type = "MSG" /\ Drained[i].text = 1
  <2>1. ASSUME NEW i \in 1..d
        PROVE  /\ Drained[i] \in RowFrames /\ Drained[i].n = b[i] /\ Drained[i].id = b[i]
               /\ Drained[i].type = "MSG" /\ Drained[i].text = 1
    <3>1. b[i] \in Nat
      BY <1>1, <1>6
    <3>2. Drained[i] = [type |-> "MSG", n |-> b[i], id |-> b[i], text |-> 1]
      BY <1>4, <1>6 DEF FrameOf
    <3> QED
      BY <3>1, <3>2 DEF RowFrames
  <2>2. Drained \in Seq(RowFrames) /\ Len(Drained) = d
    <3>1. DOMAIN Drained = 1..d /\ Drained = [i \in 1..d |-> Drained[i]]
      BY <1>4, <1>6
    <3> QED
      BY <1>6, <2>1, <3>1
  <2> QED
    BY <2>1, <2>2
<1>9. /\ frames' \in Seq(RowFrames) /\ Len(frames') = r + d /\ Slots' = 1..(r + d)
      /\ \A i \in 1..r : frames'[i] = Replayed[i]
      /\ \A i \in (r + 1)..(r + d) : frames'[i] = Drained[i - r]
  <2>1. PICK p, q : p = Replayed /\ q = Drained
    OBVIOUS
  <2>2. /\ p \in Seq(RowFrames) /\ q \in Seq(RowFrames) /\ Len(p) = r /\ Len(q) = d
        /\ frames' = p \o q
    BY <1>2, <1>7, <1>8, <2>1
  <2>3. /\ p \o q \in Seq(RowFrames) /\ Len(p \o q) = Len(p) + Len(q)
        /\ \A i \in 1..(Len(p) + Len(q)) :
              (p \o q)[i] = IF i <= Len(p) THEN p[i] ELSE q[i - Len(p)]
    BY <2>2, ConcatProperties
  <2>4. /\ frames' \in Seq(RowFrames) /\ Len(frames') = r + d
        /\ \A i \in 1..(r + d) : frames'[i] = IF i <= r THEN p[i] ELSE q[i - r]
    BY <2>2, <2>3
  <2>5. /\ \A i \in 1..r : frames'[i] = p[i]
        /\ \A i \in (r + 1)..(r + d) : frames'[i] = q[i - r]
    BY <1>5, <1>6, <2>4
  <2> QED
    BY <2>1, <2>4, <2>5 DEF Slots
<1>10. ASSUME NEW i \in Slots', i <= r
       PROVE  LET n == frames'[i].n
              IN  /\ n \in DOMAIN posts /\ n > newest /\ frames'[i].id = posts[n].id
                  /\ IF posts[n].gone THEN frames'[i].type = "DELETED"
                     ELSE frames'[i].type = "MSG" /\ frames'[i].text = posts[n].text
  <2>1. i \in 1..r
    BY <1>5, <1>6, <1>9, <1>10
  <2>2. PICK n : n = a[i]
    OBVIOUS
  <2>3. n \in DOMAIN posts /\ n > newest
    BY <1>1, <1>5, <2>1, <2>2
  <2>4. /\ frames'[i].n = n /\ frames'[i].id = posts[n].id
        /\ IF posts[n].gone THEN frames'[i].type = "DELETED"
           ELSE frames'[i].type = "MSG" /\ frames'[i].text = posts[n].text
    BY <1>7, <1>9, <2>1, <2>2
  <2> QED
    BY <2>3, <2>4
<1>11. ASSUME NEW i \in Slots', i > r
       PROVE  /\ frames'[i].n \in inbox /\ frames'[i].id = frames'[i].n
              /\ frames'[i].type = "MSG" /\ frames'[i].text = 1
  <2>1. i \in (r + 1)..(r + d) /\ i - r \in 1..d
    BY <1>5, <1>6, <1>9, <1>11
  <2> QED
    BY <1>6, <1>8, <1>9, <2>1
<1>12. ASSUME NEW i \in Slots', NEW j \in Slots', i <= j, j <= r \/ i > r
       PROVE  frames'[i].n <= frames'[j].n
  <2>1. CASE j <= r
    <3>1. i \in 1..r /\ j \in 1..r
      BY <1>5, <1>6, <1>9, <1>12, <2>1
    <3> QED
      BY <1>5, <1>7, <1>9, <1>12, <3>1
  <2>2. CASE i > r
    <3>1. /\ i \in (r + 1)..(r + d) /\ i - r \in 1..d
          /\ j \in (r + 1)..(r + d) /\ j - r \in 1..d /\ i - r <= j - r
      BY <1>5, <1>6, <1>9, <1>12, <2>2
    <3>2. frames'[i].n = b[i - r] /\ frames'[j].n = b[j - r]
      BY <1>8, <1>9, <3>1
    <3> QED
      BY <1>6, <3>1, <3>2
  <2> QED
    BY <1>12, <2>1, <2>2
<1>13. ASSUME NEW n \in DOMAIN posts, n > newest
       PROVE  \E i \in Slots' : i <= r /\ frames'[i].n = n
  <2>1. PICK i \in 1..r : a[i] = n
    BY <1>1, <1>5, <1>13
  <2>2. i \in Slots' /\ i <= r /\ frames'[i].n = n
    BY <1>5, <1>6, <1>7, <1>9, <2>1
  <2> QED
    BY <2>2
<1>14. ASSUME NEW n \in inbox
       PROVE  \E i \in Slots' : i > r /\ frames'[i].n = n
  <2>1. PICK k \in 1..d : b[k] = n
    BY <1>6
  <2>2. PICK i : i = k + r
    OBVIOUS
  <2>3. i \in (r + 1)..(r + d) /\ i - r = k /\ i \in Slots' /\ i > r
    BY <1>5, <1>6, <1>9, <2>1, <2>2
  <2>4. frames'[i].n = n
    BY <1>8, <1>9, <2>1, <2>3
  <2> QED
    BY <2>3, <2>4
<1>15. HelloAnswer(r)
  BY <1>10, <1>11, <1>12, <1>13, <1>14 DEF HelloAnswer
<1> QED
  BY <1>5, <1>6, <1>9, <1>15

\* After it lastSeq is that of the newest message.
LEMMA ConnectRowKeeps ==
    ASSUME RowInv, ConnectRow
    PROVE  RowInv'
<1>1. /\ ~conn /\ conn' = TRUE /\ inbox' = {} /\ counter' = counter /\ posts' = posts
      /\ recs' = recs /\ idbRecs' = idbRecs /\ lastMsg' = lastMsg /\ newest' = newest
      /\ lastReadSeq' = lastReadSeq /\ readCursor' = readCursor /\ pane' = pane
      /\ seenLength' = seenLength /\ texts' = texts /\ readUpTo' = readUpTo
      /\ misheard' = misheard /\ late' = late /\ outrun' = outrun /\ returned' = returned
      /\ breaks' = breaks
  BY DEF ConnectRow, rowShown, rowHistory
<1>2. RowFits /\ newest \in Nat /\ counter \in Nat /\ frames = << >> /\ Slots = {}
  <2>1. newest \in Nat /\ frames = << >>
    BY <1>1 DEF RowInv, RowFits, RestFits
  <2> QED
    BY <2>1, Unposted DEF RowInv, Slots
<1>3. PICK r \in Nat : HelloAnswer(r)
  BY <1>2, Answering
<1>4. frames' \in Seq(RowFrames) /\ Len(frames') \in Nat /\ Slots' = 1..Len(frames')
  BY <1>2, Answering
<1>5. \A i \in Slots' : i \in Nat /\ frames'[i] \in RowFrames
  BY <1>4
<1>6. /\ \A i \in Slots' : i <= r =>
            LET n == frames'[i].n
            IN  /\ n \in DOMAIN posts /\ n > newest /\ frames'[i].id = posts[n].id
                /\ IF posts[n].gone THEN frames'[i].type = "DELETED"
                   ELSE frames'[i].type = "MSG" /\ frames'[i].text = posts[n].text
      /\ \A i \in Slots' : i > r =>
            /\ frames'[i].n \in inbox /\ frames'[i].id = frames'[i].n
            /\ frames'[i].type = "MSG" /\ frames'[i].text = 1
      /\ \A i, j \in Slots' : i <= j /\ (j <= r \/ i > r) => frames'[i].n <= frames'[j].n
      /\ \A n \in DOMAIN posts : n > newest => \E i \in Slots' : i <= r /\ frames'[i].n = n
      /\ \A n \in inbox : \E i \in Slots' : i > r /\ frames'[i].n = n
  BY <1>3 DEF HelloAnswer
<1>7. /\ \A n \in inbox : /\ n \in DOMAIN posts /\ posts[n].id = n /\ n \notin DOMAIN recs
                          /\ posts[n].text = 1 \/ n \in misheard
      /\ inbox # {} => \E k \in inbox : \A m \in DOMAIN posts : m <= k
      /\ \A m, n \in DOMAIN posts : posts[m].id = posts[n].id => m = n
      /\ \A n \in DOMAIN posts : n \in Nat
  BY <1>2, Unposted DEF RowFits, InboxFits, PostsFit
<1>8. \A i \in Slots' : /\ frames'[i].n \in DOMAIN posts /\ frames'[i].n \in Nat
                        /\ posts[frames'[i].n].id = frames'[i].id
                        /\ frames'[i].type \in {"MSG", "DELETED"}
                        /\ frames'[i].type = "DELETED" => i <= r /\ posts[frames'[i].n].gone
                        /\ frames'[i].type = "MSG" /\ i <= r => ~posts[frames'[i].n].gone
  <2>1. ASSUME NEW i \in Slots'
        PROVE  /\ frames'[i].n \in DOMAIN posts
               /\ posts[frames'[i].n].id = frames'[i].id
               /\ frames'[i].type \in {"MSG", "DELETED"}
               /\ frames'[i].type = "DELETED" => i <= r /\ posts[frames'[i].n].gone
               /\ frames'[i].type = "MSG" /\ i <= r => ~posts[frames'[i].n].gone
    <3>1. CASE i <= r
      BY <1>6, <3>1
    <3>2. CASE i > r
      BY <1>5, <1>6, <1>7, <3>2
    <3> QED
      BY <1>5, <3>1, <3>2
  <2> QED
    BY <1>7, <2>1
<1>9. FramesTyped'
  <2>1. ASSUME NEW i \in Slots', NEW f, f = frames'[i] PROVE FrameFits(f)'
    <3>1. /\ f.n \in DOMAIN posts /\ posts[f.n].id = f.id /\ f.type \in {"MSG", "DELETED"}
          /\ f.type = "DELETED" => posts[f.n].gone
      BY <1>8, <2>1
    <3> QED
      BY <1>1, <3>1 DEF FrameFits, PostGone
  <2> QED
    BY <1>4, <2>1, FramesNow
<1>10. ASSUME NEW i \in Slots', frames'[i].type = "MSG", i <= r
       PROVE  ~PostGone(frames'[i].id)
  <2>1. PICK n : n = frames'[i].n
    OBVIOUS
  <2>2. n \in DOMAIN posts /\ posts[n].id = frames'[i].id /\ ~posts[n].gone
    BY <1>8, <1>10, <2>1
  <2> QED
    BY <1>7, <2>2 DEF PostGone
<1>11. \A j \in Slots' : frames'[j].type = "DELETED" => j <= r /\ PostGone(frames'[j].id)
  BY <1>8 DEF PostGone
<1>12. FramesInOrder'
  <2>1. \A i, j \in Slots' : ~(frames'[i].type = "MSG" /\ frames'[j].type = "EDITED")
    BY <1>8
  <2>2. ASSUME NEW i \in Slots', frames'[i].type = "MSG", frames'[i].id \in DOMAIN recs
        PROVE  ~recs[frames'[i].id].gone
    <3>1. i <= r
      BY <1>5, <1>6, <1>7, <2>2
    <3>2. ~PostGone(frames'[i].id)
      BY <1>10, <2>2, <3>1
    <3>3. PICK x \in DOMAIN recs : x = frames'[i].id
      BY <2>2
    <3>4. recs[x].id = x /\ (recs[x].gone => PostGone(recs[x].id))
      BY <1>2 DEF RowFits, RecsFit, RecFits
    <3> QED
      BY <3>2, <3>3, <3>4
  <2>3. ASSUME NEW i \in Slots', NEW j \in Slots', frames'[i].type = "MSG",
               frames'[j].type = "DELETED", frames'[i].id = frames'[j].id
        PROVE  frames'[i].id \notin DOMAIN recs /\ j < i
    <3>1. j <= r /\ PostGone(frames'[i].id)
      BY <1>11, <2>3
    <3>2. i > r
      BY <1>5, <1>10, <2>3, <3>1
    <3> QED
      BY <1>5, <1>6, <1>7, <3>1, <3>2
  <2> QED
    BY <1>1, <2>1, <2>2, <2>3 DEF FramesInOrder
<1>13. ASSUME NEW l \in Slots', LastTold(l)'
       PROVE  /\ l > r \/ inbox = {}
              /\ frames'[l].type = "MSG" /\ frames'[l].n \in Nat
              /\ inbox # {} => \A m \in DOMAIN posts : m <= frames'[l].n
              /\ \A j \in Slots' : frames'[j].type = "MSG" => frames'[j].n <= frames'[l].n
  <2>1. /\ frames'[l].type = "MSG" /\ frames'[l].n \in Nat
        /\ \A j \in Slots' : frames'[j].type = "MSG" => j <= l
    BY <1>8, <1>13 DEF LastTold, Told
  <2>2. CASE inbox = {}
    <3>1. \A j \in Slots' : j <= r
      BY <1>5, <1>6, <2>2
    <3> QED
      BY <1>6, <2>1, <2>2, <3>1
  <2>3. CASE inbox # {}
    <3>1. PICK k \in inbox : \A m \in DOMAIN posts : m <= k
      BY <1>7, <2>3
    <3>2. PICK i \in Slots' : i > r /\ frames'[i].n = k
      BY <1>6
    <3>3. frames'[i].type = "MSG" /\ i <= l
      BY <1>6, <2>1, <3>2
    <3>4. l > r
      BY <1>5, <3>2, <3>3
    <3>5. k <= frames'[l].n
      BY <1>6, <3>2, <3>3, <3>4
    <3>6. \A m \in DOMAIN posts : m <= frames'[l].n
      BY <1>7, <2>1, <3>1, <3>5
    <3>7. \A j \in Slots' : frames'[j].n <= frames'[l].n
      BY <1>8, <3>6
    <3> QED
      BY <2>1, <3>4, <3>6, <3>7
  <2> QED
    BY <2>2, <2>3
<1>14. ASSUME NEW i \in Slots', frames'[i].type = "MSG"
       PROVE  \E l \in Slots' : LastTold(l)'
  <2> DEFINE T == {l \in Slots' : frames'[l].type \in {"ACK", "MSG"}}
  <2>1. T \in SUBSET (0..Len(frames')) /\ T # {}
    BY <1>4, <1>14
  <2>2. \A l : Told(l)' <=> l \in T
    BY DEF Told
  <2>3. \A l \in T : l \in Slots'
    OBVIOUS
  <2> HIDE DEF T
  <2>4. Max(T) \in T /\ \A j \in T : j <= Max(T)
    BY <1>4, <2>1, Extremes
  <2> QED
    BY <2>2, <2>3, <2>4 DEF LastTold
<1>15. ASSUME NEW id \in DOMAIN recs, id < DateNow
       PROVE  Reached(id)' \/ Comes("DELETED", id)'
  <2>1. id \in DOMAIN posts /\ posts[id].id = id /\ id \in Nat
    <3>1. recs[id].id = id /\ RecFits(recs[id]) /\ id \in Nat
      BY <1>2, Unposted DEF RowFits, RecsFit
    <3>2. recs[id].seq \in DOMAIN posts /\ posts[recs[id].seq].id = id
      BY <1>15, <3>1 DEF RecFits
    <3>3. posts[recs[id].seq].id < DateNow => posts[recs[id].seq].id = recs[id].seq
      BY <1>2, <3>2 DEF RowFits, PostsFit
    <3> QED
      BY <1>15, <3>1, <3>2, <3>3
  <2>2. CASE id > newest
    <3>1. PICK i \in Slots' : i <= r /\ frames'[i].n = id
      BY <1>6, <2>1, <2>2
    <3>2. frames'[i].id = id /\ frames'[i].type \in {"MSG", "DELETED"}
      BY <1>8, <2>1, <3>1
    <3>3. CASE frames'[i].type = "DELETED"
      BY <3>2, <3>3 DEF Comes
    <3>4. CASE frames'[i].type = "MSG"
      <4>1. PICK l \in Slots' : LastTold(l)'
        BY <1>14, <3>4
      <4>2. id <= frames'[l].n
        BY <1>13, <3>1, <3>4, <4>1
      <4> QED
        BY <4>1, <4>2 DEF Reached
    <3> QED
      BY <3>2, <3>3, <3>4
  <2>3. CASE id <= newest
    <3>1. CASE \E l \in Slots' : LastTold(l)'
      <4>1. PICK l \in Slots' : LastTold(l)'
        BY <3>1
      <4>2. id <= frames'[l].n
        <5>1. CASE inbox = {}
          <6>1. l <= r
            BY <1>5, <1>6, <5>1
          <6>2. frames'[l].n > newest /\ frames'[l].n \in Nat
            BY <1>6, <1>8, <6>1
          <6> QED
            BY <1>2, <2>1, <2>3, <6>2
        <5>2. CASE inbox # {}
          BY <1>13, <2>1, <4>1, <5>2
        <5> QED
          BY <5>1, <5>2
      <4> QED
        BY <4>1, <4>2 DEF Reached
    <3>2. CASE \A l \in Slots' : ~LastTold(l)'
      <4>1. \A i \in Slots' : ~Told(i)'
        BY <1>8, <1>14, <3>2 DEF Told
      <4> QED
        BY <1>1, <2>3, <4>1 DEF Reached
    <3> QED
      BY <3>1, <3>2
  <2> QED
    BY <1>2, <2>1, <2>2, <2>3
<1>16. NewestComes'
  <2>1. \A i, j \in Slots' : LastTold(i)' /\ frames'[j].type = "MSG" => frames'[j].n <= frames'[i].n
    BY <1>13
  <2>2. \A id \in DOMAIN recs' : id < DateNow => Reached(id)' \/ Comes("DELETED", id)'
    BY <1>1, <1>15
  <2> QED
    BY <2>1, <2>2 DEF NewestComes, DateNow
<1>17. PostsFit' /\ InboxFits' /\ RecsFit' /\ RestFits'
  <2>1. texts \in Int /\ readUpTo \in Int
    BY <1>2 DEF RowFits, RestFits
  <2>2. \A x : RecFits(x) => RecFits(x)'
    BY <1>1, <2>1, Later
  <2>3. PostsFit' /\ InboxFits' /\ RecsFit'
    BY <1>1, <1>2, <2>2 DEF RowFits, PostsFit, RecsFit, InboxFits, DateNow
  <2> QED
    BY <1>1, <1>2, <2>3 DEF RowFits, RestFits, DateNow
<1>18. ASSUME ~returned' PROVE TextsCome' /\ PreviewIsNewest'
  <2>1. TextsCome /\ PreviewIsNewest
    BY <1>1, <1>18 DEF RowInv
  <2>2. PreviewIsNewest'
    BY <1>1, <2>1, PreviewSame
  <2>3. ASSUME NEW n \in DOMAIN posts, NEW x, x = posts[n].id, x \notin misheard
        PROVE  TextComes(n, x)'
    <3>1. x \in DOMAIN recs => recs[x].text = posts[n].text
      BY <1>2, <2>1, <2>3 DEF TextsCome, TextComes, Comes
    <3>2. ASSUME NEW i \in Slots', frames'[i].type = "MSG", frames'[i].id = x
          PROVE  frames'[i].text = posts[n].text
      <4>1. PICK k : k = frames'[i].n
        OBVIOUS
      <4>2. k = n
        BY <1>7, <1>8, <2>3, <3>2, <4>1
      <4>3. CASE i <= r
        <5>1. /\ frames'[i].n = n
              /\ IF posts[frames'[i].n].gone THEN frames'[i].type = "DELETED"
                 ELSE frames'[i].text = posts[frames'[i].n].text
          BY <1>6, <4>1, <4>2, <4>3
        <5> QED
          BY <3>2, <5>1
      <4>4. CASE i > r
        <5>1. k \in inbox /\ frames'[i].text = 1
          BY <1>6, <4>1, <4>4
        <5>2. posts[k].text = 1
          BY <1>7, <2>3, <4>2, <5>1
        <5> QED
          BY <4>2, <5>1, <5>2
      <4> QED
        BY <1>5, <4>3, <4>4
    <3>3. \A j \in Slots' : frames'[j].type # "EDITED"
      BY <1>8
    <3>4. \A j : ~LastEdit(j, x)'
      BY <3>3 DEF LastEdit
    <3> QED
      BY <1>1, <3>1, <3>2, <3>4 DEF TextComes
  <2>4. TextsCome'
    BY <1>1, <2>3, TextsNow
  <2> QED
    BY <2>2, <2>4
<1> QED
  BY <1>9, <1>12, <1>16, <1>17, <1>18 DEF RowInv, RowFits

-----------------------------------------------------------------------------
(* A frame is handled.                                                      *)

\* A record is changed where it is.
LEMMA PatchingRec ==
    ASSUME RowFits, NEW id, NEW m, NEW p, PatchRec(id, m, p), \A r : RecFits(r) => RecFits(r)',
           id \in DOMAIN recs => m.id = id /\ m.seq = recs[id].seq /\ RecFits(m)'
    PROVE  /\ RecsFit' /\ DOMAIN recs' = DOMAIN recs
           /\ \A x \in DOMAIN recs : x # id => recs'[x] = recs[x]
           /\ id \in DOMAIN recs => /\ recs'[id] = m
                                    /\ lastMsg' = IF lastMsg.id = id THEN p ELSE lastMsg
           /\ id \notin DOMAIN recs => lastMsg' = lastMsg
<1>1. CASE id \in DOMAIN recs
  <2>1. /\ recs' = [recs EXCEPT ![id] = m] /\ idbRecs' = Keep(idbRecs, m.seq, m)
        /\ lastMsg' = IF lastMsg.id = id THEN p ELSE lastMsg
    BY <1>1 DEF PatchRec
  <2>2. recs' = Keep(recs, m.id, m)
    BY <1>1, <2>1 DEF Keep
  <2>3. \A x \in DOMAIN recs : x # m.id => recs[x].seq # m.seq
    <3>1. \A x \in DOMAIN recs : recs[x].id = x /\ idbRecs[recs[x].seq] = recs[x]
      BY DEF RowFits, RecsFit
    <3> QED
      BY <1>1, <3>1
  <2>4. /\ RecsFit' /\ DOMAIN recs' = DOMAIN recs \cup {m.id} /\ recs'[m.id] = m
        /\ \A x \in DOMAIN recs : x # m.id => recs'[x] = recs[x]
    BY <1>1, <2>1, <2>2, <2>3, PuttingRec
  <2> QED
    BY <1>1, <2>1, <2>4
<1>2. CASE id \notin DOMAIN recs
  <2>1. recs' = recs /\ idbRecs' = idbRecs /\ lastMsg' = lastMsg
    BY <1>2 DEF PatchRec, rowShown
  <2>2. RecsFit'
    BY <2>1 DEF RowFits, RecsFit
  <2> QED
    BY <1>2, <2>1, <2>2
<1> QED
  BY <1>1, <1>2

\* Whatever frame it is, the rest is left alone.
LEMMA Taken ==
    ASSUME RowFits, HandleFrame
    PROVE  /\ counter' = counter /\ posts' = posts /\ inbox' = inbox /\ conn' = conn
           /\ readCursor' = readCursor /\ pane' = pane /\ seenLength' = seenLength
           /\ texts' = texts /\ misheard' = misheard /\ returned' = returned /\ breaks' = breaks
           /\ conn /\ inbox = {}
           /\ frames' \in Seq(RowFrames) /\ Len(frames) \in Nat /\ Len(frames') = Len(frames) - 1
           /\ Slots' = 1..Len(frames') /\ Slots = 1..Len(frames) /\ 1 \in Slots
           /\ frames[1] \in RowFrames /\ FrameFits(frames[1]) /\ Head(frames) = frames[1]
           /\ \A i \in Slots' : i + 1 \in Slots /\ frames'[i] = frames[i + 1]
           /\ \A i \in Slots : i # 1 => i - 1 \in Slots' /\ frames'[i - 1] = frames[i]
<1>1. frames \in Seq(RowFrames) /\ frames # << >> /\ frames' = Tail(frames)
  BY DEF RowFits, FramesTyped, HandleFrame
<1>2. /\ counter' = counter /\ posts' = posts /\ inbox' = inbox /\ conn' = conn
      /\ readCursor' = readCursor /\ pane' = pane /\ seenLength' = seenLength
      /\ texts' = texts /\ misheard' = misheard /\ returned' = returned /\ breaks' = breaks
  BY DEF HandleFrame, rowServer
<1>3. conn /\ inbox = {}
  BY <1>1 DEF RowFits, RestFits, InboxFits
<1>4. /\ frames' \in Seq(RowFrames) /\ Len(frames) \in Nat /\ Len(frames') = Len(frames) - 1
      /\ Slots' = 1..Len(frames') /\ Slots = 1..Len(frames) /\ 1 \in Slots
      /\ frames[1] \in RowFrames /\ Head(frames) = frames[1]
      /\ \A i \in Slots' : i + 1 \in Slots /\ frames'[i] = frames[i + 1]
      /\ \A i \in Slots : i # 1 => i - 1 \in Slots' /\ frames'[i - 1] = frames[i]
  BY <1>1, Taking
<1>5. FrameFits(frames[1])
  BY <1>4 DEF RowFits, FramesTyped
<1> QED
  BY <1>2, <1>3, <1>4, <1>5

\* What is on the server and on the socket goes with what is shown then.
LEMMA TakenFits ==
    ASSUME RowFits, HandleFrame, readUpTo' \in Int, readUpTo <= readUpTo',
           DOMAIN recs \subseteq DOMAIN recs',
           \A x \in DOMAIN recs' :
              \/ x \in DOMAIN recs /\ (recs'[x].gone => recs[x].gone)
              \/ x \in DOMAIN recs /\ frames[1].type = "DELETED" /\ frames[1].id = x
              \/ frames[1].type = "MSG" /\ frames[1].id = x /\ ~recs'[x].gone
    PROVE  /\ PostsFit' /\ InboxFits' /\ FramesTyped' /\ FramesInOrder'
           /\ \A r : RecFits(r) => RecFits(r)'
<1>1. /\ counter' = counter /\ posts' = posts /\ inbox' = inbox /\ inbox = {}
      /\ texts' = texts /\ frames' \in Seq(RowFrames)
      /\ Slots' = 1..Len(frames') /\ Slots = 1..Len(frames) /\ 1 \in Slots
      /\ \A i \in Slots' : i \in Nat /\ i >= 1 /\ i + 1 \in Slots /\ frames'[i] = frames[i + 1]
  BY Taken
<1>2. /\ \A r : RecFits(r) => RecFits(r)'
      /\ \A f \in RowFrames : FrameFits(f) => FrameFits(f)'
  <2>1. texts \in Int /\ readUpTo \in Int
    BY DEF RowFits, RestFits
  <2> QED
    BY <1>1, <2>1, Later
<1>3. FramesTyped'
  <2>1. ASSUME NEW i \in Slots', NEW f, f = frames'[i] PROVE FrameFits(f)'
    <3>1. \A k \in Slots : frames[k] \in RowFrames /\ FrameFits(frames[k])
      BY DEF RowFits, FramesTyped, Slots
    <3> QED
      BY <1>1, <1>2, <2>1, <3>1
  <2> QED
    BY <1>1, <2>1, FramesNow
<1>4. PostsFit' /\ InboxFits'
  BY <1>1 DEF RowFits, PostsFit, InboxFits, DateNow
<1>5. /\ \A i, j \in Slots :
            frames[i].type = "MSG" /\ frames[j].type = "EDITED" /\ frames[i].id = frames[j].id
               => i < j
      /\ \A i \in Slots :
            frames[i].type = "MSG" /\ frames[i].id \in DOMAIN recs => ~recs[frames[i].id].gone
      /\ \A i, j \in Slots :
            frames[i].type = "MSG" /\ frames[j].type = "DELETED" /\ frames[i].id = frames[j].id
            /\ j < i
               => /\ frames[i].id \notin DOMAIN recs
                  /\ \A k \in Slots : frames[k].type = "MSG" /\ frames[k].id = frames[i].id => j < k
  BY DEF RowFits, FramesInOrder
<1>6. ASSUME NEW i \in Slots', NEW j \in Slots',
             frames'[i].type = "MSG", frames'[j].type = "EDITED", frames'[i].id = frames'[j].id
      PROVE  i < j
  <2>1. i + 1 < j + 1
    BY <1>1, <1>5, <1>6
  <2> QED
    BY <1>1, <2>1
<1>7. ASSUME NEW i \in Slots', NEW x, x = frames'[i].id, frames'[i].type = "MSG", x \in DOMAIN recs'
      PROVE  ~recs'[x].gone
  <2>1. i + 1 \in Slots /\ frames[i + 1].type = "MSG" /\ frames[i + 1].id = x /\ 1 < i + 1
    BY <1>1, <1>7
  <2>2. CASE x \in DOMAIN recs /\ (recs'[x].gone => recs[x].gone)
    BY <1>5, <2>1, <2>2
  <2>3. CASE x \in DOMAIN recs /\ frames[1].type = "DELETED" /\ frames[1].id = x
    BY <1>1, <1>5, <2>1, <2>3
  <2> QED
    BY <1>7, <2>2, <2>3
<1>8. ASSUME NEW i \in Slots', NEW j \in Slots', NEW x, x = frames'[i].id, frames'[i].type = "MSG",
             frames'[j].type = "DELETED", frames'[j].id = x, j < i
      PROVE  /\ x \notin DOMAIN recs'
             /\ \A k \in Slots' : frames'[k].type = "MSG" /\ frames'[k].id = x => j < k
  <2>1. /\ i + 1 \in Slots /\ frames[i + 1].type = "MSG" /\ frames[i + 1].id = x
        /\ j + 1 \in Slots /\ frames[j + 1].type = "DELETED" /\ frames[j + 1].id = x
        /\ j + 1 < i + 1 /\ 1 < j + 1
    BY <1>1, <1>8
  <2>2. /\ x \notin DOMAIN recs
        /\ \A k \in Slots : frames[k].type = "MSG" /\ frames[k].id = x => j + 1 < k
    BY <1>5, <2>1
  <2>3. ~(frames[1].type = "MSG" /\ frames[1].id = x)
    BY <1>1, <2>1, <2>2
  <2>4. ASSUME NEW k \in Slots', frames'[k].type = "MSG", frames'[k].id = x PROVE j < k
    <3>1. j + 1 < k + 1
      BY <1>1, <2>2, <2>4
    <3> QED
      BY <1>1, <3>1
  <2> QED
    BY <2>2, <2>3, <2>4
<1>9. FramesInOrder'
  BY <1>6, <1>7, <1>8 DEF FramesInOrder
<1> QED
  BY <1>2, <1>3, <1>4, <1>9

\* lastSeq goes with the frames that tell it.
LEMMA TakenNewest ==
    ASSUME RowFits, HandleFrame,
           \A x \in DOMAIN recs' : x < DateNow /\ ~recs'[x].gone =>
              \/ frames[1].type = "MSG" /\ frames[1].id = x
              \/ /\ x \in DOMAIN recs /\ ~recs[x].gone
                 /\ ~(frames[1].type = "DELETED" /\ frames[1].id = x),
           newest' = (IF frames[1].type \in {"ACK", "MSG"} THEN frames[1].n ELSE newest),
           late \in BOOLEAN, late' \in BOOLEAN,
           frames[1].type = "ACK" => late' = (late \/ frames[1].n < newest),
           frames[1].type \notin {"ACK", "MSG"} => late' = late
    PROVE  NewestComes'
<1>1. /\ Slots' = 1..Len(frames') /\ Slots = 1..Len(frames) /\ 1 \in Slots
      /\ \A i \in Slots' : i \in Nat /\ i >= 1 /\ i + 1 \in Slots /\ frames'[i] = frames[i + 1]
      /\ \A i \in Slots : i \in Nat
      /\ \A i \in Slots : i # 1 => i - 1 \in Slots' /\ frames'[i - 1] = frames[i]
      /\ \A i \in Slots : frames[i] \in RowFrames /\ FrameFits(frames[i])
      /\ frames[1].n \in Nat
  <2>1. /\ Slots' = 1..Len(frames') /\ Slots = 1..Len(frames) /\ 1 \in Slots
        /\ \A i \in Slots' : i + 1 \in Slots /\ frames'[i] = frames[i + 1]
        /\ \A i \in Slots : i # 1 => i - 1 \in Slots' /\ frames'[i - 1] = frames[i]
        /\ \A i \in Slots : frames[i] \in RowFrames /\ FrameFits(frames[i])
    BY Taken DEF RowFits, FramesTyped
  <2>2. frames[1].n \in Nat
    BY <2>1 DEF RowFrames
  <2> QED
    BY <2>1, <2>2
<1>2. /\ \A i, j \in Slots : LastTold(i) /\ frames[j].type = "MSG" => frames[j].n <= frames[i].n
      /\ \A x \in DOMAIN recs : x < DateNow /\ ~recs[x].gone => Reached(x) \/ Comes("DELETED", x)
  BY Taken DEF RowFits, NewestComes
<1>3. newest \in Nat /\ conn' = conn /\ posts' = posts
  BY Taken DEF RowFits, RestFits
<1>4. /\ \A i \in Slots' : Told(i)' <=> Told(i + 1)
      /\ \A i \in Slots : i # 1 => (Told(i) <=> Told(i - 1)')
      /\ \A i : Told(i) => i \in Slots
      /\ \A i : Told(i)' => i \in Slots'
  BY <1>1 DEF Told
<1>5. ASSUME NEW i \in Slots', LastTold(i)' PROVE LastTold(i + 1)
  <2>1. \A j \in Slots' : Told(j)' => j <= i
    BY <1>5 DEF LastTold
  <2>2. Told(i + 1)
    BY <1>4, <1>5 DEF LastTold
  <2>3. ASSUME NEW j \in Slots, Told(j) PROVE j <= i + 1
    <3>1. CASE j = 1
      BY <1>1, <1>5, <3>1
    <3>2. CASE j # 1
      <4>1. j - 1 \in Slots' /\ j - 1 <= i
        BY <1>1, <1>4, <2>1, <2>3, <3>2
      <4> QED
        BY <1>1, <1>5, <4>1
    <3> QED
      BY <3>1, <3>2
  <2> QED
    BY <2>2, <2>3 DEF LastTold
<1>6. ASSUME NEW i \in Slots, i # 1, LastTold(i) PROVE LastTold(i - 1)'
  <2>1. Told(i - 1)' /\ i - 1 \in Slots'
    BY <1>1, <1>4, <1>6 DEF LastTold
  <2>2. \A j \in Slots' : Told(j)' => j <= i - 1
    <3>1. ASSUME NEW j \in Slots', Told(j)' PROVE j <= i - 1
      <4>1. j + 1 \in Slots /\ j + 1 <= i
        BY <1>1, <1>4, <1>6, <3>1 DEF LastTold
      <4> QED
        BY <1>1, <1>6, <4>1
    <3> QED
      BY <3>1
  <2> QED
    BY <2>1, <2>2 DEF LastTold
<1>7. ASSUME NEW i \in Slots', NEW j \in Slots', LastTold(i)', frames'[j].type = "MSG"
      PROVE  frames'[j].n <= frames'[i].n
  <2>1. LastTold(i + 1)
    BY <1>5, <1>7
  <2>2. /\ i + 1 \in Slots /\ j + 1 \in Slots /\ frames[j + 1].type = "MSG"
        /\ frames[i + 1] = frames'[i] /\ frames[j + 1] = frames'[j]
    BY <1>1, <1>7
  <2>3. frames[j + 1].n <= frames[i + 1].n
    BY <1>2, <2>1, <2>2
  <2> QED
    BY <2>2, <2>3
<1>8. (\A i \in Slots' : ~Told(i)') \/ \E l \in Slots' : LastTold(l)'
  <2> DEFINE T == {l \in Slots' : Told(l)'}
  <2>1. CASE T = {}
    BY <2>1
  <2>2. CASE T # {}
    <3>1. Len(frames') \in Nat /\ T \in SUBSET (0..Len(frames'))
      BY <1>1, Taken
    <3>2. \A l : l \in T <=> l \in Slots' /\ Told(l)'
      OBVIOUS
    <3> HIDE DEF T
    <3>3. Max(T) \in T /\ \A j \in T : j <= Max(T)
      BY <2>2, <3>1, Extremes
    <3> QED
      BY <3>2, <3>3 DEF LastTold
  <2> QED
    BY <2>1, <2>2
<1>9. ASSUME NEW x \in Int, Reached(x) PROVE Reached(x)'
  <2>1. CASE \E i \in Slots : LastTold(i) /\ x <= frames[i].n
    <3>1. PICK i \in Slots : LastTold(i) /\ x <= frames[i].n
      BY <2>1
    <3>2. CASE i # 1
      <4>1. i - 1 \in Slots' /\ LastTold(i - 1)' /\ x <= frames'[i - 1].n
        BY <1>1, <1>6, <3>1, <3>2
      <4> QED
        BY <4>1 DEF Reached
    <3>3. CASE i = 1
      <4>1. \A j \in Slots' : ~Told(j)'
        BY <1>1, <1>4, <3>1, <3>3 DEF LastTold
      <4>2. newest' = frames[1].n
        BY <3>1, <3>3 DEF LastTold, Told
      <4> QED
        BY <3>1, <3>3, <4>1, <4>2 DEF Reached
    <3> QED
      BY <3>2, <3>3
  <2>2. CASE (x <= newest \/ late) /\ \A i \in Slots : Told(i) => i = 1 /\ frames[i].type = "ACK"
    <3>1. \A j \in Slots' : ~Told(j)'
      BY <1>1, <1>4, <2>2
    <3>2. x <= newest' \/ late'
      <4>1. CASE frames[1].type = "ACK"
        <5>1. newest' = frames[1].n /\ (late \/ frames[1].n < newest => late')
          BY <4>1
        <5>2. CASE frames[1].n < newest \/ late
          BY <5>1, <5>2
        <5>3. CASE ~(frames[1].n < newest) /\ ~late
          <6>1. x <= frames[1].n
            BY <1>1, <1>3, <1>9, <2>2, <5>3
          <6> QED
            BY <5>1, <6>1
        <5> QED
          BY <5>2, <5>3
      <4>2. CASE frames[1].type # "ACK"
        <5>1. frames[1].type # "MSG"
          BY <1>1, <2>2, <4>2 DEF Told
        <5> QED
          BY <2>2, <4>2, <5>1
      <4> QED
        BY <4>1, <4>2
    <3> QED
      BY <3>1, <3>2 DEF Reached
  <2> QED
    BY <1>9, <2>1, <2>2 DEF Reached
<1>10. ASSUME NEW x \in DOMAIN recs', x < DateNow, ~recs'[x].gone
       PROVE  Reached(x)' \/ Comes("DELETED", x)'
  <2>1. CASE frames[1].type = "MSG" /\ frames[1].id = x
    <3>1. x = frames[1].n
      <4>1. frames[1].n \in DOMAIN posts /\ posts[frames[1].n].id = x
        BY <1>1, <2>1 DEF FrameFits
      <4>2. posts[frames[1].n].id < DateNow => posts[frames[1].n].id = frames[1].n
        BY <4>1 DEF RowFits, PostsFit
      <4> QED
        BY <1>10, <4>1, <4>2
    <3>2. CASE \A i \in Slots' : ~Told(i)'
      <4>1. x <= newest'
        BY <1>1, <2>1, <3>1
      <4> QED
        BY <3>2, <4>1 DEF Reached
    <3>3. CASE \E l \in Slots' : LastTold(l)'
      <4>1. PICK l \in Slots' : LastTold(l)'
        BY <3>3
      <4>2. x <= frames'[l].n
        BY <1>1, <1>2, <1>5, <2>1, <3>1, <4>1
      <4> QED
        BY <4>1, <4>2 DEF Reached
    <3> QED
      BY <1>8, <3>2, <3>3
  <2>2. CASE /\ x \in DOMAIN recs /\ ~recs[x].gone
             /\ ~(frames[1].type = "DELETED" /\ frames[1].id = x)
    <3>1. Reached(x) \/ Comes("DELETED", x)
      BY <1>2, <1>10, <2>2
    <3>2. x \in Int
      BY <2>2, Unposted
    <3>3. CASE Comes("DELETED", x)
      <4>1. PICK i \in Slots : frames[i].type = "DELETED" /\ frames[i].id = x
        BY <3>3 DEF Comes
      <4>2. i - 1 \in Slots' /\ frames'[i - 1] = frames[i]
        BY <1>1, <2>2, <4>1
      <4> QED
        BY <4>1, <4>2 DEF Comes
    <3> QED
      BY <1>9, <3>1, <3>2, <3>3
  <2> QED
    BY <1>10, <2>1, <2>2
<1> QED
  BY <1>7, <1>10 DEF NewestComes, DateNow

\* The texts go with the frames that bring them.
LEMMA TakenTexts ==
    ASSUME RowFits, HandleFrame, TextsCome,
           \A x \in DOMAIN recs' :
              \/ /\ x \in DOMAIN recs /\ recs'[x].text = recs[x].text
                 /\ ~(frames[1].type = "EDITED" /\ frames[1].id = x)
              \/ /\ frames[1].type \in {"MSG", "EDITED"} /\ frames[1].id = x
                 /\ recs'[x].text = frames[1].text
    PROVE  TextsCome'
<1>1. /\ Slots' = 1..Len(frames') /\ Slots = 1..Len(frames) /\ 1 \in Slots
      /\ \A i \in Slots' : i \in Nat /\ i >= 1 /\ i + 1 \in Slots /\ frames'[i] = frames[i + 1]
      /\ \A i \in Slots : i \in Nat
      /\ \A i \in Slots : i # 1 => i - 1 \in Slots' /\ frames'[i - 1] = frames[i]
      /\ posts' = posts /\ misheard' = misheard
  BY Taken
<1>2. \A i, j \in Slots :
         frames[i].type = "MSG" /\ frames[j].type = "EDITED" /\ frames[i].id = frames[j].id => i < j
  BY DEF RowFits, FramesInOrder
<1>3. ASSUME NEW n \in DOMAIN posts, NEW x, x = posts[n].id, x \notin misheard
      PROVE  TextComes(n, x)'
  <2>1. /\ \A i \in Slots : frames[i].type = "MSG" /\ frames[i].id = x =>
              /\ x \in DOMAIN recs => frames[i].text = recs[x].text
              /\ Comes("EDITED", x) \/ frames[i].text = posts[n].text
              /\ \A j \in Slots : frames[j].type = "MSG" /\ frames[j].id = x
                                     => frames[j].text = frames[i].text
        /\ \A j \in Slots : LastEdit(j, x) => frames[j].text = posts[n].text
        /\ x \in DOMAIN recs => Comes("EDITED", x) \/ recs[x].text = posts[n].text
    BY <1>3 DEF TextsCome, TextComes
  <2>2. Comes("EDITED", x) => Comes("EDITED", x)' \/ (frames[1].type = "EDITED" /\ frames[1].id = x)
    <3>1. ASSUME NEW i \in Slots, frames[i].type = "EDITED", frames[i].id = x, i # 1
          PROVE  Comes("EDITED", x)'
      BY <1>1, <3>1 DEF Comes
    <3> QED
      BY <3>1 DEF Comes
  <2>3. ASSUME NEW i \in Slots', frames'[i].type = "MSG", frames'[i].id = x
        PROVE  ~(frames[1].type = "EDITED" /\ frames[1].id = x)
    <3>1. i + 1 \in Slots /\ frames[i + 1].type = "MSG" /\ frames[i + 1].id = x /\ ~(i + 1 < 1)
      BY <1>1, <2>3
    <3> QED
      BY <1>1, <1>2, <3>1
  <2>4. ASSUME NEW i \in Slots', frames'[i].type = "MSG", frames'[i].id = x
        PROVE  /\ x \in DOMAIN recs' => frames'[i].text = recs'[x].text
               /\ Comes("EDITED", x)' \/ frames'[i].text = posts[n].text
               /\ \A j \in Slots' : frames'[j].type = "MSG" /\ frames'[j].id = x
                                       => frames'[j].text = frames'[i].text
    <3>1. i + 1 \in Slots /\ frames[i + 1] = frames'[i] /\ frames[i + 1].type = "MSG"
          /\ frames[i + 1].id = x
      BY <1>1, <2>4
    <3>2. /\ x \in DOMAIN recs => frames[i + 1].text = recs[x].text
          /\ Comes("EDITED", x) \/ frames[i + 1].text = posts[n].text
          /\ \A j \in Slots : frames[j].type = "MSG" /\ frames[j].id = x
                                 => frames[j].text = frames[i + 1].text
      BY <2>1, <3>1
    <3>3. x \in DOMAIN recs' => frames'[i].text = recs'[x].text
      BY <1>1, <2>3, <2>4, <3>1, <3>2
    <3>4. \A j \in Slots' : frames'[j].type = "MSG" /\ frames'[j].id = x
                               => frames'[j].text = frames'[i].text
      BY <1>1, <3>1, <3>2
    <3> QED
      BY <2>2, <2>3, <2>4, <3>1, <3>2, <3>3, <3>4
  <2>5. ASSUME NEW j \in Slots', LastEdit(j, x)' PROVE frames'[j].text = posts[n].text
    <3>1. /\ j + 1 \in Slots /\ frames[j + 1] = frames'[j]
          /\ frames'[j].type = "EDITED" /\ frames'[j].id = x
          /\ \A k \in Slots' : frames'[k].type = "EDITED" /\ frames'[k].id = x => k <= j
      BY <1>1, <2>5 DEF LastEdit
    <3>2. ASSUME NEW k \in Slots, frames[k].type = "EDITED", frames[k].id = x PROVE k <= j + 1
      <4>1. CASE k = 1
        BY <1>1, <4>1
      <4>2. CASE k # 1
        <5>1. k - 1 <= j
          BY <1>1, <3>1, <3>2, <4>2
        <5> QED
          BY <1>1, <5>1
      <4> QED
        BY <4>1, <4>2
    <3>3. LastEdit(j + 1, x)
      BY <3>1, <3>2 DEF LastEdit
    <3> QED
      BY <2>1, <3>1, <3>3
  <2>6. ASSUME x \in DOMAIN recs' PROVE Comes("EDITED", x)' \/ recs'[x].text = posts[n].text
    <3>1. CASE /\ x \in DOMAIN recs /\ recs'[x].text = recs[x].text
               /\ ~(frames[1].type = "EDITED" /\ frames[1].id = x)
      BY <2>1, <2>2, <3>1
    <3>2. CASE frames[1].type = "MSG" /\ frames[1].id = x /\ recs'[x].text = frames[1].text
      BY <1>1, <2>1, <2>2, <3>2
    <3>3. CASE frames[1].type = "EDITED" /\ frames[1].id = x /\ recs'[x].text = frames[1].text
      <4>1. SUFFICES ASSUME ~Comes("EDITED", x)' PROVE frames[1].text = posts[n].text
        BY <3>3
      <4>2. ASSUME NEW k \in Slots, frames[k].type = "EDITED", frames[k].id = x PROVE k <= 1
        BY <1>1, <4>1, <4>2 DEF Comes
      <4>3. LastEdit(1, x)
        BY <1>1, <3>3, <4>2 DEF LastEdit
      <4> QED
        BY <1>1, <2>1, <4>3
    <3> QED
      BY <2>6, <3>1, <3>2, <3>3
  <2> QED
    BY <1>1, <2>4, <2>5, <2>6 DEF TextComes
<1> QED
  BY <1>1, <1>3, TextsNow

\* What holds when no message comes: records are changed where they are.
LEMMA PatchedKeeps ==
    ASSUME RowInv, HandleFrame, NEW f, f = frames[1], f.type # "MSG",
           RecsFit', DOMAIN recs' = DOMAIN recs,
           \A x \in DOMAIN recs : x # f.id => recs'[x] = recs[x],
           f.id \in DOMAIN recs =>
              /\ recs'[f.id].seq = recs[f.id].seq
              /\ recs'[f.id].text = (IF f.type = "EDITED" THEN f.text ELSE recs[f.id].text)
              /\ f.type = "DELETED" => recs'[f.id].gone
              /\ f.type # "DELETED" => recs'[f.id].gone = recs[f.id].gone
              /\ lastMsg.id = f.id => /\ lastMsg'.id = lastMsg.id /\ lastMsg'.seq = lastMsg.seq
                                      /\ lastMsg'.text = (IF f.type = "EDITED" THEN f.text
                                                          ELSE lastMsg.text)
                                      /\ f.type = "DELETED" => lastMsg'.gone
                                      /\ f.type # "DELETED" => lastMsg'.gone = lastMsg.gone,
           f.id \notin DOMAIN recs \/ lastMsg.id # f.id => lastMsg' = lastMsg,
           lastMsg' \in [id : Nat, seq : Nat, text : Nat, gone : BOOLEAN],
           readUpTo' \in 0..counter, readUpTo <= readUpTo', lastReadSeq' \in Nat,
           lastReadSeq' < DateNow => lastReadSeq' <= readUpTo',
           newest' = (IF f.type = "ACK" THEN f.n ELSE newest), outrun' = outrun, late' \in BOOLEAN,
           f.type = "ACK" => late' = (late \/ f.n < newest), f.type # "ACK" => late' = late
    PROVE  RowInv'
<1>1. RowFits
  BY DEF RowInv
<1>2. /\ counter' = counter /\ posts' = posts /\ inbox' = inbox /\ conn' = conn
      /\ readCursor' = readCursor /\ pane' = pane /\ seenLength' = seenLength
      /\ texts' = texts /\ misheard' = misheard /\ returned' = returned /\ breaks' = breaks
      /\ conn /\ f \in RowFrames /\ f.n \in Nat /\ counter \in Nat
  <2>1. f \in RowFrames /\ counter \in Nat
    BY <1>1, Taken, Unposted
  <2>2. f.n \in Nat
    BY <2>1 DEF RowFrames
  <2> QED
    BY <1>1, <2>1, <2>2, Taken
<1>3. /\ PostsFit' /\ InboxFits' /\ FramesTyped' /\ FramesInOrder'
  <2>1. \A x \in DOMAIN recs' :
           \/ x \in DOMAIN recs /\ (recs'[x].gone => recs[x].gone)
           \/ x \in DOMAIN recs /\ f.type = "DELETED" /\ f.id = x
    OBVIOUS
  <2>2. readUpTo' \in Int
    BY <1>2
  <2> QED
    BY <1>1, <2>1, <2>2, TakenFits
<1>4. NewestComes'
  <2>1. \A x \in DOMAIN recs' : ~recs'[x].gone =>
           x \in DOMAIN recs /\ ~recs[x].gone /\ ~(f.type = "DELETED" /\ f.id = x)
    OBVIOUS
  <2>2. late \in BOOLEAN
    BY <1>1 DEF RowFits, RestFits
  <2> QED
    BY <1>1, <2>1, <2>2, TakenNewest
<1>5. RestFits'
  <2>1. newest' \in Nat
    BY <1>1, <1>2 DEF RowFits, RestFits
  <2>2. outrun' \in BOOLEAN
    BY <1>1 DEF RowFits, RestFits
  <2>3. DOMAIN recs' = {} => lastMsg' = NoMsg
    BY <1>1 DEF RowFits, RestFits
  <2> QED
    BY <1>1, <1>2, <2>1, <2>2, <2>3 DEF RowFits, RestFits, DateNow
<1>6. ASSUME ~returned' PROVE TextsCome' /\ PreviewIsNewest'
  <2>1. TextsCome /\ PreviewIsNewest
    BY <1>2, <1>6 DEF RowInv
  <2>2. TextsCome'
    <3>1. \A x \in DOMAIN recs' :
             \/ /\ x \in DOMAIN recs /\ recs'[x].text = recs[x].text
                /\ ~(f.type = "EDITED" /\ f.id = x)
             \/ f.type = "EDITED" /\ f.id = x /\ recs'[x].text = f.text
      OBVIOUS
    <3> QED
      BY <1>1, <2>1, <3>1, TakenTexts
  <2>3. PreviewIsNewest'
    <3>1. \A x \in DOMAIN recs : recs'[x].seq = recs[x].seq
      OBVIOUS
    <3>2. CASE DOMAIN recs = {}
      BY <3>2 DEF PreviewIsNewest
    <3>3. CASE DOMAIN recs # {}
      <4>1. /\ lastMsg.id \in DOMAIN recs /\ lastMsg.seq = recs[lastMsg.id].seq
            /\ lastMsg.id \notin misheard => /\ lastMsg.text = recs[lastMsg.id].text
                                             /\ lastMsg.gone = recs[lastMsg.id].gone
            /\ \A id \in DOMAIN recs :
                  recs[id].seq > lastMsg.seq =>
                      lastMsg.seq < DateNow /\ (recs[id].seq >= DateNow \/ outrun)
        BY <2>1, <3>3 DEF PreviewIsNewest
      <4>2. CASE lastMsg.id = f.id
        <5>1. /\ lastMsg'.id = lastMsg.id /\ lastMsg'.seq = lastMsg.seq
              /\ lastMsg.id \notin misheard => /\ lastMsg'.text = recs'[lastMsg.id].text
                                               /\ lastMsg'.gone = recs'[lastMsg.id].gone
          BY <4>1, <4>2
        <5> QED
          BY <1>2, <3>1, <4>1, <5>1 DEF PreviewIsNewest, DateNow
      <4>3. CASE lastMsg.id # f.id
        <5>1. lastMsg' = lastMsg /\ recs'[lastMsg.id] = recs[lastMsg.id]
          BY <4>1, <4>3
        <5> QED
          BY <1>2, <3>1, <4>1, <5>1 DEF PreviewIsNewest, DateNow
      <4> QED
        BY <4>2, <4>3
    <3> QED
      BY <3>2, <3>3
  <2> QED
    BY <2>2, <2>3
<1> QED
  BY <1>3, <1>4, <1>5, <1>6 DEF RowInv, RowFits

\* A RECEIPT of the user: what it covers is read.
LEMMA RowReceiptKeeps ==
    ASSUME RowInv, HandleFrame, NEW f, f = frames[1], f.type = "RECEIPT", HandleReceipt(f)
    PROVE  RowInv'
<1>1. /\ recs' = recs /\ idbRecs' = idbRecs /\ lastMsg' = lastMsg /\ newest' = newest
      /\ readUpTo' = readUpTo /\ late' = late /\ outrun' = outrun
      /\ lastReadSeq' = Larger(lastReadSeq, f.n)
  BY DEF HandleReceipt, rowShown
<1>2. RowFits
  BY DEF RowInv
<1>3. /\ f.n \in Nat /\ f.n <= readUpTo /\ readUpTo \in 0..counter /\ counter \in Nat
      /\ lastReadSeq \in Nat /\ (lastReadSeq < DateNow => lastReadSeq <= readUpTo)
      /\ late \in BOOLEAN /\ lastMsg \in [id : Nat, seq : Nat, text : Nat, gone : BOOLEAN]
      /\ posts' = posts /\ texts' = texts
  <2>1. f \in RowFrames /\ FrameFits(f) /\ counter \in Nat /\ posts' = posts /\ texts' = texts
    BY <1>2, Taken, Unposted
  <2>2. f.n \in Nat /\ f.n <= readUpTo
    BY <2>1 DEF RowFrames, FrameFits
  <2> QED
    BY <1>2, <2>1, <2>2 DEF RowFits, RestFits
<1>4. RecsFit'
  <2>1. texts \in Int /\ texts' \in Int /\ texts <= texts' /\ readUpTo \in Int /\ readUpTo' \in Int
        /\ readUpTo <= readUpTo'
    BY <1>1, <1>2, <1>3 DEF RowFits, RestFits
  <2>2. \A r : RecFits(r) => RecFits(r)'
    BY <1>3, <2>1, Later
  <2> QED
    BY <1>1, <1>2, <2>2 DEF RowFits, RecsFit
<1>5. /\ lastReadSeq' \in Nat /\ (lastReadSeq' < DateNow => lastReadSeq' <= readUpTo')
      /\ readUpTo' \in 0..counter /\ readUpTo <= readUpTo'
  BY <1>1, <1>3 DEF Larger
<1> QED
  BY <1>1, <1>3, <1>4, <1>5, PatchedKeeps

\* A record that is changed is still of its message.
LEMMA PatchFits ==
    ASSUME RowFits, NEW id \in DOMAIN recs, NEW m \in Records, m.id = id, m.seq = recs[id].seq,
           m.text = recs[id].text \/ Posted(id), m.gone => recs[id].gone \/ PostGone(id)
    PROVE  RecFits(m)
<1>1. recs[id].id = id /\ RecFits(recs[id])
  BY DEF RowFits, RecsFit
<1> QED
  BY <1>1 DEF RecFits

\* An ACK: the text is no longer pending.
LEMMA RowAckKeeps ==
    ASSUME RowInv, HandleFrame, NEW f, f = frames[1], f.type = "ACK", HandleAck(f)
    PROVE  RowInv'
<1>1. PICK m : m = [recs[f.id] EXCEPT !.pending = FALSE]
  OBVIOUS
<1>2. PatchRec(f.id, m, lastMsg) /\ newest' = f.n /\ lastReadSeq' = Larger(lastReadSeq, f.n)
      /\ readUpTo' = Larger(readUpTo, f.n) /\ late' = (late \/ f.n < newest) /\ outrun' = outrun
  BY <1>1 DEF HandleAck
<1>3. RowFits /\ posts' = posts /\ texts' = texts
  BY Taken DEF RowInv
<1>4. /\ f.n \in 0..counter /\ readUpTo \in 0..counter /\ counter \in Nat
      /\ lastReadSeq \in Nat /\ (lastReadSeq < DateNow => lastReadSeq <= readUpTo)
      /\ late \in BOOLEAN /\ lastMsg \in [id : Nat, seq : Nat, text : Nat, gone : BOOLEAN]
  <2>1. f \in RowFrames /\ FrameFits(f)
    BY <1>3, Taken
  <2>2. f.n \in DOMAIN posts
    BY <2>1 DEF FrameFits
  <2> QED
    BY <1>3, <2>2, Unposted DEF RowFits, RestFits
<1>5. \A r : RecFits(r) => RecFits(r)'
  <2>1. texts \in Int /\ readUpTo' \in Int /\ readUpTo <= readUpTo'
    BY <1>2, <1>3, <1>4 DEF Larger, RowFits, RestFits
  <2> QED
    BY <1>3, <1>4, <2>1, Later
<1>6. ASSUME f.id \in DOMAIN recs
      PROVE  /\ m.id = f.id /\ m.seq = recs[f.id].seq /\ RecFits(m)
             /\ m.text = recs[f.id].text /\ m.gone = recs[f.id].gone
  <2>1. PICK r : r = recs[f.id]
    OBVIOUS
  <2>2. r \in Records /\ r.id = f.id
    BY <1>3, <1>6, <2>1 DEF RowFits, RecsFit, RecFits
  <2>3. m = [r EXCEPT !.pending = FALSE]
    BY <1>1, <2>1
  <2>4. m \in Records /\ m.id = r.id /\ m.seq = r.seq /\ m.text = r.text /\ m.gone = r.gone
    BY <2>2, <2>3 DEF Records
  <2> QED
    BY <1>3, <1>6, <2>1, <2>2, <2>4, PatchFits
<1>7. /\ RecsFit' /\ DOMAIN recs' = DOMAIN recs
      /\ \A x \in DOMAIN recs : x # f.id => recs'[x] = recs[x]
      /\ f.id \in DOMAIN recs => recs'[f.id] = m
      /\ lastMsg' = lastMsg
  BY <1>2, <1>3, <1>5, <1>6, PatchingRec
<1>8. /\ lastReadSeq' \in Nat /\ (lastReadSeq' < DateNow => lastReadSeq' <= readUpTo')
      /\ readUpTo' \in 0..counter /\ readUpTo <= readUpTo'
  BY <1>2, <1>4 DEF Larger
<1>9. late' \in BOOLEAN
  BY <1>2
<1> QED
  BY <1>2, <1>4, <1>6, <1>7, <1>8, <1>9, PatchedKeeps

\* An EDITED brings the text.
LEMMA RowEditedKeeps ==
    ASSUME RowInv, HandleFrame, NEW f, f = frames[1], f.type = "EDITED", HandleEdited(f)
    PROVE  RowInv'
<1>1. PICK m : m = [recs[f.id] EXCEPT !.text = f.text]
  OBVIOUS
<1>2. PICK p : p = [lastMsg EXCEPT !.text = f.text]
  OBVIOUS
<1>3. PatchRec(f.id, m, p) /\ newest' = newest /\ lastReadSeq' = lastReadSeq
      /\ readUpTo' = readUpTo /\ late' = late /\ outrun' = outrun
  BY <1>1, <1>2 DEF HandleEdited
<1>4. RowFits /\ posts' = posts /\ texts' = texts
  BY Taken DEF RowInv
<1>5. /\ readUpTo \in 0..counter /\ counter \in Nat
      /\ lastReadSeq \in Nat /\ (lastReadSeq < DateNow => lastReadSeq <= readUpTo)
      /\ late \in BOOLEAN /\ lastMsg \in [id : Nat, seq : Nat, text : Nat, gone : BOOLEAN]
      /\ f.text \in Nat /\ Posted(f.id)
  <2>1. f \in RowFrames /\ FrameFits(f)
    BY <1>4, Taken
  <2>2. f.text \in Nat /\ Posted(f.id)
    BY <2>1 DEF FrameFits, RowFrames
  <2> QED
    BY <1>4, <2>2, Unposted DEF RowFits, RestFits
<1>6. \A r : RecFits(r) => RecFits(r)'
  <2>1. texts \in Int /\ readUpTo' \in Int /\ readUpTo <= readUpTo'
    BY <1>3, <1>4, <1>5 DEF RowFits, RestFits
  <2> QED
    BY <1>4, <1>5, <2>1, Later
<1>7. ASSUME f.id \in DOMAIN recs
      PROVE  /\ m.id = f.id /\ m.seq = recs[f.id].seq /\ RecFits(m)
             /\ m.text = f.text /\ m.gone = recs[f.id].gone
  <2>1. PICK r : r = recs[f.id]
    OBVIOUS
  <2>2. r \in Records /\ r.id = f.id
    BY <1>4, <1>7, <2>1 DEF RowFits, RecsFit, RecFits
  <2>3. m = [r EXCEPT !.text = f.text]
    BY <1>1, <2>1
  <2>4. m \in Records /\ m.id = r.id /\ m.seq = r.seq /\ m.text = f.text /\ m.gone = r.gone
    BY <1>5, <2>2, <2>3 DEF Records
  <2> QED
    BY <1>4, <1>5, <1>7, <2>1, <2>2, <2>4, PatchFits
<1>8. /\ p \in [id : Nat, seq : Nat, text : Nat, gone : BOOLEAN]
      /\ p.id = lastMsg.id /\ p.seq = lastMsg.seq /\ p.text = f.text /\ p.gone = lastMsg.gone
  BY <1>2, <1>5
<1>9. /\ RecsFit' /\ DOMAIN recs' = DOMAIN recs
      /\ \A x \in DOMAIN recs : x # f.id => recs'[x] = recs[x]
      /\ f.id \in DOMAIN recs => /\ recs'[f.id] = m
                                 /\ lastMsg' = IF lastMsg.id = f.id THEN p ELSE lastMsg
      /\ f.id \notin DOMAIN recs => lastMsg' = lastMsg
  BY <1>3, <1>4, <1>6, <1>7, PatchingRec
<1>10. lastMsg' \in [id : Nat, seq : Nat, text : Nat, gone : BOOLEAN]
  BY <1>5, <1>8, <1>9
<1>11. /\ lastReadSeq' \in Nat /\ (lastReadSeq' < DateNow => lastReadSeq' <= readUpTo')
       /\ readUpTo' \in 0..counter /\ readUpTo <= readUpTo'
  BY <1>3, <1>5
<1>12. f.id \in DOMAIN recs =>
          /\ recs'[f.id].seq = recs[f.id].seq
          /\ recs'[f.id].text = (IF f.type = "EDITED" THEN f.text ELSE recs[f.id].text)
          /\ f.type = "DELETED" => recs'[f.id].gone
          /\ f.type # "DELETED" => recs'[f.id].gone = recs[f.id].gone
          /\ lastMsg.id = f.id => /\ lastMsg'.id = lastMsg.id /\ lastMsg'.seq = lastMsg.seq
                                  /\ lastMsg'.text = (IF f.type = "EDITED" THEN f.text
                                                      ELSE lastMsg.text)
                                  /\ f.type = "DELETED" => lastMsg'.gone
                                  /\ f.type # "DELETED" => lastMsg'.gone = lastMsg.gone
  BY <1>7, <1>8, <1>9
<1>13. f.id \notin DOMAIN recs \/ lastMsg.id # f.id => lastMsg' = lastMsg
  BY <1>9
<1>14. /\ f.type # "MSG" /\ f.type # "ACK" /\ late' \in BOOLEAN
       /\ newest' = (IF f.type = "ACK" THEN f.n ELSE newest)
  BY <1>3, <1>5
<1> QED
  BY <1>3, <1>9, <1>10, <1>11, <1>12, <1>13, <1>14, PatchedKeeps

\* A DELETED brings the tombstone.
LEMMA RowDeletedKeeps ==
    ASSUME RowInv, HandleFrame, NEW f, f = frames[1], f.type = "DELETED", HandleDeleted(f)
    PROVE  RowInv'
<1>1. PICK m : m = [recs[f.id] EXCEPT !.gone = TRUE]
  OBVIOUS
<1>2. PICK p : p = [lastMsg EXCEPT !.gone = TRUE]
  OBVIOUS
<1>3. PatchRec(f.id, m, p) /\ newest' = newest /\ lastReadSeq' = lastReadSeq
      /\ readUpTo' = readUpTo /\ late' = late /\ outrun' = outrun
  BY <1>1, <1>2 DEF HandleDeleted
<1>4. RowFits /\ posts' = posts /\ texts' = texts
  BY Taken DEF RowInv
<1>5. /\ readUpTo \in 0..counter /\ counter \in Nat
      /\ lastReadSeq \in Nat /\ (lastReadSeq < DateNow => lastReadSeq <= readUpTo)
      /\ late \in BOOLEAN /\ lastMsg \in [id : Nat, seq : Nat, text : Nat, gone : BOOLEAN]
      /\ PostGone(f.id)
  <2>1. f \in RowFrames /\ FrameFits(f)
    BY <1>4, Taken
  <2>2. PostGone(f.id)
    BY <2>1 DEF FrameFits
  <2> QED
    BY <1>4, <2>2, Unposted DEF RowFits, RestFits
<1>6. \A r : RecFits(r) => RecFits(r)'
  <2>1. texts \in Int /\ readUpTo' \in Int /\ readUpTo <= readUpTo'
    BY <1>3, <1>4, <1>5 DEF RowFits, RestFits
  <2> QED
    BY <1>4, <1>5, <2>1, Later
<1>7. ASSUME f.id \in DOMAIN recs
      PROVE  /\ m.id = f.id /\ m.seq = recs[f.id].seq /\ RecFits(m)
             /\ m.text = recs[f.id].text /\ m.gone = TRUE
  <2>1. PICK r : r = recs[f.id]
    OBVIOUS
  <2>2. r \in Records /\ r.id = f.id
    BY <1>4, <1>7, <2>1 DEF RowFits, RecsFit, RecFits
  <2>3. m = [r EXCEPT !.gone = TRUE]
    BY <1>1, <2>1
  <2>4. m \in Records /\ m.id = r.id /\ m.seq = r.seq /\ m.text = r.text /\ m.gone = TRUE
    BY <2>2, <2>3 DEF Records
  <2> QED
    BY <1>4, <1>5, <1>7, <2>1, <2>2, <2>4, PatchFits
<1>8. /\ p \in [id : Nat, seq : Nat, text : Nat, gone : BOOLEAN]
      /\ p.id = lastMsg.id /\ p.seq = lastMsg.seq /\ p.text = lastMsg.text /\ p.gone = TRUE
  BY <1>2, <1>5
<1>9. /\ RecsFit' /\ DOMAIN recs' = DOMAIN recs
      /\ \A x \in DOMAIN recs : x # f.id => recs'[x] = recs[x]
      /\ f.id \in DOMAIN recs => /\ recs'[f.id] = m
                                 /\ lastMsg' = IF lastMsg.id = f.id THEN p ELSE lastMsg
      /\ f.id \notin DOMAIN recs => lastMsg' = lastMsg
  BY <1>3, <1>4, <1>6, <1>7, PatchingRec
<1>10. lastMsg' \in [id : Nat, seq : Nat, text : Nat, gone : BOOLEAN]
  BY <1>5, <1>8, <1>9
<1>11. /\ lastReadSeq' \in Nat /\ (lastReadSeq' < DateNow => lastReadSeq' <= readUpTo')
       /\ readUpTo' \in 0..counter /\ readUpTo <= readUpTo'
  BY <1>3, <1>5
<1>12. f.id \in DOMAIN recs =>
          /\ recs'[f.id].seq = recs[f.id].seq
          /\ recs'[f.id].text = (IF f.type = "EDITED" THEN f.text ELSE recs[f.id].text)
          /\ f.type = "DELETED" => recs'[f.id].gone
          /\ f.type # "DELETED" => recs'[f.id].gone = recs[f.id].gone
          /\ lastMsg.id = f.id => /\ lastMsg'.id = lastMsg.id /\ lastMsg'.seq = lastMsg.seq
                                  /\ lastMsg'.text = (IF f.type = "EDITED" THEN f.text
                                                      ELSE lastMsg.text)
                                  /\ f.type = "DELETED" => lastMsg'.gone
                                  /\ f.type # "DELETED" => lastMsg'.gone = lastMsg.gone
  BY <1>7, <1>8, <1>9
<1>13. f.id \notin DOMAIN recs \/ lastMsg.id # f.id => lastMsg' = lastMsg
  BY <1>9
<1>14. /\ f.type # "MSG" /\ f.type # "ACK" /\ late' \in BOOLEAN
       /\ newest' = (IF f.type = "ACK" THEN f.n ELSE newest)
  BY <1>3, <1>5
<1> QED
  BY <1>3, <1>9, <1>10, <1>11, <1>12, <1>13, <1>14, PatchedKeeps

\* A message comes: it is shown under its number.
LEMMA RowMsgKeeps ==
    ASSUME RowInv, HandleFrame, NEW f, f = frames[1], f.type = "MSG", HandleMsg(f)
    PROVE  RowInv'
<1>0. PICK m : m = RecordOf(f.id, f.n, f.text, f.id \in DOMAIN recs /\ recs[f.id].pending)
  OBVIOUS
<1>1. /\ recs' = Keep(recs, m.id, m) /\ idbRecs' = Keep(idbRecs, m.seq, m)
      /\ lastMsg' = Preview(m) /\ newest' = f.n
      /\ late' = (late /\ Outdated(f.n))
      /\ outrun' = (Outdated(f.n) /\ (outrun \/ Promoted(m)))
      /\ lastReadSeq' = lastReadSeq /\ readUpTo' = readUpTo
  BY <1>0 DEF HandleMsg, InsertRec
<1>2. /\ RowFits /\ posts' = posts /\ texts' = texts /\ counter' = counter /\ conn' = conn
      /\ readCursor' = readCursor /\ pane' = pane /\ seenLength' = seenLength
      /\ misheard' = misheard /\ returned' = returned /\ breaks' = breaks
      /\ 1 \in Slots
  BY Taken DEF RowInv
<1>3. /\ f.id \in Nat /\ f.n \in Nat /\ f.text \in Nat
      /\ f.n \in DOMAIN posts /\ posts[f.n].id = f.id /\ f.n < DateNow /\ f.n >= 1
  <2>1. f \in RowFrames /\ FrameFits(f)
    BY <1>2, Taken
  <2>2. f.n \in DOMAIN posts /\ posts[f.n].id = f.id
    BY <2>1 DEF FrameFits
  <2>3. f.id \in Nat /\ f.n \in Nat /\ f.text \in Nat
    BY <2>1 DEF RowFrames
  <2> QED
    BY <1>2, <2>2, <2>3, Unposted
<1>4. m.id = f.id /\ m.seq = f.n /\ m.text = f.text /\ m.gone = FALSE /\ m \in Records
  <2>1. PICK b \in BOOLEAN : b = (f.id \in DOMAIN recs /\ recs[f.id].pending)
    OBVIOUS
  <2>2. m = [id |-> f.id, seq |-> f.n, text |-> f.text, gone |-> FALSE, pending |-> b]
    BY <1>0, <2>1 DEF RecordOf
  <2> QED
    BY <1>3, <2>2 DEF Records
<1>5. \A r : RecFits(r) => RecFits(r)'
  <2>1. texts \in Int /\ readUpTo \in Int /\ texts' \in Int /\ texts <= texts'
    BY <1>2 DEF RowFits, RestFits
  <2> QED
    BY <1>1, <1>2, <2>1, Later
<1>6. RecFits(m)
  <2>1. m.id >= DateNow => m.id < DateNow + texts
    <3>1. f.id >= DateNow => f.id \in DOMAIN recs
      BY <1>2, <1>3 DEF RowFits, PostsFit
    <3> QED
      BY <1>2, <1>4, <3>1, RecsBounded
  <2>2. Posted(m.id)
    BY <1>3, <1>4 DEF Posted
  <2> QED
    BY <1>3, <1>4, <2>1, <2>2 DEF RecFits
<1>7. /\ RecsFit' /\ DOMAIN recs' = DOMAIN recs \cup {f.id} /\ recs'[f.id] = m
      /\ \A x \in DOMAIN recs : x # f.id => recs'[x] = recs[x]
  <2>1. \A x \in DOMAIN recs : x # m.id => recs[x].seq # m.seq
    <3>1. \A x \in DOMAIN recs : recs[x].seq \in DOMAIN posts => posts[recs[x].seq].id = x
      BY <1>2, RecsBounded
    <3> QED
      BY <1>3, <1>4, <3>1
  <2>2. /\ RecsFit' /\ DOMAIN recs' = DOMAIN recs \cup {m.id} /\ recs'[m.id] = m
        /\ \A x \in DOMAIN recs : x # m.id => recs'[x] = recs[x]
    BY <1>1, <1>2, <1>5, <1>6, <2>1, PuttingRec
  <2> QED
    BY <1>4, <2>2
<1>8. recs'[f.id].seq = f.n /\ recs'[f.id].text = f.text /\ ~recs'[f.id].gone
  BY <1>4, <1>7
<1>9. PostsFit' /\ InboxFits' /\ FramesTyped' /\ FramesInOrder'
  <2>1. \A x \in DOMAIN recs' :
           \/ x \in DOMAIN recs /\ (recs'[x].gone => recs[x].gone)
           \/ f.type = "MSG" /\ f.id = x /\ ~recs'[x].gone
    BY <1>7, <1>8
  <2>2. readUpTo' \in Int /\ readUpTo <= readUpTo'
    BY <1>1, <1>2 DEF RowFits, RestFits
  <2>3. DOMAIN recs \subseteq DOMAIN recs'
    BY <1>7
  <2> QED
    BY <1>2, <2>1, <2>2, <2>3, TakenFits
<1>10. NewestComes'
  <2>1. \A x \in DOMAIN recs' : ~recs'[x].gone => f.id = x \/ (x \in DOMAIN recs /\ ~recs[x].gone)
    BY <1>7
  <2>2. late \in BOOLEAN
    BY <1>2 DEF RowFits, RestFits
  <2>3. late' \in BOOLEAN
    BY <1>1
  <2>4. newest' = (IF f.type \in {"ACK", "MSG"} THEN f.n ELSE newest)
    BY <1>1
  <2> QED
    BY <1>2, <2>1, <2>2, <2>3, <2>4, TakenNewest
<1>11. PICK shown : shown = [id |-> m.id, seq |-> m.seq, text |-> m.text, gone |-> FALSE]
  OBVIOUS
<1>12. /\ shown \in [id : Nat, seq : Nat, text : Nat, gone : BOOLEAN]
       /\ shown.id = f.id /\ shown.seq = f.n /\ shown.text = f.text /\ shown.gone = FALSE
       /\ lastMsg \in [id : Nat, seq : Nat, text : Nat, gone : BOOLEAN] /\ lastMsg.seq \in Nat
       /\ lastMsg' = IF lastMsg = NoMsg \/ f.n > lastMsg.seq \/ Promoted(m) THEN shown ELSE lastMsg
  <2>1. lastMsg \in [id : Nat, seq : Nat, text : Nat, gone : BOOLEAN]
    BY <1>2 DEF RowFits, RestFits
  <2>2. lastMsg' = IF lastMsg = NoMsg \/ f.n > lastMsg.seq \/ Promoted(m) THEN shown ELSE lastMsg
    BY <1>1, <1>4, <1>11 DEF Preview
  <2> QED
    BY <1>3, <1>4, <1>11, <2>1, <2>2
<1>13. RestFits'
  <2>1. late' \in BOOLEAN /\ outrun' \in BOOLEAN
    BY <1>1
  <2>2. lastMsg' \in [id : Nat, seq : Nat, text : Nat, gone : BOOLEAN]
    BY <1>12
  <2>3. DOMAIN recs' # {}
    BY <1>7
  <2>4. newest' \in Nat
    BY <1>1, <1>3
  <2>5. ~conn' => frames' = << >>
    BY <1>2, Taken
  <2> QED
    BY <1>1, <1>2, <2>1, <2>2, <2>3, <2>4, <2>5 DEF RowFits, RestFits, DateNow
<1>14. ASSUME ~returned' PROVE TextsCome' /\ PreviewIsNewest'
  <2>1. TextsCome /\ PreviewIsNewest
    BY <1>2, <1>14 DEF RowInv
  <2>2. TextsCome'
    <3>1. \A x \in DOMAIN recs' :
             \/ x \in DOMAIN recs /\ recs'[x].text = recs[x].text
             \/ f.id = x /\ recs'[x].text = f.text
      BY <1>7, <1>8
    <3> QED
      BY <1>2, <2>1, <3>1, TakenTexts
  <2>3. ASSUME NEW x \in DOMAIN recs', recs'[x].seq > f.n, recs'[x].seq < DateNow
        PROVE  /\ x \in DOMAIN recs /\ x # f.id /\ recs'[x] = recs[x] /\ Outdated(f.n)
               /\ lastMsg # NoMsg
    <3>1. x # f.id
      BY <1>3, <1>8, <2>3
    <3>2. x \in DOMAIN recs /\ recs'[x] = recs[x]
      BY <1>7, <3>1
    <3>3. Outdated(f.n)
      BY <2>3, <3>2 DEF Outdated
    <3>4. lastMsg.id \in DOMAIN recs
      BY <2>1, <3>2 DEF PreviewIsNewest
    <3>5. 0 \notin DOMAIN recs
      <4>1. SUFFICES ASSUME 0 \in DOMAIN recs PROVE FALSE
        OBVIOUS
      <4>2. RecFits(recs[0]) /\ recs[0].id = 0
        BY <1>2, <4>1 DEF RowFits, RecsFit
      <4>3. recs[0].seq \in DOMAIN posts /\ posts[recs[0].seq].id = 0
        BY <4>2, RowParameters DEF RecFits
      <4>4. posts[recs[0].seq].id < DateNow => posts[recs[0].seq].id = recs[0].seq
        BY <1>2, <4>3 DEF RowFits, PostsFit
      <4>5. recs[0].seq = 0
        BY <4>3, <4>4, RowParameters
      <4> QED
        BY <1>2, <4>3, <4>5, Unposted
    <3> QED
      BY <3>1, <3>2, <3>3, <3>4, <3>5 DEF NoMsg
  <2>4. DOMAIN recs # {} => /\ lastMsg.id \in DOMAIN recs /\ lastMsg.seq = recs[lastMsg.id].seq
                            /\ lastMsg.id \notin misheard =>
                                  /\ lastMsg.text = recs[lastMsg.id].text
                                  /\ lastMsg.gone = recs[lastMsg.id].gone
                            /\ \A x \in DOMAIN recs : recs[x].seq > lastMsg.seq =>
                                  lastMsg.seq < DateNow /\ (recs[x].seq >= DateNow \/ outrun)
    BY <2>1 DEF PreviewIsNewest
  <2>5. \A x \in DOMAIN recs' : recs'[x].seq \in Nat
    BY <1>3, <1>7, <1>8, <1>2, RecsBounded
  <2>6. CASE lastMsg = NoMsg \/ f.n > lastMsg.seq \/ Promoted(m)
    <3>1. lastMsg' = shown
      BY <1>12, <2>6
    <3>2. ASSUME NEW x \in DOMAIN recs', recs'[x].seq > f.n, ~(recs'[x].seq >= DateNow)
          PROVE  outrun'
      <4>1. /\ x \in DOMAIN recs /\ recs'[x] = recs[x] /\ Outdated(f.n) /\ lastMsg # NoMsg
        BY <2>3, <2>5, <3>2, RowParameters
      <4>2. CASE f.n > lastMsg.seq
        <5>1. recs[x].seq > lastMsg.seq /\ recs[x].seq \in Nat
          BY <1>3, <1>12, <2>5, <3>2, <4>1, <4>2
        <5>2. outrun
          BY <2>4, <3>2, <4>1, <5>1
        <5> QED
          BY <1>1, <4>1, <5>2
      <4>3. CASE Promoted(m)
        BY <1>1, <4>1, <4>3
      <4> QED
        BY <2>6, <4>1, <4>2, <4>3
    <3>3. /\ lastMsg'.id \in DOMAIN recs' /\ lastMsg'.seq = recs'[lastMsg'.id].seq
          /\ lastMsg'.text = recs'[lastMsg'.id].text /\ lastMsg'.gone = recs'[lastMsg'.id].gone
          /\ lastMsg'.seq = f.n
      BY <1>4, <1>7, <1>12, <3>1
    <3> QED
      BY <1>3, <2>2, <3>2, <3>3 DEF PreviewIsNewest, DateNow
  <2>7. CASE ~(lastMsg = NoMsg \/ f.n > lastMsg.seq \/ Promoted(m))
    <3>1. lastMsg' = lastMsg /\ DOMAIN recs # {}
      BY <1>2, <1>12, <2>7 DEF RowFits, RestFits
    <3>2. f.n <= lastMsg.seq
      BY <1>3, <1>12, <2>7
    <3>3. /\ lastMsg.id \in DOMAIN recs' /\ lastMsg.seq = recs'[lastMsg.id].seq
          /\ lastMsg.id \notin misheard => /\ lastMsg.text = recs'[lastMsg.id].text
                                           /\ lastMsg.gone = recs'[lastMsg.id].gone
      <4>1. CASE lastMsg.id # f.id
        <5>1. lastMsg.id \in DOMAIN recs' /\ recs'[lastMsg.id] = recs[lastMsg.id]
          BY <1>7, <2>4, <3>1, <4>1
        <5> QED
          BY <2>4, <3>1, <5>1
      <4>2. CASE lastMsg.id = f.id
        <5>1. f.id \in DOMAIN recs /\ lastMsg.seq = recs[f.id].seq
          BY <2>4, <3>1, <4>2
        <5>2. recs[f.id].seq = f.n
          BY <1>4, <2>7, <4>2, <5>1 DEF Promoted
        <5>3. ~recs[f.id].gone
          BY <1>2, <5>1 DEF RowFits, FramesInOrder
        <5>4. f.id \notin misheard => recs[f.id].text = f.text
          <6>1. f.id \notin misheard => TextComes(f.n, f.id)
            BY <1>3, <2>1 DEF TextsCome
          <6> QED
            BY <1>2, <5>1, <6>1 DEF TextComes
        <5>5. recs[f.id].gone = FALSE
          <6>1. recs[f.id] \in Records
            BY <1>2, <5>1 DEF RowFits, RecsFit, RecFits
          <6> QED
            BY <5>3, <6>1 DEF Records
        <5>6. lastMsg.id \notin misheard => lastMsg.text = f.text /\ lastMsg.gone = FALSE
          BY <2>4, <3>1, <4>2, <5>4, <5>5
        <5> QED
          BY <1>4, <1>7, <4>2, <5>1, <5>2, <5>6
      <4> QED
        BY <4>1, <4>2
    <3>4. ASSUME NEW x \in DOMAIN recs', recs'[x].seq > lastMsg.seq
          PROVE  lastMsg.seq < DateNow /\ (recs'[x].seq >= DateNow \/ outrun')
      <4>1. recs'[x].seq > f.n /\ recs'[x].seq \in Nat
        BY <1>3, <1>12, <2>5, <3>2, <3>4
      <4>2. x # f.id
        BY <1>3, <1>8, <4>1
      <4>3. x \in DOMAIN recs /\ recs'[x] = recs[x]
        BY <1>7, <4>2
      <4>4. lastMsg.seq < DateNow /\ (recs[x].seq >= DateNow \/ outrun)
        BY <2>4, <3>1, <3>4, <4>3
      <4>5. ASSUME ~(recs'[x].seq >= DateNow) PROVE outrun'
        <5>1. Outdated(f.n)
          BY <2>3, <4>1, <4>5, RowParameters
        <5>2. outrun
          BY <4>3, <4>4, <4>5
        <5> QED
          BY <1>1, <5>1, <5>2
      <4> QED
        BY <4>4, <4>5
    <3> QED
      BY <1>2, <2>2, <3>1, <3>3, <3>4 DEF PreviewIsNewest, DateNow
  <2> QED
    BY <2>2, <2>6, <2>7
<1> QED
  BY <1>7, <1>9, <1>10, <1>13, <1>14 DEF RowInv, RowFits

\* The frame is one of the five.
LEMMA HandleFrameKeeps ==
    ASSUME RowInv, HandleFrame
    PROVE  RowInv'
<1>1. PICK f : f = frames[1]
  OBVIOUS
<1>2. f = Head(frames)
  BY <1>1, Taken DEF RowInv
<1>3. \/ f.type = "ACK" /\ HandleAck(f)
      \/ f.type = "MSG" /\ HandleMsg(f)
      \/ f.type = "EDITED" /\ HandleEdited(f)
      \/ f.type = "DELETED" /\ HandleDeleted(f)
      \/ f.type = "RECEIPT" /\ HandleReceipt(f)
  BY <1>2 DEF HandleFrame
<1> QED
  BY <1>1, <1>3, RowAckKeeps, RowMsgKeeps, RowEditedKeeps, RowDeletedKeeps, RowReceiptKeeps

-----------------------------------------------------------------------------
(* The conversation's row, always.                                          *)

\* At first nothing is shown.
LEMMA RowStarts == RowInit => RowInv
<1> SUFFICES ASSUME RowInit PROVE RowInv
  OBVIOUS
<1>1. /\ counter = 0 /\ posts = << >> /\ inbox = {} /\ conn = FALSE /\ frames = << >>
      /\ recs = << >> /\ idbRecs = << >> /\ lastMsg = NoMsg /\ newest = 0 /\ lastReadSeq = 0
      /\ readCursor = 0 /\ pane = FALSE /\ seenLength = 0 /\ texts = 0 /\ readUpTo = 0
      /\ misheard = {} /\ late = FALSE /\ outrun = FALSE /\ returned = FALSE /\ breaks = 0
  BY DEF RowInit
<1>2. DOMAIN posts = {} /\ DOMAIN recs = {} /\ DOMAIN idbRecs = {} /\ Slots = {}
  BY <1>1 DEF Slots
<1>3. PostsFit /\ InboxFits /\ RecsFit /\ FramesTyped /\ FramesInOrder
  BY <1>1, <1>2, RowParameters DEF PostsFit, InboxFits, RecsFit, FramesTyped, FramesInOrder
<1>4. RestFits
  <2>1. NoMsg \in [id : Nat, seq : Nat, text : Nat, gone : BOOLEAN]
    BY DEF NoMsg
  <2>2. {conn, pane, late, outrun, returned} \subseteq BOOLEAN
    BY <1>1
  <2>3. lastMsg \in [id : Nat, seq : Nat, text : Nat, gone : BOOLEAN]
    BY <1>1, <2>1
  <2>4. {newest, lastReadSeq, readCursor, seenLength} \subseteq Nat /\ texts \in 0..MaxTexts
        /\ breaks \in 0..MaxBreaks /\ readUpTo \in 0..counter /\ lastReadSeq <= readUpTo
    BY <1>1, RowParameters
  <2> QED
    BY <1>1, <2>2, <2>3, <2>4 DEF RestFits
<1>5. NewestComes
  BY <1>1, <1>2 DEF NewestComes
<1>6. TextsCome /\ PreviewIsNewest
  BY <1>2 DEF TextsCome, PreviewIsNewest
<1> QED
  BY <1>3, <1>4, <1>5, <1>6 DEF RowInv, RowFits

\* Every step keeps the row as it is to be.
LEMMA RowStep == RowInv /\ [RowNext]_rowVars => RowInv'
<1> SUFFICES ASSUME RowInv, [RowNext]_rowVars PROVE RowInv'
  OBVIOUS
<1>1. CASE UNCHANGED rowVars
  <2>1. /\ UNCHANGED <<rowServer, conn, frames, rowShown, newest, texts, misheard, late, outrun,
                       returned>>
        /\ readUpTo' = readUpTo /\ lastReadSeq' = lastReadSeq /\ readCursor' = readCursor
        /\ pane' = pane /\ seenLength' = seenLength /\ breaks' = breaks
    BY <1>1 DEF rowVars, rowHistory
  <2>2. RestFits
    BY DEF RowInv, RowFits
  <2>3. RestFits'
    BY <2>1, <2>2 DEF RestFits, rowServer, rowShown, DateNow
  <2>4. readUpTo' \in Int /\ readUpTo <= readUpTo'
    BY <2>1, <2>2 DEF RestFits
  <2> QED
    BY <2>1, <2>3, <2>4, ShownSame
<1>2. CASE OtherSends \/ SentElsewhere \/ SendHere
  BY <1>2, OtherSendsKeeps, SentElsewhereKeeps, SendHereKeeps
<1>3. ASSUME NEW n \in DOMAIN posts, ReadElsewhere(n) PROVE RowInv'
  BY <1>3, ReadElsewhereKeeps
<1>4. ASSUME NEW n \in DOMAIN posts, NEW type \in {"EDITED", "DELETED"}, ChangePost(n, type)
      PROVE  RowInv'
  BY <1>4, ChangePostKeeps
<1>5. ASSUME NEW id \in DOMAIN recs, ServeSend(id) \/ ServeAgain(id) PROVE RowInv'
  BY <1>5, ServeSendKeeps, ServeAgainKeeps
<1>6. CASE HandleFrame \/ ReadPane \/ Select \/ ConnectRow \/ Break \/ ReloadRow
  BY <1>6, HandleFrameKeeps, ReadPaneKeeps, SelectKeeps, ConnectRowKeeps, BreakKeeps,
     ReloadRowKeeps
<1> QED
  BY <1>1, <1>2, <1>3, <1>4, <1>5, <1>6 DEF RowNext

\* Every variable keeps its type, and no number is above the counter (SyncClient.js:655-733).
THEOREM RowTypeCorrect == RowSpec => []RowTypeOK
<1>1. RowInv => RowTypeOK
  <2> SUFFICES ASSUME RowInv PROVE RowTypeOK
    OBVIOUS
  <2>1. /\ counter \in 0..MaxNumbers /\ DOMAIN posts \subseteq 1..counter
        /\ inbox \subseteq DOMAIN posts
    BY DEF RowInv, RowFits, PostsFit, InboxFits
  <2>2. /\ \A id \in DOMAIN recs : recs[id] \in Records /\ recs[id].id = id
        /\ \A n \in DOMAIN idbRecs : idbRecs[n] \in Records /\ idbRecs[n].seq = n
    BY DEF RowInv, RowFits, RecsFit, RecFits
  <2>3. /\ {newest, lastReadSeq, readCursor, readUpTo, seenLength} \subseteq Nat
        /\ {conn, pane, late, outrun, returned} \subseteq BOOLEAN
        /\ texts \in 0..MaxTexts /\ breaks \in 0..MaxBreaks
    BY <2>1 DEF RowInv, RowFits, RestFits
  <2> QED
    BY <2>1, <2>2, <2>3 DEF RowTypeOK
<1> QED
  BY <1>1, RowStarts, RowStep, PTL DEF RowSpec

\* Whatever comes in whatever order, breaks, is sent twice or read on the other device: the preview
\* is the newest message as its bubble shows it, as long as no reload has put an own text under its
\* pending number again, and the badge is no less than what waits to be read
\* (SyncClient.js:186-190, 655-733, useNdeUnread.js:6-17).
THEOREM RowStaysCurrent == RowSpec => []RowIsCurrent
<1>1. RowInv => RowIsCurrent
  <2> SUFFICES ASSUME RowInv, conn, frames = << >>, lastReadSeq < DateNow, ~late
               PROVE  Unread >= Cardinality(NotRead)
    BY DEF RowIsCurrent, BadgeCovers, RowInv
  <2>1. RowFits /\ Slots = {}
    BY DEF RowInv, Slots
  <2>2. newest \in Nat /\ lastReadSeq \in Nat /\ lastReadSeq <= readUpTo /\ readUpTo \in Int
    BY <2>1 DEF RowFits, RestFits
  <2>3. ASSUME NEW id \in NotRead PROVE id \in (lastReadSeq + 1)..newest
    <3>1. /\ id \in DOMAIN recs /\ id < DateNow /\ recs[id].seq > readUpTo /\ ~recs[id].gone
      BY <2>3 DEF NotRead
    <3>2. id \in Nat /\ recs[id].id = id /\ RecFits(recs[id])
      BY <2>1, <3>1, Unposted DEF RowFits, RecsFit
    <3>3. recs[id].seq \in DOMAIN posts /\ posts[recs[id].seq].id = id
      BY <3>1, <3>2 DEF RecFits
    <3>4. recs[id].seq = id
      BY <2>1, <3>1, <3>3 DEF RowFits, PostsFit
    <3>5. Reached(id)
      <4>1. Reached(id) \/ Comes("DELETED", id)
        BY <2>1, <3>1 DEF RowFits, NewestComes
      <4> QED
        BY <2>1, <4>1 DEF Comes
    <3>6. id <= newest
      BY <2>1, <3>5 DEF Reached
    <3> QED
      BY <2>2, <3>1, <3>2, <3>4, <3>6
  <2>4. PICK I : I = (lastReadSeq + 1)..newest
    OBVIOUS
  <2>5. IsFiniteSet(I) /\ Cardinality(I) = IF lastReadSeq + 1 > newest THEN 0
                                           ELSE newest - (lastReadSeq + 1) + 1
    <3>1. PICK a \in Int : a = lastReadSeq + 1
      BY <2>2
    <3> QED
      BY <2>2, <2>4, <3>1, FS_Interval
  <2>6. NotRead \in SUBSET I
    BY <2>3, <2>4
  <2>7. Cardinality(NotRead) <= Cardinality(I) /\ Cardinality(NotRead) \in Nat
    BY <2>5, <2>6, FS_Subset, FS_CardinalityType
  <2> QED
    BY <2>2, <2>5, <2>7 DEF Unread, Larger
<1> QED
  BY <1>1, RowStarts, RowStep, PTL DEF RowSpec

=============================================================================
