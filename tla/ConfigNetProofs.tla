--------------------------- MODULE ConfigNetProofs ---------------------------
(***************************************************************************)
(* TypeOK, PlansValid, UpdateHidesNothing, PromiseKept, TakesForGood and  *)
(* AdoptionKeepsHistory of ConfigNet, for any number of installs and texts *)
(* and any limits.  Every version an install adopts, merges or publishes   *)
(* has a lineage of older keys, each once, so no check ever refuses the    *)
(* state or the heads it is given; merging loses only the oldest keys.     *)
(* And of a check whose answer was carried out only heads of other         *)
(* contents are left, which stay unknown, so a fresh check finds what was  *)
(* promised.                                                               *)
(***************************************************************************)
EXTENDS ConfigNet, FiniteSetTheorems, TLAPS

---------------------------------------------------------------------------
(* Finite sets.                                                            *)

\* The values of a function on a finite set.
LEMMA ImageFinite ==
  ASSUME NEW f, IsFiniteSet(DOMAIN f)
  PROVE  IsFiniteSet({f[x] : x \in DOMAIN f})
<1> DEFINE S == DOMAIN f
           T == {f[x] : x \in S}
           g == [x \in S |-> f[x]]
<1>1. g \in Surjection(S, T)
  <2>1. g \in [S -> T]
    OBVIOUS
  <2>2. \A t \in T : \E x \in S : g[x] = t
    OBVIOUS
  <2> HIDE DEF g, T
  <2> QED
    BY <2>1, <2>2 DEF Surjection
<1> HIDE DEF g, T
<1>2. IsFiniteSet(T)
  BY <1>1, FS_Surjection
<1> QED
  BY <1>2 DEF T

\* Two different members make more than one.
LEMMA MoreThanOne ==
  ASSUME NEW S, IsFiniteSet(S), NEW x \in S, NEW y \in S, x # y
  PROVE  Cardinality(S) > 1
<1>1. Cardinality({x}) = 1
  BY FS_Singleton
<1>2. IsFiniteSet(S \ {x}) /\ Cardinality(S \ {x}) = Cardinality(S) - 1
  BY FS_RemoveElement
<1>3. Cardinality(S \ {x}) # 0
  BY <1>2, FS_EmptySet
<1>4. Cardinality(S) \in Nat /\ Cardinality(S \ {x}) \in Nat
  BY <1>2, FS_CardinalityType
<1> QED
  BY <1>2, <1>3, <1>4

---------------------------------------------------------------------------
(* Sequences.                                                              *)

\* A function on the first n numbers is a sequence.
LEMMA FunctionIsSeq ==
  ASSUME NEW S, NEW n \in Nat, NEW s \in [1..n -> S]
  PROVE  s \in Seq(S) /\ Len(s) = n
OBVIOUS

\* A concatenation says what its parts say, one after the other.
LEMMA Concatenation ==
  ASSUME NEW S, NEW s \in Seq(S), NEW t \in Seq(S)
  PROVE  /\ s \o t \in Seq(S) /\ Len(s \o t) = Len(s) + Len(t)
         /\ Len(s) \in Nat /\ Len(t) \in Nat
         /\ \A i \in DOMAIN (s \o t) :
              \/ i \in DOMAIN s /\ (s \o t)[i] = s[i]
              \/ i - Len(s) \in DOMAIN t /\ (s \o t)[i] = t[i - Len(s)]
OBVIOUS

\* And it says all of it.
LEMMA ConcatenationParts ==
  ASSUME NEW S, NEW s \in Seq(S), NEW t \in Seq(S)
  PROVE  /\ \A i \in DOMAIN s : i \in DOMAIN (s \o t) /\ (s \o t)[i] = s[i]
         /\ \A i \in DOMAIN t : i + Len(s) \in DOMAIN (s \o t) /\ (s \o t)[i + Len(s)] = t[i]
OBVIOUS

---------------------------------------------------------------------------
(* Finite sets in order.                                                   *)

\* R orders S strictly and totally.
Orders(R, S) ==
    /\ \A x \in S : <<x, x>> \notin R
    /\ \A x, y, z \in S : <<x, y>> \in R /\ <<y, z>> \in R => <<x, z>> \in R
    /\ \A x, y \in S : x = y \/ <<x, y>> \in R \/ <<y, x>> \in R

Below(x, S, R) == {y \in S : <<y, x>> \in R}

\* The places taken in an order are those from the first to the last.
LEMMA PlaceTaken ==
  ASSUME NEW S, IsFiniteSet(S), NEW R, Orders(R, S), NEW r \in 1..Cardinality(S)
  PROVE  \E x \in S : Cardinality(Below(x, S, R)) = r - 1
<1> DEFINE n == Cardinality(S)
           f == [x \in S |-> Cardinality(Below(x, S, R))]
           T == {f[x] : x \in S}
<1>1. n \in Nat
  BY FS_CardinalityType
<1>2. \A x \in S : IsFiniteSet(Below(x, S, R)) /\ Cardinality(Below(x, S, R)) \in Nat
  <2> TAKE x \in S
  <2>1. Below(x, S, R) \in SUBSET S
    BY DEF Below
  <2>2. IsFiniteSet(Below(x, S, R))
    BY <2>1, FS_Subset
  <2> QED
    BY <2>2, FS_CardinalityType
<1>3. \A x, y \in S : <<x, y>> \in R => f[x] < f[y]
  <2> SUFFICES ASSUME NEW x \in S, NEW y \in S, <<x, y>> \in R
               PROVE  f[x] < f[y]
    OBVIOUS
  <2>1. Below(x, S, R) \in SUBSET Below(y, S, R)
    BY DEF Below, Orders
  <2>2. x \in Below(y, S, R) /\ x \notin Below(x, S, R)
    BY DEF Below, Orders
  <2>3. Below(x, S, R) # Below(y, S, R)
    BY <2>2
  <2>4. /\ Cardinality(Below(x, S, R)) <= Cardinality(Below(y, S, R))
        /\ Cardinality(Below(x, S, R)) # Cardinality(Below(y, S, R))
    BY <1>2, <2>1, <2>3, FS_Subset
  <2> QED
    BY <1>2, <2>4
<1>4. \A x \in S : f[x] \in 0..(n - 1)
  <2> TAKE x \in S
  <2>1. Below(x, S, R) \in SUBSET S /\ x \notin Below(x, S, R)
    BY DEF Below, Orders
  <2>2. Below(x, S, R) # S
    BY <2>1
  <2>3. Cardinality(Below(x, S, R)) <= n /\ Cardinality(Below(x, S, R)) # n
    BY <2>1, <2>2, FS_Subset
  <2> QED
    BY <1>1, <1>2, <2>3
<1>5. f \in Bijection(S, T)
  <2>1. f \in [S -> T]
    OBVIOUS
  <2>2. \A x, y \in S : f[x] = f[y] => x = y
    <3>1. \A x \in S : f[x] \in Int
      BY <1>2
    <3> SUFFICES ASSUME NEW x \in S, NEW y \in S, f[x] = f[y], x # y PROVE FALSE
      OBVIOUS
    <3>2. <<x, y>> \in R \/ <<y, x>> \in R
      BY DEF Orders
    <3>3. f[x] \in Int /\ f[y] \in Int
      BY <3>1
    <3>4. f[x] < f[y] \/ f[y] < f[x]
      <4> HIDE DEF f
      <4> QED
        BY <1>3, <3>2
    <3> HIDE DEF f
    <3> QED
      BY <3>3, <3>4
  <2>3. \A t \in T : \E x \in S : f[x] = t
    OBVIOUS
  <2> HIDE DEF f, T
  <2> QED
    BY <2>1, <2>2, <2>3 DEF Bijection, Injection, Surjection, IsInjective
<1> HIDE DEF f
<1>6. IsFiniteSet(T) /\ Cardinality(T) = n
  <2>1. ExistsBijection(S, T)
    BY <1>5 DEF ExistsBijection
  <2> HIDE DEF T
  <2> QED
    BY <2>1, FS_Bijection
<1>7. T = 0..(n - 1)
  <2>1. T \in SUBSET (0..(n - 1))
    BY <1>4
  <2>2. IsFiniteSet(0..(n - 1)) /\ Cardinality(0..(n - 1)) = n
    <3>1. 0 \in Int /\ n - 1 \in Int /\ n >= 1
      BY <1>1
    <3>2. /\ IsFiniteSet(0..(n - 1))
          /\ Cardinality(0..(n - 1)) = IF 0 > n - 1 THEN 0 ELSE (n - 1) - 0 + 1
      BY <3>1, FS_Interval
    <3> QED
      BY <1>1, <3>1, <3>2
  <2> HIDE DEF T
  <2> QED
    BY <1>6, <2>1, <2>2, FS_Subset
<1>8. r - 1 \in T
  BY <1>1, <1>7
<1>9. PICK x \in S : f[x] = r - 1
  BY <1>8
<1> QED
  BY <1>9 DEF f

\* Ranking puts each member of a finite set at a place of its own.
RankedWell(S, R) ==
    LET sorted == Ranked(S, R)
    IN  /\ sorted \in [1..Cardinality(S) -> S]
        /\ \A m, n \in 1..Cardinality(S) : sorted[m] = sorted[n] => m = n
        /\ \A r \in 1..Cardinality(S) : Cardinality(Below(sorted[r], S, R)) = r - 1

\* For every strict total order.
LEMMA RankedIsWell ==
  ASSUME NEW S, IsFiniteSet(S), NEW R, Orders(R, S)
  PROVE  RankedWell(S, R)
<1> DEFINE n == Cardinality(S)
           At(x, r) == x \in S /\ Cardinality(Below(x, S, R)) = r - 1
           sorted == Ranked(S, R)
<1>1. sorted = [r \in 1..n |-> CHOOSE x : At(x, r)]
  BY DEF Ranked, Below
<1>2. \A r \in 1..n : At(CHOOSE x : At(x, r), r)
  <2> TAKE r \in 1..n
  <2>1. \E x : At(x, r)
    BY PlaceTaken
  <2> HIDE DEF At
  <2> QED
    BY <2>1
<1> HIDE DEF sorted
<1>3. \A r \in 1..n : sorted[r] \in S /\ Cardinality(Below(sorted[r], S, R)) = r - 1
  <2> TAKE r \in 1..n
  <2>1. sorted[r] = CHOOSE x : At(x, r)
    BY <1>1
  <2>2. At(CHOOSE x : At(x, r), r)
    BY <1>2
  <2>3. At(sorted[r], r)
    <3> HIDE DEF At
    <3> QED
      BY <2>1, <2>2
  <2> QED
    BY <2>3
<1>4. sorted \in [1..n -> S]
  <2>1. DOMAIN sorted = 1..n
    BY <1>1
  <2>2. sorted = [r \in 1..n |-> sorted[r]]
    <3> HIDE DEF At
    <3> QED
      BY <1>1
  <2> QED
    BY <1>3, <2>2
<1>5. \A k, m \in 1..n : sorted[k] = sorted[m] => k = m
  <2> SUFFICES ASSUME NEW k \in 1..n, NEW m \in 1..n, sorted[k] = sorted[m] PROVE k = m
    OBVIOUS
  <2>1. n \in Nat
    BY FS_CardinalityType
  <2>2. k - 1 = m - 1
    BY <1>3
  <2> QED
    BY <2>1, <2>2
<1> QED
  BY <1>3, <1>4, <1>5 DEF RankedWell, sorted

\* Of two members the earlier has fewer before it.
LEMMA BelowFewer ==
  ASSUME NEW S, IsFiniteSet(S), NEW R, Orders(R, S),
         NEW x \in S, NEW y \in S, <<x, y>> \in R
  PROVE  Cardinality(Below(x, S, R)) < Cardinality(Below(y, S, R))
<1> DEFINE a == Below(x, S, R)
           b == Below(y, S, R)
<1>1. a \cup {x} \in SUBSET b /\ x \notin a /\ b \in SUBSET S
  BY DEF Below, Orders
<1> HIDE DEF a, b
<1>2. IsFiniteSet(b)
  BY <1>1, FS_Subset
<1>3. IsFiniteSet(a)
  <2>1. a \in SUBSET b
    BY <1>1
  <2> QED
    BY <1>2, <2>1, FS_Subset
<1>4. Cardinality(a \cup {x}) = Cardinality(a) + 1
  BY <1>1, <1>3, FS_AddElement
<1>5. Cardinality(a \cup {x}) <= Cardinality(b)
  BY <1>1, <1>2, FS_Subset
<1>6. Cardinality(a) \in Nat /\ Cardinality(b) \in Nat
  BY <1>2, <1>3, FS_CardinalityType
<1> QED
  BY <1>4, <1>5, <1>6 DEF a, b

\* Ranked lists every member, in the order.
LEMMA RankedInOrder ==
  ASSUME NEW S, IsFiniteSet(S), NEW R, Orders(R, S)
  PROVE  LET sorted == Ranked(S, R)
         IN  /\ \A x \in S : \E m \in 1..Cardinality(S) : sorted[m] = x
             /\ \A k, m \in 1..Cardinality(S) : k < m => <<sorted[k], sorted[m]>> \in R
<1> DEFINE sorted == Ranked(S, R)
           n == Cardinality(S)
           before(x) == Cardinality(Below(x, S, R))
<1>1. /\ sorted \in [1..n -> S]
      /\ \A k, m \in 1..n : sorted[k] = sorted[m] => k = m
      /\ \A r \in 1..n : before(sorted[r]) = r - 1
  BY RankedIsWell DEF RankedWell
<1>2. n \in Nat
  BY FS_CardinalityType
<1>3. \A x, y \in S : <<x, y>> \in R => before(x) < before(y)
  BY BelowFewer
<1>4. \A x \in S : before(x) \in Nat /\ before(x) + 1 \in 1..n
  <2> TAKE x \in S
  <2>1. Below(x, S, R) \in SUBSET (S \ {x})
    BY DEF Below, Orders
  <2>2. IsFiniteSet(S \ {x}) /\ Cardinality(S \ {x}) = n - 1
    BY FS_RemoveElement
  <2>3. IsFiniteSet(Below(x, S, R)) /\ before(x) <= n - 1
    BY <2>1, <2>2, FS_Subset
  <2>4. before(x) \in Nat
    BY <2>3, FS_CardinalityType
  <2> QED
    BY <1>2, <2>3, <2>4
<1> HIDE DEF sorted, before, n
<1>5. ASSUME NEW x \in S PROVE \E m \in 1..n : sorted[m] = x
  <2> DEFINE y == sorted[before(x) + 1]
  <2>1. y \in S /\ before(y) = before(x)
    BY <1>1, <1>4
  <2> HIDE DEF y
  <2>2. before(x) \in Nat /\ <<x, y>> \notin R /\ <<y, x>> \notin R
    BY <1>3, <1>4, <2>1
  <2>3. x = y
    BY <2>1, <2>2 DEF Orders
  <2> QED
    BY <1>4, <2>3 DEF y
<1>6. ASSUME NEW k \in 1..n, NEW m \in 1..n, k < m
      PROVE  <<sorted[k], sorted[m]>> \in R
  <2>1. sorted[k] \in S /\ sorted[m] \in S /\ sorted[k] # sorted[m]
    BY <1>1, <1>2, <1>6
  <2>2. before(sorted[k]) = k - 1 /\ before(sorted[m]) = m - 1
    BY <1>1
  <2>3. <<sorted[m], sorted[k]>> \notin R
    BY <1>2, <1>3, <1>6, <2>1, <2>2
  <2> QED
    BY <2>1, <2>3 DEF Orders
<1> QED
  BY <1>5, <1>6 DEF sorted, n

\* An ordered finite set that has members has a first one.
LEMMA FirstExists ==
  ASSUME NEW S, IsFiniteSet(S), S # {}, NEW R, Orders(R, S)
  PROVE  \E x \in S : \A y \in S \ {x} : <<x, y>> \in R
<1>1. Cardinality(S) \in Nat /\ Cardinality(S) # 0
  BY FS_CardinalityType, FS_EmptySet
<1>2. 1 \in 1..Cardinality(S)
  BY <1>1
<1>3. PICK x \in S : Cardinality(Below(x, S, R)) = 1 - 1
  BY <1>2, PlaceTaken
<1>4. Below(x, S, R) = {}
  <2>1. Below(x, S, R) \in SUBSET S
    BY DEF Below
  <2>2. IsFiniteSet(Below(x, S, R))
    BY <2>1, FS_Subset
  <2>3. Cardinality(Below(x, S, R)) = 0
    BY <1>3
  <2> QED
    BY <2>2, <2>3, FS_EmptySet
<1> QED
  BY <1>4 DEF Below, Orders

\* A finite set of numbers that is not empty has a greatest one.
LEMMA GreatestNumber ==
  ASSUME NEW S, IsFiniteSet(S), S # {}, S \subseteq Int
  PROVE  Max(S) \in S /\ \A y \in S : y <= Max(S)
<1> DEFINE R == {p \in S \X S : p[1] > p[2]}
           Greatest(x) == x \in S /\ \A y \in S : x >= y
<1>1. \A x, y \in S : <<x, y>> \in R <=> x > y
  OBVIOUS
<1>2. Orders(R, S)
  <2> HIDE DEF R
  <2> QED
    BY <1>1 DEF Orders
<1>3. PICK x \in S : \A y \in S \ {x} : <<x, y>> \in R
  <2> HIDE DEF R
  <2> QED
    BY <1>2, FirstExists
<1>4. Greatest(x)
  <2>1. \A y \in S \ {x} : x > y
    <3> HIDE DEF R
    <3> QED
      BY <1>1, <1>3
  <2> QED
    BY <2>1
<1>5. Max(S) = CHOOSE z : Greatest(z)
  BY DEF Max
<1>6. Greatest(Max(S))
  <2> HIDE DEF Greatest
  <2> QED
    BY <1>4, <1>5
<1> QED
  BY <1>6

---------------------------------------------------------------------------
(* Lines of keys and the places in them.                                   *)

Lines(lines) ==
    /\ IsFiniteSet(DOMAIN lines)
    /\ DOMAIN lines \subseteq Int
    /\ \A n \in DOMAIN lines : lines[n] \in Seq(Key)

\* A place is a line and a position in it.
LEMMA PlacesAre ==
  ASSUME NEW lines, Lines(lines)
  PROVE  /\ IsFiniteSet(Places(lines))
         /\ \A p \in Places(lines) :
              /\ p = <<p[1], p[2]>>
              /\ p[1] \in DOMAIN lines /\ p[1] \in Int
              /\ p[2] \in DOMAIN lines[p[1]] /\ p[2] \in Int
              /\ KeyAt(lines, p) \in Key
         /\ \A n \in DOMAIN lines : \A i \in DOMAIN lines[n] : <<n, i>> \in Places(lines)
<1> DEFINE In(n) == {n} \X DOMAIN lines[n]
           U == {In(n) : n \in DOMAIN lines}
<1>1. IsFiniteSet(U)
  <2> DEFINE f == [n \in DOMAIN lines |-> In(n)]
  <2>1. IsFiniteSet(DOMAIN lines) /\ DOMAIN f = DOMAIN lines
    BY DEF Lines
  <2>2. U = {f[n] : n \in DOMAIN f}
    OBVIOUS
  <2> HIDE DEF f
  <2> QED
    BY <2>1, <2>2, ImageFinite
<1>2. \A T \in U : IsFiniteSet(T)
  <2> SUFFICES ASSUME NEW n \in DOMAIN lines PROVE IsFiniteSet(In(n))
    OBVIOUS
  <2>1. lines[n] \in Seq(Key)
    BY DEF Lines
  <2>2. DOMAIN lines[n] = 1..Len(lines[n]) /\ Len(lines[n]) \in Nat
    BY <2>1
  <2>3. IsFiniteSet(DOMAIN lines[n])
    <3>1. 1 \in Int /\ Len(lines[n]) \in Int
      BY <2>2
    <3> QED
      BY <2>2, <3>1, FS_Interval
  <2>4. IsFiniteSet({n})
    BY FS_Singleton
  <2> QED
    BY <2>3, <2>4, FS_Product
<1>3. Places(lines) = UNION U
  BY DEF Places
<1>4. IsFiniteSet(Places(lines))
  <2> HIDE DEF U
  <2> QED
    BY <1>1, <1>2, <1>3, FS_UNION
<1>5. ASSUME NEW p \in Places(lines)
      PROVE  /\ p = <<p[1], p[2]>>
             /\ p[1] \in DOMAIN lines /\ p[1] \in Int
             /\ p[2] \in DOMAIN lines[p[1]] /\ p[2] \in Int
             /\ KeyAt(lines, p) \in Key
  <2>1. PICK n \in DOMAIN lines : p \in {n} \X DOMAIN lines[n]
    BY DEF Places
  <2>2. PICK i \in DOMAIN lines[n] : p = <<n, i>>
    BY <2>1
  <2>3. lines[n] \in Seq(Key) /\ n \in Int
    BY DEF Lines
  <2>4. i \in Int /\ lines[n][i] \in Key
    BY <2>3
  <2> QED
    BY <2>2, <2>3, <2>4 DEF KeyAt
<1>6. ASSUME NEW n \in DOMAIN lines, NEW i \in DOMAIN lines[n]
      PROVE  <<n, i>> \in Places(lines)
  BY DEF Places
<1> QED
  BY <1>4, <1>5, <1>6

\* Of two different places one is earlier.
LEMMA EarlierOrders ==
  ASSUME NEW lines, Lines(lines)
  PROVE  /\ \A p \in Places(lines) : ~Earlier(p, p)
         /\ \A p, q, r \in Places(lines) :
              Earlier(p, q) /\ Earlier(q, r) => Earlier(p, r)
         /\ \A p, q \in Places(lines) : p = q \/ Earlier(p, q) \/ Earlier(q, p)
<1>1. \A p \in Places(lines) : p = <<p[1], p[2]>> /\ p[1] \in Int /\ p[2] \in Int
  BY PlacesAre
<1>2. ASSUME NEW p \in Places(lines), NEW q \in Places(lines),
             ~Earlier(p, q), ~Earlier(q, p)
      PROVE  p = q
  <2>1. p[1] = q[1] /\ p[2] = q[2]
    BY <1>1, <1>2 DEF Earlier
  <2> QED
    BY <1>1, <2>1
<1>3. \A p \in Places(lines) : ~Earlier(p, p)
  BY <1>1 DEF Earlier
<1>4. ASSUME NEW p \in Places(lines), NEW q \in Places(lines), NEW r \in Places(lines),
             Earlier(p, q), Earlier(q, r)
      PROVE  Earlier(p, r)
  BY <1>1, <1>4 DEF Earlier
<1> QED
  BY <1>2, <1>3, <1>4

DistinctAt(lines, places) ==
    \A p, q \in places : KeyAt(lines, p) = KeyAt(lines, q) => p = q

\* keys are those at the places.
KeysAtPlaces(keys, lines, places) ==
    /\ keys \in Seq(Key)
    /\ Len(keys) = Cardinality(places)
    /\ \A r \in DOMAIN keys : \E p \in places : keys[r] = KeyAt(lines, p)
    /\ \A p \in places : \E r \in DOMAIN keys : keys[r] = KeyAt(lines, p)
    /\ DistinctAt(lines, places) => IsInjective(keys)

\* The order in which keys are sorted.
KeyOrder(lines, places, lead) ==
    {pq \in places \X places : SortsBefore(lines, lead, pq[1], pq[2])}

\* It orders the places.
LEMMA KeysOrdered ==
  ASSUME NEW lines, Lines(lines), NEW places \in SUBSET Places(lines), NEW lead
  PROVE  /\ IsFiniteSet(places)
         /\ \A p \in places : KeyAt(lines, p) \in Key /\ KeyAt(lines, p).gen \in Int
         /\ Orders(KeyOrder(lines, places, lead), places)
<1> DEFINE before == KeyOrder(lines, places, lead)
<1>1. IsFiniteSet(places)
  BY PlacesAre, FS_Subset
<1>2. \A p \in places : KeyAt(lines, p) \in Key
  BY PlacesAre
<1>3. \A p \in places : KeyAt(lines, p).gen \in Int
  BY <1>2 DEF Key
<1>4. Orders(before, places)
  <2>1. \A p, q \in places : <<p, q>> \in before <=> SortsBefore(lines, lead, p, q)
    BY DEF KeyOrder
  <2>2. /\ \A p \in places : ~Earlier(p, p)
        /\ \A p, q, r \in places : Earlier(p, q) /\ Earlier(q, r) => Earlier(p, r)
        /\ \A p, q \in places : p = q \/ Earlier(p, q) \/ Earlier(q, p)
    BY EarlierOrders
  <2>3. \A p \in places : ~SortsBefore(lines, lead, p, p)
    BY <1>3, <2>2 DEF SortsBefore
  <2>4. \A p, q \in places :
          p = q \/ SortsBefore(lines, lead, p, q) \/ SortsBefore(lines, lead, q, p)
    BY <1>3, <2>2 DEF SortsBefore
  <2>5. ASSUME NEW p \in places, NEW q \in places, NEW r \in places,
               SortsBefore(lines, lead, p, q), SortsBefore(lines, lead, q, r)
        PROVE  SortsBefore(lines, lead, p, r)
    BY <1>3, <2>2, <2>5 DEF SortsBefore
  <2> HIDE DEF before
  <2> QED
    BY <2>1, <2>3, <2>4, <2>5 DEF Orders
<1> QED
  BY <1>1, <1>2, <1>3, <1>4

\* Sorting the keys of some places loses none and adds none.
LEMMA SortedKeys ==
  ASSUME NEW lines, Lines(lines), NEW places \in SUBSET Places(lines), NEW lead
  PROVE  KeysAtPlaces(ByGeneration(lines, places, lead), lines, places)
<1> DEFINE before == KeyOrder(lines, places, lead)
           sorted == Ranked(places, before)
           keys == ByGeneration(lines, places, lead)
           n == Cardinality(places)
<1>1. IsFiniteSet(places) /\ n \in Nat
  BY KeysOrdered, FS_CardinalityType
<1>2. \A p \in places : KeyAt(lines, p) \in Key
  BY KeysOrdered
<1>3. Orders(before, places)
  BY KeysOrdered
<1> HIDE DEF before
<1>4. /\ sorted \in [1..n -> places]
      /\ \A k, m \in 1..n : sorted[k] = sorted[m] => k = m
  BY <1>1, <1>3, RankedIsWell DEF RankedWell
<1>5. \A p \in places : \E m \in 1..n : sorted[m] = p
  BY <1>1, <1>3, RankedInOrder
<1>6. keys = [r \in DOMAIN sorted |-> KeyAt(lines, sorted[r])]
  BY DEF ByGeneration, before, KeyOrder
<1> HIDE DEF sorted, keys
<1>7. keys \in [1..n -> Key] /\ \A r \in 1..n : keys[r] = KeyAt(lines, sorted[r])
  BY <1>2, <1>4, <1>6
<1>8. keys \in Seq(Key) /\ Len(keys) = n /\ DOMAIN keys = 1..n
  BY <1>1, <1>7
<1>9. DistinctAt(lines, places) => IsInjective(keys)
  BY <1>4, <1>7, <1>8 DEF DistinctAt, IsInjective
<1>10. \A p \in places : \E r \in DOMAIN keys : keys[r] = KeyAt(lines, p)
  BY <1>5, <1>7, <1>8
<1> QED
  BY <1>4, <1>7, <1>8, <1>9, <1>10 DEF KeysAtPlaces, keys

\* No key is older than one after it.
NewestFirst(keys) == \A r, q \in DOMAIN keys : r < q => keys[q].gen <= keys[r].gen

\* Sorted with none that lead, the newest keys come first.
LEMMA SortedNewestFirst ==
  ASSUME NEW lines, Lines(lines), NEW places \in SUBSET Places(lines)
  PROVE  NewestFirst(ByGeneration(lines, places, {}))
<1> DEFINE before == KeyOrder(lines, places, {})
           sorted == Ranked(places, before)
           keys == ByGeneration(lines, places, {})
           n == Cardinality(places)
<1>1. /\ IsFiniteSet(places) /\ Orders(before, places)
      /\ \A p \in places : KeyAt(lines, p).gen \in Int
  BY KeysOrdered
<1>2. \A p, q \in places : <<p, q>> \in before => KeyAt(lines, p).gen >= KeyAt(lines, q).gen
  BY <1>1 DEF KeyOrder, SortsBefore
<1>3. keys = [r \in DOMAIN sorted |-> KeyAt(lines, sorted[r])]
  BY DEF ByGeneration, KeyOrder
<1> HIDE DEF before
<1>4. sorted \in [1..n -> places]
  BY <1>1, RankedIsWell DEF RankedWell
<1>5. \A k, m \in 1..n : k < m => <<sorted[k], sorted[m]>> \in before
  BY <1>1, RankedInOrder
<1> HIDE DEF sorted, keys
<1>6. DOMAIN keys = 1..n /\ \A r \in 1..n : keys[r] = KeyAt(lines, sorted[r])
  BY <1>3, <1>4
<1>7. ASSUME NEW r \in DOMAIN keys, NEW q \in DOMAIN keys, r < q
      PROVE  keys[q].gen <= keys[r].gen
  <2>1. sorted[r] \in places /\ sorted[q] \in places /\ <<sorted[r], sorted[q]>> \in before
    BY <1>4, <1>5, <1>6, <1>7
  <2>2. KeyAt(lines, sorted[r]).gen >= KeyAt(lines, sorted[q]).gen
    BY <1>2, <2>1
  <2> QED
    BY <1>1, <1>6, <2>1, <2>2
<1> QED
  BY <1>7 DEF NewestFirst, keys

\* Key k is in a lineage, or the lineage is full of keys that are no older.
Lists(lineage, k) ==
    \/ k \in ToSet(lineage)
    \/ Len(lineage) = LineageLimit /\ \A o \in ToSet(lineage) : k.gen <= o.gen

\* A cut of keys, newest first, drops the oldest.
LEMMA OldestDropped ==
  ASSUME NEW keys \in Seq(Key), NewestFirst(keys)
  PROVE  \A k \in ToSet(keys) : Lists(Truncated(keys), k)
<1> DEFINE n == IF Len(keys) < LineageLimit THEN Len(keys) ELSE LineageLimit
           cut == Truncated(keys)
<1>1. /\ LineageLimit \in Nat /\ Len(keys) \in Nat
      /\ n \in Nat /\ n <= Len(keys) /\ n <= LineageLimit
      /\ n < Len(keys) => n = LineageLimit
  BY ConfigSyncAssumption
<1>2. cut = SubSeq(keys, 1, n)
  BY DEF Truncated
<1> HIDE DEF n
<1>3. /\ cut \in Seq(Key) /\ Len(cut) = n /\ DOMAIN cut = 1..n
      /\ \A i \in 1..n : cut[i] = keys[i]
  BY <1>1, <1>2
<1> HIDE DEF cut
<1>4. ASSUME NEW r \in DOMAIN keys PROVE Lists(cut, keys[r])
  <2>1. CASE r <= n
    <3>1. r \in 1..n
      BY <1>1, <2>1
    <3> QED
      BY <1>3, <3>1 DEF Lists, ToSet
  <2>2. CASE r > n
    <3>1. n = LineageLimit
      BY <1>1, <2>2
    <3>2. \A i \in 1..n : i \in DOMAIN keys /\ i < r
      BY <1>1, <2>2
    <3>3. \A i \in 1..n : keys[r].gen <= cut[i].gen
      BY <1>3, <3>2 DEF NewestFirst
    <3> QED
      BY <1>3, <3>1, <3>3 DEF Lists, ToSet
  <2>3. r \in Nat /\ n \in Nat
    BY <1>1
  <2> QED
    BY <2>1, <2>2, <2>3
<1> QED
  BY <1>4 DEF ToSet, cut

\* Every key has a first place.
LEMMA NewPlacesAll ==
  ASSUME NEW lines, Lines(lines), NEW p \in Places(lines)
  PROVE  \E q \in NewPlaces(lines) : KeyAt(lines, q) = KeyAt(lines, p)
<1> DEFINE same == {q \in Places(lines) : KeyAt(lines, q) = KeyAt(lines, p)}
           R == {ab \in same \X same : Earlier(ab[1], ab[2])}
<1>1. IsFiniteSet(same) /\ same # {} /\ same \subseteq Places(lines)
  <2>1. IsFiniteSet(Places(lines)) /\ same \in SUBSET Places(lines)
    BY PlacesAre
  <2> QED
    BY <2>1, FS_Subset
<1>2. \A a, b \in same : <<a, b>> \in R <=> Earlier(a, b)
  OBVIOUS
<1>3. Orders(R, same)
  <2>1. /\ \A a \in same : ~Earlier(a, a)
        /\ \A a, b, c \in same : Earlier(a, b) /\ Earlier(b, c) => Earlier(a, c)
        /\ \A a, b \in same : a = b \/ Earlier(a, b) \/ Earlier(b, a)
    BY <1>1, EarlierOrders
  <2> HIDE DEF R, same
  <2> QED
    BY <1>2, <2>1 DEF Orders
<1>4. PICK q \in same : \A a \in same \ {q} : <<q, a>> \in R
  <2> HIDE DEF R, same
  <2> QED
    BY <1>1, <1>3, FirstExists
<1>5. ASSUME NEW a \in Places(lines), Earlier(a, q), KeyAt(lines, a) = KeyAt(lines, q)
      PROVE  FALSE
  <2>1. a \in same /\ q \in same
    BY <1>5
  <2> HIDE DEF R, same
  <2>2. <<a, q>> \in R /\ <<a, a>> \notin R /\ <<q, q>> \notin R
    BY <1>2, <1>3, <1>5, <2>1 DEF Orders
  <2>3. a # q
    BY <2>2
  <2>4. <<q, a>> \in R
    BY <1>4, <2>1, <2>3
  <2> QED
    BY <1>3, <2>1, <2>2, <2>4 DEF Orders
<1> QED
  BY <1>5 DEF NewPlaces

\* First places hold different keys.
LEMMA NewPlacesDistinct ==
  ASSUME NEW lines, Lines(lines)
  PROVE  /\ NewPlaces(lines) \subseteq Places(lines)
         /\ DistinctAt(lines, NewPlaces(lines))
<1>1. NewPlaces(lines) \subseteq Places(lines)
  BY DEF NewPlaces
<1>2. ASSUME NEW p \in NewPlaces(lines), NEW q \in NewPlaces(lines),
             KeyAt(lines, p) = KeyAt(lines, q), Earlier(p, q)
      PROVE  FALSE
  BY <1>2 DEF NewPlaces
<1>3. \A p, q \in NewPlaces(lines) : p = q \/ Earlier(p, q) \/ Earlier(q, p)
  BY <1>1, EarlierOrders
<1> QED
  BY <1>1, <1>2, <1>3 DEF DistinctAt

\* A cut keeps the first keys.
LEMMA TruncatedIs ==
  ASSUME NEW keys \in Seq(Key), IsInjective(keys)
  PROVE  /\ Truncated(keys) \in Lineage
         /\ IsInjective(Truncated(keys))
         /\ ToSet(Truncated(keys)) \subseteq ToSet(keys)
<1> DEFINE n == IF Len(keys) < LineageLimit THEN Len(keys) ELSE LineageLimit
           cut == Truncated(keys)
<1>1. /\ LineageLimit \in Nat /\ Len(keys) \in Nat
      /\ n \in Nat /\ n <= Len(keys) /\ n <= LineageLimit
  BY ConfigSyncAssumption
<1>2. cut = SubSeq(keys, 1, n)
  BY DEF Truncated
<1> HIDE DEF n
<1>3. /\ cut \in Seq(Key) /\ Len(cut) = n
      /\ \A i \in 1..n : cut[i] = keys[i]
  BY <1>1, <1>2
<1> HIDE DEF cut
<1>4. DOMAIN cut = 1..n /\ 1..n \subseteq DOMAIN keys
  BY <1>1, <1>3
<1>5. cut \in Lineage
  BY <1>1, <1>3 DEF Lineage
<1>6. IsInjective(cut)
  BY <1>3, <1>4 DEF IsInjective
<1>7. ToSet(cut) \subseteq ToSet(keys)
  BY <1>3, <1>4 DEF ToSet
<1> QED
  BY <1>5, <1>6, <1>7 DEF cut

---------------------------------------------------------------------------
(* Heads and versions.                                                     *)

\* Heads a check may be given: published lineages are valid, and an install
\* counts with its newest record only.
GoodHeads(heads) ==
    /\ IsFiniteSet(heads)
    /\ heads \subseteq ConfigHead
    /\ \A h \in heads : ValidLineage(h.key, h.lineage)
    /\ \A h, o \in heads : h.install = o.install => h = o

GoodVersion(v) ==
    /\ v \in [key : Key, lineage : Lineage]
    /\ ValidLineage(v.key, v.lineage)

\* A check may be given fewer heads.
LEMMA FewerHeads ==
  ASSUME NEW heads, GoodHeads(heads), NEW some \in SUBSET heads
  PROVE  GoodHeads(some)
<1>1. IsFiniteSet(some)
  BY FS_Subset DEF GoodHeads
<1> QED
  BY <1>1 DEF GoodHeads

\* What a head is made of.
LEMMA HeadParts ==
  ASSUME NEW heads, GoodHeads(heads), NEW h \in heads
  PROVE  /\ h.install \in Installs /\ h.install \in Nat \ {0}
         /\ h.seq \in Nat \ {0}
         /\ h.key \in Key /\ h.key.gen \in Nat \ {0} /\ h.key.text \in Texts
         /\ h.key # NoKey
         /\ h.lineage \in Lineage
         /\ GoodVersion(Version(h))
<1>1. h \in ConfigHead /\ ValidLineage(h.key, h.lineage)
  BY DEF GoodHeads
<1>2. h.install \in Installs /\ h.seq \in Nat \ {0} /\ h.key \in Key /\ h.lineage \in Lineage
  BY <1>1 DEF ConfigHead
<1>3. h.install \in Nat \ {0}
  BY <1>2, ConfigSyncAssumption
<1>4. h.key.gen \in Nat \ {0} /\ h.key.text \in Texts
  BY <1>2 DEF Key
<1>5. h.key # NoKey
  BY <1>4, ConfigSyncAssumption DEF NoKey
<1>6. GoodVersion(Version(h))
  BY <1>1, <1>2 DEF GoodVersion, Version
<1> QED
  BY <1>2, <1>3, <1>4, <1>5, <1>6

HeadOrder(heads) == {hs \in heads \X heads : Precedes(hs[1], hs[2])}

\* Generation, sequence and install order the heads of a check.
LEMMA HeadsOrdered ==
  ASSUME NEW heads, GoodHeads(heads)
  PROVE  /\ Orders(HeadOrder(heads), heads)
         /\ \A h, o \in heads : <<h, o>> \in HeadOrder(heads) <=> Precedes(h, o)
<1>1. \A h \in heads : /\ h.key.gen \in Int /\ h.seq \in Int /\ h.install \in Int
  BY HeadParts
<1>2. \A h, o \in heads : <<h, o>> \in HeadOrder(heads) <=> Precedes(h, o)
  BY DEF HeadOrder
<1>3. \A h \in heads : ~Precedes(h, h)
  BY <1>1 DEF Precedes
<1>4. ASSUME NEW h \in heads, NEW o \in heads, NEW p \in heads, Precedes(h, o), Precedes(o, p)
      PROVE  Precedes(h, p)
  BY <1>1, <1>4 DEF Precedes
<1>5. ASSUME NEW h \in heads, NEW o \in heads, ~Precedes(h, o), ~Precedes(o, h)
      PROVE  h = o
  <2>1. h.install = o.install
    BY <1>1, <1>5 DEF Precedes
  <2> QED
    BY <2>1 DEF GoodHeads
<1>6. Orders(HeadOrder(heads), heads)
  BY <1>2, <1>3, <1>4, <1>5 DEF Orders
<1> QED
  BY <1>2, <1>6

\* The first head of a check.
LEMMA FirstHead ==
  ASSUME NEW heads, GoodHeads(heads), heads # {}
  PROVE  First(heads) \in heads /\ \A o \in heads \ {First(heads)} : Precedes(First(heads), o)
<1> DEFINE Leads(h) == h \in heads /\ \A o \in heads \ {h} : Precedes(h, o)
<1>1. IsFiniteSet(heads)
  BY DEF GoodHeads
<1>2. PICK h \in heads : \A o \in heads \ {h} : <<h, o>> \in HeadOrder(heads)
  BY <1>1, HeadsOrdered, FirstExists
<1>3. Leads(h)
  BY <1>2, HeadsOrdered
<1>4. First(heads) = CHOOSE x : Leads(x)
  BY DEF First
<1>5. Leads(First(heads))
  <2> HIDE DEF Leads
  <2> QED
    BY <1>3, <1>4
<1> QED
  BY <1>5

\* Each content has one representative.
LEMMA ContentRepresented ==
  ASSUME NEW heads, GoodHeads(heads)
  PROVE  /\ Representatives(heads) \subseteq heads
         /\ \A h \in heads : \E r \in Representatives(heads) : r.key.text = h.key.text
         /\ \A r, q \in Representatives(heads) : r.key.text = q.key.text => r = q
         /\ heads # {} => First(heads) \in Representatives(heads)
<1>1. Representatives(heads) \subseteq heads
  BY DEF Representatives
<1>2. ASSUME NEW h \in heads
      PROVE  \E r \in Representatives(heads) : r.key.text = h.key.text
  <2> DEFINE alike == {o \in heads : o.key.text = h.key.text}
             r == First(alike)
  <2>1. GoodHeads(alike) /\ alike # {}
    BY FewerHeads
  <2>2. r \in alike /\ \A o \in alike \ {r} : Precedes(r, o)
    BY <2>1, FirstHead
  <2> HIDE DEF r
  <2>3. r \in heads /\ r.key.text = h.key.text
    BY <2>2
  <2>4. ASSUME NEW o \in heads \ {r}, o.key.text = r.key.text PROVE Precedes(r, o)
    BY <2>2, <2>4
  <2> QED
    BY <2>3, <2>4 DEF Representatives
<1>3. ASSUME NEW r \in Representatives(heads), NEW q \in Representatives(heads),
             r.key.text = q.key.text, r # q
      PROVE  FALSE
  <2>1. r \in heads /\ q \in heads /\ Precedes(r, q) /\ Precedes(q, r)
    BY <1>3 DEF Representatives
  <2>2. <<r, q>> \in HeadOrder(heads) /\ <<q, r>> \in HeadOrder(heads)
    BY <2>1, HeadsOrdered
  <2>3. Orders(HeadOrder(heads), heads)
    BY HeadsOrdered
  <2> QED
    BY <2>1, <2>2, <2>3 DEF Orders
<1>4. heads # {} => First(heads) \in Representatives(heads)
  BY FirstHead DEF Representatives
<1> QED
  BY <1>1, <1>2, <1>3, <1>4

---------------------------------------------------------------------------
(* AdoptConfigHeads.                                                       *)

\* Versions of one text.
GoodVersions(versions, t) ==
    /\ versions \in Seq([key : Key, lineage : Lineage])
    /\ Len(versions) >= 1
    /\ \A i \in DOMAIN versions : GoodVersion(versions[i]) /\ versions[i].key.text = t

\* A state of install d in which a check may find itself.
GoodState(s, d) ==
    /\ s \in State
    /\ s.install = d
    /\ StateValid(s)
    /\ IsFiniteSet(s.equiv)
    /\ \A k \in s.equiv : k.text = s.base.text

\* A version comes from the base, if it has the text, or from a head.
IsAdopted(v, s, t, heads) ==
    \/ s.base.text = t /\ v = BaseVersion(s)
    \/ \E h \in heads : v = Version(h)

\* What is adopted are valid versions of one text.
LEMMA AdoptedVersionsGood ==
  ASSUME NEW d, NEW s, GoodState(s, d), NEW t \in Texts,
         NEW heads, GoodHeads(heads), heads # {}, \A h \in heads : h.key.text = t
  PROVE  /\ GoodVersions(AdoptedVersions(s, t, heads), t)
         /\ \A i \in DOMAIN AdoptedVersions(s, t, heads) :
              IsAdopted(AdoptedVersions(s, t, heads)[i], s, t, heads)
         /\ \A v : IsAdopted(v, s, t, heads) =>
              \E i \in DOMAIN AdoptedVersions(s, t, heads) : AdoptedVersions(s, t, heads)[i] = v
<1> DEFINE Versions == [key : Key, lineage : Lineage]
           sorted == Ranked(heads, HeadOrder(heads))
           n == Cardinality(heads)
           ofBase == IF s.base.text = t THEN <<BaseVersion(s)>> ELSE <<>>
           ofHeads == [i \in DOMAIN sorted |-> Version(sorted[i])]
<1>1. n \in Nat /\ n >= 1
  <2>1. IsFiniteSet(heads)
    BY DEF GoodHeads
  <2> QED
    BY <2>1, FS_CardinalityType, FS_EmptySet
<1>2. sorted \in [1..n -> heads]
  <2>1. IsFiniteSet(heads)
    BY DEF GoodHeads
  <2>2. RankedWell(heads, HeadOrder(heads))
    BY <2>1, HeadsOrdered, RankedIsWell
  <2> QED
    BY <2>2 DEF RankedWell
<1>3. \A h \in heads : \E i \in 1..n : sorted[i] = h
  <2>1. IsFiniteSet(heads) /\ Orders(HeadOrder(heads), heads)
    BY HeadsOrdered DEF GoodHeads
  <2> QED
    BY <2>1, RankedInOrder
<1>4. AdoptedVersions(s, t, heads) = ofBase \o ofHeads
  BY DEF AdoptedVersions, HeadOrder
<1> HIDE DEF sorted
<1>5. /\ DOMAIN ofHeads = 1..n
      /\ \A i \in 1..n : /\ ofHeads[i] \in Versions /\ GoodVersion(ofHeads[i])
                         /\ ofHeads[i].key.text = t /\ IsAdopted(ofHeads[i], s, t, heads)
  <2>1. DOMAIN ofHeads = 1..n
    BY <1>2
  <2>2. ASSUME NEW i \in 1..n
        PROVE  /\ ofHeads[i] \in Versions /\ GoodVersion(ofHeads[i])
               /\ ofHeads[i].key.text = t /\ IsAdopted(ofHeads[i], s, t, heads)
    <3>1. sorted[i] \in heads /\ ofHeads[i] = Version(sorted[i])
      BY <1>2
    <3>2. GoodVersion(Version(sorted[i])) /\ Version(sorted[i]).key.text = t
      BY <3>1, HeadParts DEF Version
    <3>3. IsAdopted(ofHeads[i], s, t, heads)
      BY <3>1 DEF IsAdopted
    <3> QED
      BY <3>1, <3>2, <3>3 DEF GoodVersion
  <2> QED
    BY <2>1, <2>2
<1>6. /\ ofBase \in Seq(Versions)
      /\ \A i \in DOMAIN ofBase : /\ GoodVersion(ofBase[i]) /\ ofBase[i].key.text = t
                                  /\ IsAdopted(ofBase[i], s, t, heads)
  <2>1. CASE s.base.text # t
    BY <2>1
  <2>2. CASE s.base.text = t
    <3>1. s.base # NoKey
      BY <2>2, ConfigSyncAssumption DEF NoKey
    <3>2. s.base \in Key /\ s.lineage \in Lineage /\ ValidLineage(s.base, s.lineage)
      BY <3>1 DEF GoodState, State, StateValid
    <3>3. GoodVersion(BaseVersion(s)) /\ BaseVersion(s).key.text = t
      BY <2>2, <3>2 DEF GoodVersion, BaseVersion
    <3>4. BaseVersion(s) \in Versions
      BY <3>3 DEF GoodVersion
    <3>5. ofBase = <<BaseVersion(s)>>
      BY <2>2
    <3>6. IsAdopted(BaseVersion(s), s, t, heads)
      BY <2>2 DEF IsAdopted
    <3> HIDE DEF ofBase
    <3> QED
      BY <3>3, <3>4, <3>5, <3>6
  <2> QED
    BY <2>1, <2>2
<1>7. /\ \A h \in heads : \E i \in 1..n : ofHeads[i] = Version(h)
      /\ s.base.text = t => 1 \in DOMAIN ofBase /\ ofBase[1] = BaseVersion(s)
  <2>1. \A i \in 1..n : ofHeads[i] = Version(sorted[i])
    BY <1>2
  <2>2. \A h \in heads : \E i \in 1..n : ofHeads[i] = Version(h)
    <3> HIDE DEF ofHeads
    <3> QED
      BY <1>3, <2>1
  <2>3. s.base.text = t => 1 \in DOMAIN ofBase /\ ofBase[1] = BaseVersion(s)
    OBVIOUS
  <2> QED
    BY <2>2, <2>3
<1> HIDE DEF ofBase, ofHeads
<1>8. ofHeads \in Seq(Versions) /\ Len(ofHeads) = n
  <2>1. ofHeads \in [1..n -> Versions]
    <3>1. ofHeads = [i \in 1..n |-> ofHeads[i]]
      BY <1>5 DEF ofHeads
    <3> QED
      BY <1>5, <3>1
  <2> HIDE DEF Versions, n
  <2> QED
    BY <1>1, <2>1, FunctionIsSeq
<1> DEFINE both == ofBase \o ofHeads
<1>9. /\ both \in Seq(Versions) /\ Len(both) = Len(ofBase) + n /\ Len(ofBase) \in Nat
      /\ \A i \in DOMAIN both : \/ i \in DOMAIN ofBase /\ both[i] = ofBase[i]
                                \/ i - Len(ofBase) \in 1..n /\ both[i] = ofHeads[i - Len(ofBase)]
      /\ \A i \in DOMAIN ofBase : i \in DOMAIN both /\ both[i] = ofBase[i]
      /\ \A i \in 1..n : i + Len(ofBase) \in DOMAIN both /\ both[i + Len(ofBase)] = ofHeads[i]
  <2>1. DOMAIN ofHeads = 1..n
    BY <1>5
  <2> HIDE DEF Versions, n
  <2>2. /\ both \in Seq(Versions) /\ Len(both) = Len(ofBase) + Len(ofHeads)
        /\ Len(ofBase) \in Nat
        /\ \A i \in DOMAIN both :
             \/ i \in DOMAIN ofBase /\ both[i] = ofBase[i]
             \/ i - Len(ofBase) \in DOMAIN ofHeads /\ both[i] = ofHeads[i - Len(ofBase)]
    BY <1>6, <1>8, Concatenation
  <2>3. /\ \A i \in DOMAIN ofBase : i \in DOMAIN both /\ both[i] = ofBase[i]
        /\ \A i \in DOMAIN ofHeads : /\ i + Len(ofBase) \in DOMAIN both
                                     /\ both[i + Len(ofBase)] = ofHeads[i]
    BY <1>6, <1>8, ConcatenationParts
  <2> HIDE DEF both
  <2> QED
    BY <1>8, <2>1, <2>2, <2>3
<1> HIDE DEF both
<1>10. \A i \in DOMAIN both : /\ GoodVersion(both[i]) /\ both[i].key.text = t
                             /\ IsAdopted(both[i], s, t, heads)
  <2> TAKE i \in DOMAIN both
  <2>2. CASE i \in DOMAIN ofBase /\ both[i] = ofBase[i]
    BY <1>6, <2>2
  <2>3. CASE i - Len(ofBase) \in 1..n /\ both[i] = ofHeads[i - Len(ofBase)]
    BY <1>5, <2>3
  <2> QED
    BY <1>9, <2>2, <2>3
<1>11. ASSUME NEW v, IsAdopted(v, s, t, heads) PROVE \E i \in DOMAIN both : both[i] = v
  <2>1. CASE s.base.text = t /\ v = BaseVersion(s)
    BY <1>7, <1>9, <2>1
  <2>2. CASE \E h \in heads : v = Version(h)
    BY <1>7, <1>9, <2>2
  <2> QED
    BY <1>11, <2>1, <2>2 DEF IsAdopted
<1>12. Len(both) >= 1
  BY <1>1, <1>9
<1> QED
  BY <1>4, <1>9, <1>10, <1>11, <1>12 DEF GoodVersions, both

\* The newest version is one of them, and no other is of a later generation.
LEMMA NewestIs ==
  ASSUME NEW versions, NEW t, GoodVersions(versions, t)
  PROVE  /\ \E i \in DOMAIN versions : Newest(versions) = versions[i]
         /\ \A j \in DOMAIN versions : versions[j].key.gen <= Newest(versions).key.gen
<1> DEFINE n == Len(versions)
           gens == [i \in 1..n |-> versions[i].key.gen]
           G == {gens[i] : i \in DOMAIN gens}
           top == {i \in DOMAIN versions : \A j \in DOMAIN versions :
                     versions[j].key.gen <= versions[i].key.gen}
           least(i) == i \in top /\ \A j \in top : i <= j
<1>1. n \in Nat /\ n >= 1 /\ DOMAIN versions = 1..n
  BY DEF GoodVersions
<1>2. \A i \in 1..n : versions[i].key.gen \in Int
  BY <1>1 DEF GoodVersions, GoodVersion, Key
<1>3. PICK i \in 1..n : \A j \in 1..n : gens[j] <= gens[i]
  <2>1. IsFiniteSet(1..n)
    <3>1. 1 \in Int /\ n \in Int
      BY <1>1
    <3> QED
      BY <3>1, FS_Interval
  <2>2. DOMAIN gens = 1..n /\ G \subseteq Int /\ 1 \in 1..n
    BY <1>1, <1>2
  <2>3. G # {}
    BY <2>2
  <2>4. IsFiniteSet(G)
    <3> HIDE DEF gens
    <3> QED
      BY <2>1, <2>2, ImageFinite
  <2> HIDE DEF gens
  <2>5. Max(G) \in G /\ \A y \in G : y <= Max(G)
    <3> HIDE DEF G
    <3> QED
      BY <2>2, <2>3, <2>4, GreatestNumber
  <2> QED
    BY <2>2, <2>5
<1>4. i \in top
  BY <1>1, <1>3
<1>5. \E k : least(k)
  <2> DEFINE R == {p \in top \X top : p[1] < p[2]}
  <2>1. top \subseteq Int /\ top \in SUBSET (1..n)
    BY <1>1
  <2>2. IsFiniteSet(top)
    <3>1. IsFiniteSet(1..n)
      <4>1. 1 \in Int /\ n \in Int
        BY <1>1
      <4> QED
        BY <4>1, FS_Interval
    <3> QED
      BY <2>1, <3>1, FS_Subset
  <2> HIDE DEF top
  <2>3. \A x, y \in top : <<x, y>> \in R <=> x < y
    OBVIOUS
  <2> HIDE DEF R
  <2>4. Orders(R, top)
    BY <2>1, <2>3 DEF Orders
  <2>5. PICK k \in top : \A y \in top \ {k} : <<k, y>> \in R
    BY <1>4, <2>2, <2>4, FirstExists
  <2>6. ASSUME NEW y \in top PROVE k <= y
    <3>1. CASE y = k
      BY <2>1, <3>1
    <3>2. CASE y # k
      <4>1. k < y
        BY <2>3, <2>5, <3>2
      <4> QED
        BY <2>1, <4>1
    <3> QED
      BY <3>1, <3>2
  <2> QED
    BY <2>6
<1> DEFINE m == CHOOSE k : least(k)
<1>6. Newest(versions) = versions[m]
  BY DEF Newest
<1>7. least(m)
  <2> HIDE DEF least
  <2> QED
    BY <1>5
<1>8. m \in top
  BY <1>7
<1> HIDE DEF m, least
<1> QED
  BY <1>6, <1>8

\* Sorted and cut, different older keys are a valid lineage.
LEMMA SortedLineage ==
  ASSUME NEW lines, Lines(lines), NEW places \in SUBSET Places(lines), NEW lead,
         DistinctAt(lines, places),
         NEW key, \A p \in places : KeyAt(lines, p).gen < key.gen
  PROVE  LET keys == ByGeneration(lines, places, lead)
         IN  /\ Truncated(keys) \in Lineage
             /\ ValidLineage(key, Truncated(keys))
             /\ \A k \in ToSet(Truncated(keys)) : \E p \in places : k = KeyAt(lines, p)
             /\ Cardinality(places) <= LineageLimit =>
                  keys \in Lineage /\ ValidLineage(key, keys)
<1> DEFINE keys == ByGeneration(lines, places, lead)
<1>1. KeysAtPlaces(keys, lines, places)
  BY SortedKeys
<1> HIDE DEF keys
<1>2. /\ keys \in Seq(Key) /\ Len(keys) = Cardinality(places) /\ IsInjective(keys)
      /\ \A k \in ToSet(keys) : k.gen < key.gen /\ \E p \in places : k = KeyAt(lines, p)
  BY <1>1 DEF KeysAtPlaces, ToSet
<1>3. /\ Truncated(keys) \in Lineage /\ IsInjective(Truncated(keys))
      /\ \A k \in ToSet(Truncated(keys)) : /\ k.gen < key.gen
                                            /\ \E p \in places : k = KeyAt(lines, p)
  BY <1>2, TruncatedIs
<1>4. Truncated(keys) \in Lineage /\ ValidLineage(key, Truncated(keys))
  BY <1>3 DEF ValidLineage, Lineage
<1>5. Cardinality(places) <= LineageLimit => keys \in Lineage /\ ValidLineage(key, keys)
  BY <1>2 DEF ValidLineage, Lineage
<1> QED
  BY <1>3, <1>4, <1>5 DEF keys

\* The keys that versions name.
KeysNamed(versions) ==
    UNION {ToSet(versions[i].lineage) \cup {versions[i].key} : i \in DOMAIN versions}

\* The lines of keys that versions of one text, top the newest, are merged from.
MergeLines(top, versions) ==
    [n \in 0..Len(versions) |->
       IF n = 0 THEN top.lineage
       ELSE versions[n].lineage \o
            (IF versions[n].key = top.key THEN <<>> ELSE <<versions[n].key>>)]

\* They hold keys the versions name, all of them older than the newest version.
MergesWell(top, versions) ==
    LET lines == MergeLines(top, versions)
    IN  /\ Lines(lines)
        /\ \A p \in Places(lines) : /\ KeyAt(lines, p).gen < top.key.gen
                                    /\ KeyAt(lines, p) \in KeysNamed(versions)
        /\ \A k \in KeysNamed(versions) \ {top.key} :
             \E p \in Places(lines) : KeyAt(lines, p) = k
        /\ MergedLineage(top, versions) = Truncated(ByGeneration(lines, NewPlaces(lines), {}))

\* Merging looks at every key, and the lineage of the newest version comes first.
LEMMA MergeLinesWell ==
  ASSUME NEW versions, NEW t, GoodVersions(versions, t), NEW top,
         NEW m \in DOMAIN versions, top = versions[m],
         \A j \in DOMAIN versions : versions[j].key.gen <= top.key.gen
  PROVE  MergesWell(top, versions)
<1> DEFINE ofKey(v) == IF v.key = top.key THEN <<>> ELSE <<v.key>>
           lines == MergeLines(top, versions)
           places == {p \in Places(lines) : p[1] = 0} \cup NewPlaces(lines)
<1>1. /\ Len(versions) \in Nat /\ DOMAIN versions = 1..Len(versions)
      /\ \A i \in DOMAIN versions : GoodVersion(versions[i]) /\ versions[i].key.text = t
  BY DEF GoodVersions
<1>2. GoodVersion(top) /\ top.key.text = t
  BY <1>1
<1>3. \A v : GoodVersion(v) =>
        /\ v.key \in Key /\ v.key.gen \in Nat /\ v.lineage \in Seq(Key)
        /\ IsInjective(v.lineage)
        /\ \A i \in DOMAIN v.lineage : v.lineage[i].gen < v.key.gen /\ v.lineage[i].gen \in Nat
  <2> SUFFICES ASSUME NEW v, GoodVersion(v)
               PROVE  /\ v.key \in Key /\ v.key.gen \in Nat /\ v.lineage \in Seq(Key)
                      /\ IsInjective(v.lineage)
                      /\ \A i \in DOMAIN v.lineage : /\ v.lineage[i].gen < v.key.gen
                                                     /\ v.lineage[i].gen \in Nat
    OBVIOUS
  <2>1. v.key \in Key /\ v.lineage \in Seq(Key)
    BY DEF GoodVersion, Lineage
  <2>2. \A i \in DOMAIN v.lineage : v.lineage[i] \in Key
    BY <2>1
  <2>3. IsInjective(v.lineage)
    BY DEF GoodVersion, ValidLineage
  <2>4. \A i \in DOMAIN v.lineage : v.lineage[i].gen < v.key.gen
    BY DEF GoodVersion, ValidLineage, ToSet
  <2> QED
    BY <2>1, <2>2, <2>3, <2>4 DEF Key
<1>4. \A i \in DOMAIN versions :
        /\ ofKey(versions[i]) \in Seq(Key)
        /\ \A r \in DOMAIN ofKey(versions[i]) : /\ ofKey(versions[i])[r].gen < top.key.gen
                                                 /\ ofKey(versions[i])[r] = versions[i].key
  <2> SUFFICES ASSUME NEW i \in DOMAIN versions, NEW v, v = versions[i]
               PROVE  /\ ofKey(v) \in Seq(Key)
                      /\ \A r \in DOMAIN ofKey(v) : /\ ofKey(v)[r].gen < top.key.gen
                                                     /\ ofKey(v)[r] = v.key
    <3> HIDE DEF ofKey
    <3> QED
      OBVIOUS
  <2>1. v.key \in Key /\ v.key.gen <= top.key.gen /\ v.key.text = top.key.text /\ top.key \in Key
    BY <1>1, <1>2, <1>3
  <2>2. CASE v.key = top.key
    <3>1. ofKey(v) = <<>>
      BY <2>2
    <3> HIDE DEF ofKey
    <3> QED
      BY <3>1
  <2>3. CASE v.key # top.key
    <3>1. v.key.gen # top.key.gen
      BY <2>1, <2>3 DEF Key
    <3>2. v.key.gen < top.key.gen
      BY <2>1, <3>1 DEF Key
    <3>3. ofKey(v) = <<v.key>>
      BY <2>3
    <3> HIDE DEF ofKey
    <3> QED
      BY <2>1, <3>2, <3>3
  <2> QED
    BY <2>2, <2>3
<1>5. lines = [n \in 0..Len(versions) |->
                 IF n = 0 THEN top.lineage ELSE versions[n].lineage \o ofKey(versions[n])]
  BY DEF MergeLines
<1> HIDE DEF ofKey, lines
<1>6. \A n \in 0..Len(versions) :
        /\ lines[n] \in Seq(Key)
        /\ \A i \in DOMAIN lines[n] : /\ lines[n][i].gen < top.key.gen
                                       /\ lines[n][i] \in KeysNamed(versions)
  <2> TAKE n \in 0..Len(versions)
  <2>1. CASE n = 0
    <3>1. lines[n] = top.lineage
      BY <1>1, <1>5, <2>1
    <3>2. ToSet(top.lineage) \subseteq KeysNamed(versions)
      BY DEF KeysNamed
    <3> QED
      BY <1>2, <1>3, <3>1, <3>2 DEF ToSet
  <2>2. CASE n # 0
    <3> DEFINE a == versions[n].lineage
               b == ofKey(versions[n])
    <3>1. n \in DOMAIN versions /\ lines[n] = a \o b
      <4>1. n \in 1..Len(versions)
        BY <1>1, <2>2
      <4>2. lines[n] = a \o b
        BY <1>5, <2>2
      <4> QED
        BY <1>1, <4>1, <4>2
    <3>2. /\ a \in Seq(Key) /\ b \in Seq(Key)
          /\ \A i \in DOMAIN a : a[i].gen < top.key.gen /\ a[i] \in KeysNamed(versions)
          /\ \A i \in DOMAIN b : b[i].gen < top.key.gen /\ b[i] \in KeysNamed(versions)
      <4>1. GoodVersion(versions[n]) /\ versions[n].key.gen <= top.key.gen
        BY <1>1, <3>1
      <4>2. versions[n].key.gen \in Nat /\ top.key.gen \in Nat
        BY <1>2, <1>3, <4>1
      <4>3. \A i \in DOMAIN a : a[i].gen < top.key.gen
        BY <1>3, <4>1, <4>2
      <4>4. /\ \A i \in DOMAIN a : a[i] \in KeysNamed(versions)
            /\ versions[n].key \in KeysNamed(versions)
        BY <3>1 DEF KeysNamed, ToSet
      <4> QED
        BY <1>3, <1>4, <3>1, <4>1, <4>3, <4>4
    <3> HIDE DEF a, b
    <3>3. /\ (a \o b) \in Seq(Key)
          /\ \A i \in DOMAIN (a \o b) : \/ i \in DOMAIN a /\ (a \o b)[i] = a[i]
                                        \/ i - Len(a) \in DOMAIN b /\ (a \o b)[i] = b[i - Len(a)]
      BY <3>2, Concatenation
    <3>4. ASSUME NEW i \in DOMAIN (a \o b)
          PROVE  (a \o b)[i].gen < top.key.gen /\ (a \o b)[i] \in KeysNamed(versions)
      BY <3>2, <3>3
    <3> QED
      BY <3>1, <3>3, <3>4
  <2> QED
    BY <2>1, <2>2
<1>7. DOMAIN lines = 0..Len(versions) /\ lines[0] = top.lineage
  BY <1>1, <1>5
<1>8. Lines(lines)
  <2>1. IsFiniteSet(0..Len(versions))
    <3>1. 0 \in Int /\ Len(versions) \in Int
      BY <1>1
    <3> QED
      BY <3>1, FS_Interval
  <2>2. 0..Len(versions) \subseteq Int
    OBVIOUS
  <2> QED
    BY <1>6, <1>7, <2>1, <2>2 DEF Lines
<1>9. \A p \in Places(lines) : /\ KeyAt(lines, p).gen < top.key.gen
                               /\ KeyAt(lines, p) \in KeysNamed(versions)
  BY <1>6, <1>7, <1>8, PlacesAre DEF KeyAt
<1>10. \A p \in Places(lines) : p[1] = 0 => p \in NewPlaces(lines)
  <2> SUFFICES ASSUME NEW p \in Places(lines), p[1] = 0,
                      NEW q \in Places(lines), Earlier(q, p), KeyAt(lines, q) = KeyAt(lines, p)
               PROVE  FALSE
    BY DEF NewPlaces
  <2>1. /\ q[1] \in 0..Len(versions)
        /\ p[2] \in DOMAIN lines[p[1]] /\ p[2] \in Int
        /\ q[2] \in DOMAIN lines[q[1]] /\ q[2] \in Int
    BY <1>7, <1>8, PlacesAre
  <2>2. q[1] = 0 /\ q[2] < p[2]
    BY <1>1, <2>1 DEF Earlier
  <2>3. top.lineage[q[2]] = top.lineage[p[2]]
    BY <1>7, <2>2 DEF KeyAt
  <2>4. IsInjective(top.lineage)
    BY <1>2, <1>3
  <2>5. q[2] = p[2]
    BY <1>7, <2>1, <2>2, <2>3, <2>4 DEF IsInjective
  <2> QED
    BY <2>1, <2>2, <2>5
<1>11. MergedLineage(top, versions) = Truncated(ByGeneration(lines, NewPlaces(lines), {}))
  <2>1. NewPlaces(lines) \subseteq Places(lines)
    BY DEF NewPlaces
  <2>2. places = NewPlaces(lines)
    BY <1>10, <2>1
  <2>3. MergedLineage(top, versions) = Truncated(ByGeneration(lines, places, {}))
    BY DEF MergedLineage, MergeLines, lines
  <2> HIDE DEF places
  <2> QED
    BY <2>2, <2>3
<1>12. ASSUME NEW k \in KeysNamed(versions) \ {top.key}
       PROVE  \E p \in Places(lines) : KeyAt(lines, p) = k
  <2>1. PICK n \in DOMAIN versions : k \in ToSet(versions[n].lineage) \cup {versions[n].key}
    BY DEF KeysNamed
  <2> DEFINE a == versions[n].lineage
             b == ofKey(versions[n])
  <2>2. /\ a \in Seq(Key) /\ b \in Seq(Key)
        /\ n \in DOMAIN lines /\ lines[n] = a \o b
    <3>1. a \in Seq(Key) /\ b \in Seq(Key)
      BY <1>1, <1>3, <1>4
    <3>2. n \in 1..Len(versions) /\ n \in 0..Len(versions) /\ n # 0
      BY <1>1
    <3> QED
      BY <1>5, <1>7, <3>1, <3>2
  <2>3. \E i \in DOMAIN lines[n] : lines[n][i] = k
    <3>1. CASE k \in ToSet(a)
      <4>1. PICK i \in DOMAIN a : a[i] = k
        BY <3>1 DEF ToSet
      <4> HIDE DEF a, b
      <4>2. i \in DOMAIN (a \o b) /\ (a \o b)[i] = a[i]
        BY <2>2, <4>1, ConcatenationParts
      <4> QED
        BY <2>2, <4>1, <4>2
    <3>2. CASE k = versions[n].key
      <4>1. b = <<k>>
        BY <3>2 DEF ofKey
      <4> HIDE DEF a, b
      <4>2. Len(a) + 1 \in DOMAIN (a \o b) /\ (a \o b)[Len(a) + 1] = k
        BY <2>2, <4>1
      <4> QED
        BY <2>2, <4>2
    <3> QED
      BY <2>1, <3>1, <3>2
  <2>4. PICK i \in DOMAIN lines[n] : lines[n][i] = k
    BY <2>3
  <2>5. <<n, i>> \in Places(lines)
    BY <1>8, <2>2, PlacesAre
  <2>6. KeyAt(lines, <<n, i>>) = k
    BY <2>4 DEF KeyAt
  <2> QED
    BY <2>5, <2>6
<1> QED
  BY <1>8, <1>9, <1>11, <1>12 DEF MergesWell, lines

\* The merged lineages of versions of one text are a valid lineage of the newest,
\* and keep all that the versions know but what there is no room for.
LEMMA MergedLineageValid ==
  ASSUME NEW versions, NEW t, GoodVersions(versions, t), NEW top,
         NEW m \in DOMAIN versions, top = versions[m],
         \A j \in DOMAIN versions : versions[j].key.gen <= top.key.gen
  PROVE  /\ MergedLineage(top, versions) \in Lineage
         /\ ValidLineage(top.key, MergedLineage(top, versions))
         /\ ToSet(MergedLineage(top, versions)) \subseteq KeysNamed(versions)
         /\ \A k \in KeysNamed(versions) \ {top.key} : Lists(MergedLineage(top, versions), k)
<1> DEFINE lines == MergeLines(top, versions)
           places == NewPlaces(lines)
           keys == ByGeneration(lines, places, {})
<1>1. MergesWell(top, versions)
  BY MergeLinesWell
<1>2. /\ Lines(lines)
      /\ \A p \in Places(lines) : /\ KeyAt(lines, p).gen < top.key.gen
                                  /\ KeyAt(lines, p) \in KeysNamed(versions)
      /\ \A k \in KeysNamed(versions) \ {top.key} :
           \E p \in Places(lines) : KeyAt(lines, p) = k
      /\ MergedLineage(top, versions) = Truncated(keys)
  BY <1>1 DEF MergesWell
<1> HIDE DEF lines
<1>3. places \in SUBSET Places(lines) /\ DistinctAt(lines, places)
  BY <1>2, NewPlacesDistinct
<1>4. \A p \in places : /\ KeyAt(lines, p).gen < top.key.gen
                        /\ KeyAt(lines, p) \in KeysNamed(versions)
  BY <1>2, <1>3
<1>5. /\ Truncated(keys) \in Lineage
      /\ ValidLineage(top.key, Truncated(keys))
      /\ \A k \in ToSet(Truncated(keys)) : \E p \in places : k = KeyAt(lines, p)
  <2> HIDE DEF places
  <2> QED
    BY <1>2, <1>3, <1>4, SortedLineage
<1>6. ASSUME NEW k \in KeysNamed(versions) \ {top.key} PROVE Lists(Truncated(keys), k)
  <2>1. PICK p \in places : KeyAt(lines, p) = k
    BY <1>2, NewPlacesAll
  <2> HIDE DEF places
  <2>2. KeysAtPlaces(keys, lines, places) /\ NewestFirst(keys)
    BY <1>2, <1>3, SortedKeys, SortedNewestFirst
  <2> HIDE DEF keys
  <2>3. keys \in Seq(Key) /\ k \in ToSet(keys)
    BY <2>1, <2>2 DEF KeysAtPlaces, ToSet
  <2> QED
    BY <2>2, <2>3, OldestDropped
<1> HIDE DEF places, keys
<1> QED
  BY <1>2, <1>4, <1>5, <1>6

\* Of the keys of one text, at most EquivLimit are the newest.
LEMMA NewestKeysFew ==
  ASSUME NEW keys, IsFiniteSet(keys), keys \subseteq Key, NEW t, \A k \in keys : k.text = t
  PROVE  Cardinality(NewestKeys(keys)) <= EquivLimit
<1> DEFINE M == NewestKeys(keys)
           R == {p \in M \X M : p[1].gen < p[2].gen}
<1>1. M \in SUBSET keys /\ EquivLimit \in Nat \ {0}
  BY ConfigSyncAssumption DEF NewestKeys
<1>2. IsFiniteSet(M) /\ Cardinality(M) \in Nat
  <2> HIDE DEF M
  <2> QED
    BY <1>1, FS_Subset, FS_CardinalityType
<1>3. \A x, y \in M : /\ x.gen \in Int
                      /\ x.gen = y.gen => x = y
  BY <1>1 DEF Key
<1>4. \A x, y \in M : <<x, y>> \in R <=> x.gen < y.gen
  OBVIOUS
<1>5. Orders(R, M)
  <2> HIDE DEF M, R
  <2> QED
    BY <1>3, <1>4 DEF Orders
<1>6. CASE M = {}
  <2>1. Cardinality(M) = 0
    BY <1>6, FS_EmptySet
  <2> QED
    BY <1>1, <2>1
<1>7. CASE M # {}
  <2>1. PICK m \in M : \A y \in M \ {m} : <<m, y>> \in R
    <3> HIDE DEF M, R
    <3> QED
      BY <1>2, <1>5, <1>7, FirstExists
  <2> DEFINE above == {x \in keys : x.gen > m.gen}
  <2>2. Cardinality(above) < EquivLimit
    BY <2>1 DEF NewestKeys
  <2>3. M \ {m} \in SUBSET above
    <3> SUFFICES ASSUME NEW y \in M \ {m} PROVE y \in above
      OBVIOUS
    <3>1. m.gen < y.gen
      BY <1>4, <2>1
    <3>2. m.gen \in Int /\ y.gen \in Int /\ y \in keys
      BY <1>1, <1>3
    <3> QED
      BY <3>1, <3>2
  <2>4. IsFiniteSet(above) /\ Cardinality(above) \in Nat
    <3>1. above \in SUBSET keys
      OBVIOUS
    <3> HIDE DEF above
    <3> QED
      BY <3>1, FS_Subset, FS_CardinalityType
  <2> HIDE DEF M, above
  <2>5. Cardinality(M \ {m}) <= Cardinality(above)
    BY <2>3, <2>4, FS_Subset
  <2>6. Cardinality(M \ {m}) = Cardinality(M) - 1
    BY <1>2, FS_RemoveElement
  <2> QED
    BY <1>1, <1>2, <2>2, <2>4, <2>5, <2>6 DEF M
<1> QED
  BY <1>6, <1>7

\* Heads marked as seen change nothing else.
LEMMA SeenRaised ==
  ASSUME NEW s \in State, NEW heads, GoodHeads(heads)
  PROVE  /\ RaiseSeen(s, heads) \in State
         /\ RaiseSeen(s, heads) = [s EXCEPT !.seen = RaiseSeen(s, heads).seen]
         /\ \A i \in Installs :
              LET n == RaiseSeen(s, heads).seen[i]
              IN  /\ s.seen[i] <= n
                  /\ n = s.seen[i] \/ \E h \in heads : h.install = i /\ n = h.seq
         /\ \A h \in heads : h.seq <= RaiseSeen(s, heads).seen[h.install]
<1> DEFINE at(i) == {x \in heads : x.install = i}
           f(i) == [h \in at(i) |-> h.seq]
           seqs(i) == {s.seen[i]} \cup {h.seq : h \in at(i)}
           seen == [i \in Installs |-> Max(seqs(i))]
<1>1. ASSUME NEW i \in Installs
      PROVE  /\ Max(seqs(i)) \in Nat /\ Max(seqs(i)) \in seqs(i)
             /\ \A n \in seqs(i) : n <= Max(seqs(i))
  <2>1. IsFiniteSet(at(i))
    BY FewerHeads DEF GoodHeads
  <2>2. \A h \in at(i) : h.seq \in Nat
    BY HeadParts
  <2>3. s.seen[i] \in Nat
    BY DEF State
  <2>4. {h.seq : h \in at(i)} = {f(i)[h] : h \in DOMAIN f(i)} /\ DOMAIN f(i) = at(i)
    OBVIOUS
  <2>5. IsFiniteSet({h.seq : h \in at(i)})
    <3> HIDE DEF f, at
    <3> QED
      BY <2>1, <2>4, ImageFinite
  <2>6. IsFiniteSet({s.seen[i]})
    BY FS_Singleton
  <2>7. IsFiniteSet(seqs(i))
    <3> HIDE DEF at
    <3> QED
      BY <2>5, <2>6, FS_Union
  <2>8. seqs(i) \subseteq Nat /\ seqs(i) # {}
    <3> HIDE DEF at
    <3> QED
      BY <2>2, <2>3
  <2> HIDE DEF seqs
  <2>9. Max(seqs(i)) \in seqs(i) /\ \A n \in seqs(i) : n <= Max(seqs(i))
    BY <2>7, <2>8, GreatestNumber
  <2> QED
    BY <2>8, <2>9
<1>2. RaiseSeen(s, heads) = [s EXCEPT !.seen = seen]
  BY DEF RaiseSeen
<1> HIDE DEF seqs
<1>3. seen \in [Installs -> Nat]
  BY <1>1
<1>4. \A i \in Installs :
        /\ s.seen[i] <= seen[i]
        /\ seen[i] = s.seen[i] \/ \E h \in heads : h.install = i /\ seen[i] = h.seq
  <2> TAKE i \in Installs
  <2>1. seen[i] = Max(seqs(i))
    OBVIOUS
  <2>2. s.seen[i] \in seqs(i)
    BY DEF seqs
  <2>3. \A n \in seqs(i) : n = s.seen[i] \/ \E h \in heads : h.install = i /\ n = h.seq
    BY DEF seqs
  <2> QED
    BY <1>1, <2>1, <2>2, <2>3
<1>5. \A h \in heads : h.seq <= seen[h.install]
  <2> TAKE h \in heads
  <2>1. h.install \in Installs
    BY HeadParts
  <2>2. h.seq \in seqs(h.install)
    BY DEF seqs
  <2> QED
    BY <1>1, <2>1, <2>2
<1> HIDE DEF seen
<1>6. RaiseSeen(s, heads).seen = seen
  BY <1>2 DEF State
<1> QED
  BY <1>2, <1>3, <1>4, <1>5, <1>6 DEF State

\* After an adoption the state is one a check accepts: its base is the newest
\* version, with a valid lineage of what all versions knew.
LEMMA AdoptionGood ==
  ASSUME NEW d, NEW s, GoodState(s, d), NEW t \in Texts,
         NEW heads, GoodHeads(heads), heads # {}, \A h \in heads : h.key.text = t
  PROVE  /\ GoodState(AdoptConfigHeads(s, t, heads), d)
         /\ AdoptConfigHeads(s, t, heads).base # NoKey
         /\ AdoptConfigHeads(s, t, heads).pending = s.pending
<1> DEFINE versions == AdoptedVersions(s, t, heads)
           top == Newest(versions)
           same == IF s.base.text = t THEN s.equiv ELSE {}
           keys == same \cup {v.key : v \in ToSet(versions)}
           raised == RaiseSeen(s, heads)
           lineage == MergedLineage(top, versions)
           equiv == NewestKeys(keys \ {top.key})
           new == AdoptConfigHeads(s, t, heads)
<1>1. GoodVersions(versions, t)
  BY AdoptedVersionsGood
<1>2. new = [raised EXCEPT !.base = top.key, !.lineage = lineage, !.equiv = equiv]
  BY DEF AdoptConfigHeads
<1> HIDE DEF versions
<1>3. PICK m \in DOMAIN versions : top = versions[m]
  BY <1>1, NewestIs
<1>4. \A j \in DOMAIN versions : versions[j].key.gen <= top.key.gen
  BY <1>1, NewestIs
<1> HIDE DEF top
<1>5. lineage \in Lineage /\ ValidLineage(top.key, lineage)
  BY <1>1, <1>3, <1>4, MergedLineageValid
<1>6. top.key \in Key /\ top.key.text = t /\ top.key # NoKey
  <2>1. GoodVersion(top) /\ top.key.text = t
    BY <1>1, <1>3 DEF GoodVersions
  <2> QED
    BY <2>1, ConfigSyncAssumption DEF GoodVersion, NoKey
<1>7. IsFiniteSet(keys) /\ keys \subseteq Key /\ \A k \in keys : k.text = t
  <2>1. IsFiniteSet(same) /\ same \subseteq Key /\ \A k \in same : k.text = t
    <3>1. CASE s.base.text = t
      BY <3>1 DEF GoodState, State
    <3>2. CASE s.base.text # t
      BY <3>2, FS_EmptySet
    <3> QED
      BY <3>1, <3>2
  <2> DEFINE ofVersions == {v.key : v \in ToSet(versions)}
             f == [i \in DOMAIN versions |-> versions[i].key]
  <2>2. \A i \in DOMAIN versions : versions[i].key \in Key /\ versions[i].key.text = t
    BY <1>1 DEF GoodVersions, GoodVersion
  <2>3. ofVersions = {f[i] : i \in DOMAIN f} /\ DOMAIN f = DOMAIN versions
    BY DEF ToSet
  <2>4. IsFiniteSet(DOMAIN versions)
    <3>1. DOMAIN versions = 1..Len(versions) /\ Len(versions) \in Int /\ 1 \in Int
      BY <1>1 DEF GoodVersions
    <3> QED
      BY <3>1, FS_Interval
  <2>5. IsFiniteSet(ofVersions)
    <3> HIDE DEF f, ofVersions
    <3> QED
      BY <2>3, <2>4, ImageFinite
  <2>6. ofVersions \subseteq Key /\ \A k \in ofVersions : k.text = t
    BY <2>2 DEF ToSet
  <2> HIDE DEF same, ofVersions
  <2>7. IsFiniteSet(same \cup ofVersions)
    BY <2>1, <2>5, FS_Union
  <2>8. keys = same \cup ofVersions
    BY DEF ofVersions
  <2> HIDE DEF keys
  <2> QED
    BY <2>1, <2>6, <2>7, <2>8
<1> HIDE DEF keys
<1>8. /\ equiv \in SUBSET Key /\ IsFiniteSet(equiv) /\ Cardinality(equiv) <= EquivLimit
      /\ \A k \in equiv : k.text = t
  <2> DEFINE others == keys \ {top.key}
  <2>1. IsFiniteSet(others) /\ others \subseteq Key /\ \A k \in others : k.text = t
    BY <1>7, FS_RemoveElement
  <2> HIDE DEF others
  <2>2. NewestKeys(others) \in SUBSET others
    BY DEF NewestKeys
  <2>3. IsFiniteSet(NewestKeys(others))
    BY <2>1, <2>2, FS_Subset
  <2>4. Cardinality(NewestKeys(others)) <= EquivLimit
    BY <2>1, NewestKeysFew
  <2>5. equiv = NewestKeys(others)
    BY DEF others
  <2> HIDE DEF equiv
  <2> QED
    BY <2>1, <2>2, <2>3, <2>4, <2>5
<1>9. s \in State /\ s.install = d
  BY DEF GoodState
<1>10. raised \in State /\ raised.install = d /\ raised.pending = s.pending
  <2>1. raised \in State /\ raised = [s EXCEPT !.seen = raised.seen]
    BY <1>9, SeenRaised
  <2> HIDE DEF raised
  <2> QED
    BY <1>9, <2>1 DEF State
<1> HIDE DEF raised, lineage, equiv, new
<1>11. /\ new \in State /\ new.install = d /\ new.pending = s.pending
       /\ new.base = top.key /\ new.lineage = lineage /\ new.equiv = equiv
  BY <1>2, <1>5, <1>6, <1>8, <1>10 DEF State
<1>12. StateValid(new)
  BY <1>5, <1>6, <1>8, <1>11 DEF StateValid
<1>13. GoodState(new, d)
  BY <1>6, <1>8, <1>11, <1>12 DEF GoodState
<1> QED
  BY <1>6, <1>11, <1>13 DEF new

\* After an adoption an install knows no key that it, or an adopted head, did not
\* know before.
AdoptedKnows(new, s, t, heads) ==
    /\ new.base.text = t
    /\ \A k \in KnownKeys(new) : \/ s.base.text = t /\ k \in KnownKeys(s)
                                 \/ \E h \in heads : k = h.key
    /\ \A k \in ToSet(new.lineage) :
         \/ k \in KnownKeys(s) \cup ToSet(s.lineage)
         \/ \E h \in heads : k = h.key \/ k \in ToSet(h.lineage)
    /\ new.unpublished = s.unpublished

\* All the adopted versions are accounted for.
AdoptedKept(new, s, t, heads) == \A v : IsAdopted(v, s, t, heads) => Accounts(new, v)

\* It marks the adopted heads as seen, and keeps their history and its own.
LEMMA AdoptionKnows ==
  ASSUME NEW d, NEW s, GoodState(s, d), NEW t \in Texts,
         NEW heads, GoodHeads(heads), heads # {}, \A h \in heads : h.key.text = t
  PROVE  /\ AdoptedKnows(AdoptConfigHeads(s, t, heads), s, t, heads)
         /\ AdoptConfigHeads(s, t, heads).seen = RaiseSeen(s, heads).seen
         /\ AdoptedKept(AdoptConfigHeads(s, t, heads), s, t, heads)
<1> DEFINE versions == AdoptedVersions(s, t, heads)
           top == Newest(versions)
           same == IF s.base.text = t THEN s.equiv ELSE {}
           keys == same \cup {v.key : v \in ToSet(versions)}
           raised == RaiseSeen(s, heads)
           lineage == MergedLineage(top, versions)
           equiv == NewestKeys(keys \ {top.key})
           new == AdoptConfigHeads(s, t, heads)
<1>1. /\ GoodVersions(versions, t)
      /\ \A i \in DOMAIN versions : IsAdopted(versions[i], s, t, heads)
      /\ \A v : IsAdopted(v, s, t, heads) => \E i \in DOMAIN versions : versions[i] = v
  BY AdoptedVersionsGood
<1>2. new = [raised EXCEPT !.base = top.key, !.lineage = lineage, !.equiv = equiv]
  BY DEF AdoptConfigHeads
<1> HIDE DEF versions
<1>3. PICK m \in DOMAIN versions : top = versions[m]
  BY <1>1, NewestIs
<1>4. \A j \in DOMAIN versions : versions[j].key.gen <= top.key.gen
  BY <1>1, NewestIs
<1> HIDE DEF top
<1>5. /\ ToSet(lineage) \subseteq KeysNamed(versions)
      /\ \A k \in KeysNamed(versions) \ {top.key} : Lists(lineage, k)
  BY <1>1, <1>3, <1>4, MergedLineageValid
<1>6. s \in State /\ raised \in State /\ raised.unpublished = s.unpublished
  <2>1. s \in State
    BY DEF GoodState
  <2>2. raised \in State /\ raised = [s EXCEPT !.seen = raised.seen]
    BY <2>1, SeenRaised
  <2> HIDE DEF raised
  <2> QED
    BY <2>1, <2>2 DEF State
<1>7. ASSUME s.base.text = t
      PROVE  s.base \in KnownKeys(s) /\ s.equiv \subseteq KnownKeys(s)
  <2>1. s.base # NoKey
    BY <1>7, ConfigSyncAssumption DEF NoKey
  <2>2. NoKey \notin s.equiv
    BY <1>6, ConfigSyncAssumption DEF State, Key, NoKey
  <2> QED
    BY <2>1, <2>2 DEF KnownKeys
<1>8. \A i \in DOMAIN versions :
        \/ s.base.text = t /\ versions[i].key \in KnownKeys(s)
        \/ \E h \in heads : versions[i].key = h.key
  <2> TAKE i \in DOMAIN versions
  <2>1. CASE s.base.text = t /\ versions[i] = BaseVersion(s)
    BY <1>7, <2>1 DEF BaseVersion
  <2>2. CASE \E h \in heads : versions[i] = Version(h)
    BY <2>2 DEF Version
  <2> QED
    BY <1>1, <2>1, <2>2 DEF IsAdopted
<1>9. \A i \in DOMAIN versions : \A k \in ToSet(versions[i].lineage) :
        k \in ToSet(s.lineage) \/ \E h \in heads : k \in ToSet(h.lineage)
  <2> TAKE i \in DOMAIN versions
  <2>1. CASE s.base.text = t /\ versions[i] = BaseVersion(s)
    BY <2>1 DEF BaseVersion
  <2>2. CASE \E h \in heads : versions[i] = Version(h)
    BY <2>2 DEF Version
  <2> QED
    BY <1>1, <2>1, <2>2 DEF IsAdopted
<1>10. \A k \in keys : \/ s.base.text = t /\ k \in KnownKeys(s)
                       \/ \E h \in heads : k = h.key
  <2>1. ASSUME NEW k \in same PROVE s.base.text = t /\ k \in KnownKeys(s)
    BY <1>7, <2>1
  <2>2. ASSUME NEW k \in {v.key : v \in ToSet(versions)}
        PROVE  \E i \in DOMAIN versions : k = versions[i].key
    BY <2>2 DEF ToSet
  <2> HIDE DEF same
  <2> QED
    BY <1>8, <2>1, <2>2
<1> HIDE DEF keys
<1>11. equiv \subseteq keys
  BY DEF NewestKeys
<1>12. top.key.text = t
  BY <1>1, <1>3 DEF GoodVersions
<1> HIDE DEF raised, lineage, equiv, new
<1>13. /\ new.base = top.key /\ new.lineage = lineage /\ new.equiv = equiv
       /\ new.unpublished = s.unpublished /\ new.seen = raised.seen
  BY <1>2, <1>6 DEF State
<1>14. \A k \in KnownKeys(new) : \/ s.base.text = t /\ k \in KnownKeys(s)
                                 \/ \E h \in heads : k = h.key
  <2>1. KnownKeys(new) \subseteq equiv \cup {top.key}
    BY <1>13 DEF KnownKeys
  <2> QED
    BY <1>3, <1>8, <1>10, <1>11, <2>1
<1>15. \A k \in ToSet(new.lineage) :
         \/ k \in KnownKeys(s) \cup ToSet(s.lineage)
         \/ \E h \in heads : k = h.key \/ k \in ToSet(h.lineage)
  <2> TAKE k \in ToSet(new.lineage)
  <2>1. PICK i \in DOMAIN versions : k \in ToSet(versions[i].lineage) \/ k = versions[i].key
    BY <1>5, <1>13 DEF KeysNamed
  <2> QED
    BY <1>8, <1>9, <2>1
<1>16. ASSUME NEW v, IsAdopted(v, s, t, heads) PROVE Accounts(new, v)
  <2>1. PICK i \in DOMAIN versions : versions[i] = v
    BY <1>1, <1>16
  <2>2. v.key.gen <= new.base.gen
    BY <1>4, <1>13, <2>1
  <2>3. top.key # NoKey
    BY <1>12, ConfigSyncAssumption DEF NoKey
  <2>4. ASSUME NEW k \in {v.key} \cup ToSet(v.lineage)
        PROVE  \/ k \in KnownKeys(new) \cup ToSet(new.lineage)
               \/ /\ Len(new.lineage) = LineageLimit
                  /\ \A o \in ToSet(new.lineage) : k.gen <= o.gen
    <3>1. k \in KeysNamed(versions)
      BY <2>1 DEF KeysNamed
    <3>2. CASE k = top.key
      BY <1>13, <2>3, <3>2 DEF KnownKeys
    <3>3. CASE k # top.key
      BY <1>5, <1>13, <3>1, <3>3 DEF Lists
    <3> QED
      BY <3>2, <3>3
  <2> QED
    BY <2>2, <2>4 DEF Accounts
<1> QED
  BY <1>12, <1>13, <1>14, <1>15, <1>16 DEF AdoptedKnows, AdoptedKept, new, raised

\* So is the state in which the answer to a check leaves its install.
LEMMA RecordedGood ==
  ASSUME NEW d, NEW s, GoodState(s, d), NEW t \in Texts,
         NEW adopt, GoodHeads(adopt), adopt # {}, \A h \in adopt : h.key.text = t,
         NEW seen, GoodHeads(seen)
  PROVE  /\ GoodState(Recorded(s, t, adopt, seen), d)
         /\ Recorded(s, t, adopt, seen).base # NoKey
         /\ Recorded(s, t, adopt, seen).pending = s.pending
         /\ Recorded(s, t, adopt, seen).unpublished = s.unpublished
<1> DEFINE old == AdoptConfigHeads(s, t, adopt)
           new == RaiseSeen(old, seen)
<1>1. /\ GoodState(old, d) /\ old.base # NoKey /\ old.pending = s.pending
      /\ old.unpublished = s.unpublished
  BY AdoptionGood, AdoptionKnows DEF AdoptedKnows
<1> HIDE DEF old
<1>2. Recorded(s, t, adopt, seen) = new
  BY DEF Recorded, old
<1>3. old \in State
  BY <1>1 DEF GoodState
<1>4. new \in State /\ new = [old EXCEPT !.seen = new.seen]
  BY <1>3, SeenRaised
<1> HIDE DEF new
<1>5. /\ new.install = old.install /\ new.base = old.base /\ new.lineage = old.lineage
      /\ new.equiv = old.equiv /\ new.pending = old.pending
      /\ new.unpublished = old.unpublished
  BY <1>3, <1>4 DEF State
<1>6. GoodState(new, d)
  BY <1>1, <1>4, <1>5 DEF GoodState, StateValid
<1> QED
  BY <1>1, <1>2, <1>5, <1>6

---------------------------------------------------------------------------
(* MakeConfigVersion.                                                      *)

\* At most two parents, the second one new to the first.
GoodParents(parents) ==
    /\ parents \in Seq([key : Key, lineage : Lineage])
    /\ Len(parents) <= 2
    /\ \A i \in DOMAIN parents : GoodVersion(parents[i])
    /\ Len(parents) = 2 => /\ parents[1].key # parents[2].key
                           /\ parents[2].key \notin ToSet(parents[1].lineage)

\* A key before a sequence of keys.
LEMMA KeyBefore ==
  ASSUME NEW k \in Key, NEW l \in Seq(Key)
  PROVE  /\ <<k>> \o l \in Seq(Key)
         /\ DOMAIN (<<k>> \o l) = 1..(Len(l) + 1)
         /\ (<<k>> \o l)[1] = k
         /\ \A i \in DOMAIN (<<k>> \o l) :
              \/ i = 1
              \/ i - 1 \in DOMAIN l /\ (<<k>> \o l)[i] = l[i - 1]
OBVIOUS

\* A version made of good parents is a good version: later than them and all
\* that they came from.
LEMMA MadeVersionGood ==
  ASSUME NEW t \in Texts, NEW parents, GoodParents(parents)
  PROVE  GoodVersion(MakeConfigVersion(t, parents))
<1> DEFINE distinct == IF Len(parents) = 2 /\ parents[1].key = parents[2].key
                       THEN <<parents[1]>> ELSE parents
           gens == {p.key.gen : p \in ToSet(parents)}
           lines == [n \in DOMAIN parents |-> <<parents[n].key>> \o parents[n].lineage]
           direct == {<<n, 1>> : n \in DOMAIN parents}
           places == direct \cup NewPlaces(lines)
           others == {p \in places : \A q \in direct : KeyAt(lines, p) # KeyAt(lines, q)}
           g == Max(gens \cup {0})
           key == [gen |-> g + 1, text |-> t]
           lineage == IF Cardinality(places) > LineageLimit
                      THEN Truncated(ByGeneration(lines, direct \cup others, direct))
                      ELSE ByGeneration(lines, places, {})
<1>1. /\ Len(parents) \in Nat /\ DOMAIN parents = 1..Len(parents) /\ Len(parents) <= 2
      /\ IsFiniteSet(DOMAIN parents)
  <2>1. Len(parents) \in Nat /\ DOMAIN parents = 1..Len(parents) /\ Len(parents) <= 2
    BY DEF GoodParents
  <2>2. IsFiniteSet(1..Len(parents))
    <3>1. 1 \in Int /\ Len(parents) \in Int
      BY <2>1
    <3> QED
      BY <3>1, FS_Interval
  <2> QED
    BY <2>1, <2>2
<1>2. distinct = parents
  BY DEF GoodParents
<1>3. MakeConfigVersion(t, parents) = [key |-> key, lineage |-> lineage]
  <2> HIDE DEF distinct
  <2> QED
    BY <1>2 DEF MakeConfigVersion, distinct
<1>4. \A n \in DOMAIN parents :
        /\ parents[n].key \in Key /\ parents[n].key.gen \in Nat
        /\ parents[n].lineage \in Seq(Key)
        /\ \A i \in DOMAIN parents[n].lineage :
             /\ parents[n].lineage[i].gen \in Nat
             /\ parents[n].lineage[i].gen < parents[n].key.gen
  <2> SUFFICES ASSUME NEW n \in DOMAIN parents, NEW v, v = parents[n]
               PROVE  /\ v.key \in Key /\ v.key.gen \in Nat /\ v.lineage \in Seq(Key)
                      /\ \A i \in DOMAIN v.lineage : /\ v.lineage[i].gen \in Nat
                                                     /\ v.lineage[i].gen < v.key.gen
    OBVIOUS
  <2>1. GoodVersion(v)
    BY DEF GoodParents
  <2>2. v.key \in Key /\ v.lineage \in Seq(Key)
    BY <2>1 DEF GoodVersion, Lineage
  <2>3. \A i \in DOMAIN v.lineage : v.lineage[i] \in Key
    BY <2>2
  <2>4. \A i \in DOMAIN v.lineage : v.lineage[i].gen < v.key.gen
    BY <2>1 DEF GoodVersion, ValidLineage, ToSet
  <2> QED
    BY <2>2, <2>3, <2>4 DEF Key
<1>5. /\ g \in Nat
      /\ \A n \in DOMAIN parents : parents[n].key.gen <= g
  <2> DEFINE f == [n \in DOMAIN parents |-> parents[n].key.gen]
  <2>1. gens = {f[n] : n \in DOMAIN f} /\ DOMAIN f = DOMAIN parents
    BY DEF ToSet
  <2>2. IsFiniteSet(gens)
    <3> HIDE DEF f, gens
    <3> QED
      BY <1>1, <2>1, ImageFinite
  <2>3. gens \subseteq Nat
    BY <1>4 DEF ToSet
  <2>4. \A n \in DOMAIN parents : parents[n].key.gen \in gens
    BY DEF ToSet
  <2> DEFINE all == gens \cup {0}
  <2> HIDE DEF gens
  <2>5. IsFiniteSet(all)
    BY <2>2, FS_AddElement
  <2>6. all \subseteq Nat /\ all # {} /\ gens \subseteq all /\ g = Max(all)
    BY <2>3
  <2> HIDE DEF all, g
  <2>7. g \in all /\ \A y \in all : y <= g
    <3>1. all \subseteq Int /\ all # {}
      BY <2>6
    <3>2. Max(all) \in all /\ \A y \in all : y <= Max(all)
      BY <2>5, <3>1, GreatestNumber
    <3> QED
      BY <2>6, <3>2
  <2>8. \A n \in DOMAIN parents : parents[n].key.gen <= g
    BY <2>4, <2>6, <2>7
  <2> QED
    BY <2>6, <2>7, <2>8
<1> HIDE DEF g
<1>6. \A n \in DOMAIN parents :
        /\ lines[n] \in Seq(Key)
        /\ DOMAIN lines[n] = 1..(Len(parents[n].lineage) + 1)
        /\ lines[n][1] = parents[n].key
        /\ \A i \in DOMAIN lines[n] :
             \/ i = 1
             \/ i - 1 \in DOMAIN parents[n].lineage /\ lines[n][i] = parents[n].lineage[i - 1]
  BY <1>4, KeyBefore
<1>7. DOMAIN lines = DOMAIN parents
  OBVIOUS
<1> HIDE DEF lines
<1>8. Lines(lines)
  <2>1. DOMAIN parents \subseteq Int
    BY <1>1
  <2> QED
    BY <1>1, <1>6, <1>7, <2>1 DEF Lines
<1>9. \A p \in Places(lines) : KeyAt(lines, p).gen < g + 1
  <2> SUFFICES ASSUME NEW p \in Places(lines), NEW n, n = p[1], NEW i, i = p[2]
               PROVE  lines[n][i].gen < g + 1
    BY DEF KeyAt
  <2>1. n \in DOMAIN parents /\ i \in DOMAIN lines[n]
    BY <1>7, <1>8, PlacesAre
  <2>2. parents[n].key.gen \in Nat /\ parents[n].key.gen <= g
    BY <1>4, <1>5, <2>1
  <2>3. CASE i = 1
    BY <1>5, <1>6, <2>1, <2>2, <2>3
  <2>4. CASE i - 1 \in DOMAIN parents[n].lineage /\ lines[n][i] = parents[n].lineage[i - 1]
    <3>1. /\ parents[n].lineage[i - 1].gen \in Nat
          /\ parents[n].lineage[i - 1].gen < parents[n].key.gen
      BY <1>4, <2>1, <2>4
    <3> QED
      BY <1>5, <2>2, <2>4, <3>1
  <2> QED
    BY <1>6, <2>1, <2>3, <2>4
<1>10. direct \subseteq Places(lines)
  <2> SUFFICES ASSUME NEW n \in DOMAIN parents PROVE <<n, 1>> \in Places(lines)
    OBVIOUS
  <2>1. 1 \in DOMAIN lines[n]
    <3>1. Len(parents[n].lineage) \in Nat
      BY <1>4
    <3> QED
      BY <1>6, <3>1
  <2> QED
    BY <1>7, <1>8, <2>1, PlacesAre
<1>11. direct \subseteq NewPlaces(lines)
  <2> SUFFICES ASSUME NEW p \in direct, NEW q \in Places(lines), Earlier(q, p),
                      KeyAt(lines, q) = KeyAt(lines, p)
               PROVE  FALSE
    BY <1>10 DEF NewPlaces
  <2>1. PICK n \in DOMAIN parents : p = <<n, 1>>
    OBVIOUS
  <2> DEFINE m == q[1]
             i == q[2]
  <2>2. m \in DOMAIN parents /\ i \in DOMAIN lines[m] /\ i \in Int
    BY <1>7, <1>8, PlacesAre
  <2>3. m < n
    <3>1. i >= 1
      <4>1. Len(parents[m].lineage) \in Nat
        BY <1>4, <2>2
      <4> QED
        BY <1>6, <2>2, <4>1
    <3>2. m < n \/ (m = n /\ i < 1)
      BY <2>1 DEF Earlier
    <3> HIDE DEF i, m
    <3> QED
      BY <2>2, <3>1, <3>2
  <2>4. KeyAt(lines, p) = parents[n].key /\ KeyAt(lines, q) = lines[m][i]
    BY <1>6, <2>1 DEF KeyAt
  <2> HIDE DEF m, i
  <2>5. m = 1 /\ n = 2 /\ Len(parents) = 2
    BY <1>1, <2>2, <2>3
  <2>6. parents[1].key # parents[2].key /\ parents[2].key \notin ToSet(parents[1].lineage)
    BY <2>5 DEF GoodParents
  <2>7. CASE i = 1
    BY <1>6, <2>2, <2>4, <2>5, <2>6, <2>7
  <2>8. CASE i - 1 \in DOMAIN parents[m].lineage /\ lines[m][i] = parents[m].lineage[i - 1]
    BY <2>4, <2>5, <2>6, <2>8 DEF ToSet
  <2> QED
    BY <1>6, <2>2, <2>7, <2>8
<1>12. NewPlaces(lines) \subseteq Places(lines) /\ DistinctAt(lines, NewPlaces(lines))
  BY <1>8, NewPlacesDistinct
<1> HIDE DEF direct
<1>13. places = NewPlaces(lines) /\ (direct \cup others) \subseteq NewPlaces(lines)
  BY <1>11
<1>14. /\ places \in SUBSET Places(lines) /\ DistinctAt(lines, places)
       /\ (direct \cup others) \in SUBSET Places(lines)
       /\ DistinctAt(lines, direct \cup others)
  <2>1. DistinctAt(lines, direct \cup others)
    BY <1>12, <1>13 DEF DistinctAt
  <2> HIDE DEF others, places
  <2> QED
    BY <1>12, <1>13, <2>1
<1> HIDE DEF places, others
<1>15. key \in Key /\ key.gen = g + 1
  BY <1>5 DEF Key
<1> HIDE DEF key
<1>16. /\ \A p \in places : KeyAt(lines, p).gen < key.gen
       /\ \A p \in direct \cup others : KeyAt(lines, p).gen < key.gen
  BY <1>9, <1>14, <1>15
<1>17. LineageLimit \in Nat /\ Cardinality(places) \in Nat
  <2>1. IsFiniteSet(places)
    BY <1>8, <1>14, PlacesAre, FS_Subset
  <2> QED
    BY <2>1, FS_CardinalityType, ConfigSyncAssumption
<1>18. lineage \in Lineage /\ ValidLineage(key, lineage)
  <2>1. CASE Cardinality(places) > LineageLimit
    <3> DEFINE cut == Truncated(ByGeneration(lines, direct \cup others, direct))
    <3>1. cut \in Lineage /\ ValidLineage(key, cut)
      BY <1>8, <1>14, <1>16, SortedLineage
    <3> QED
      BY <2>1, <3>1
  <2>2. CASE ~(Cardinality(places) > LineageLimit)
    <3> DEFINE all == ByGeneration(lines, places, {})
    <3>1. Cardinality(places) <= LineageLimit
      BY <1>17, <2>2
    <3>2. all \in Lineage /\ ValidLineage(key, all)
      BY <1>8, <1>14, <1>16, <3>1, SortedLineage
    <3> QED
      BY <2>2, <3>2
  <2> QED
    BY <2>1, <2>2
<1> HIDE DEF lineage
<1> QED
  BY <1>3, <1>15, <1>18 DEF GoodVersion

---------------------------------------------------------------------------
(* Classify and Plan.                                                      *)

\* The heads of the other installs.
HeadsOfOthers(heads, d) == GoodHeads(heads) /\ \A h \in heads : h.install # d

\* The own head a check may be given.
GoodOwn(ownHead, s, d) ==
    \/ ownHead = NoHead
    \/ /\ ownHead \in ConfigHead
       /\ ownHead.install = d
       /\ ValidLineage(ownHead.key, ownHead.lineage)
       /\ s.base # NoKey \/ s.pending # NoKey

NewHeads(s, heads) == {h \in heads : h.seq > s.seen[h.install]}

\* The kinds there are, and what Stale and Same mean.
LEMMA KindIs ==
  ASSUME NEW t, NEW s, NEW h
  PROVE  /\ KindOf(t, s, h) \in {"Stale", "Same", "Ahead", "Concurrent", "Unrelated"}
         /\ KindOf(t, s, h) = "Stale" => Knows(s, h)
         /\ KindOf(t, s, h) = "Same" => h.key.text = t
BY DEF KindOf, Knows

\* All new heads are read; of those that no other was built on, each has its
\* kind.
ClassifiedWell(t, s, heads) ==
    LET new == NewHeads(s, heads)
        cl == Classify(t, s, heads)
    IN  /\ \A o \in cl.outcomes : /\ o.head \in new
                                  /\ o.kind # "Invalid"
                                  /\ o.kind # "Stale" => o.head \in MaximalConfigHeads(new)
        /\ \A h \in MaximalConfigHeads(new) :
             [head |-> h, kind |-> KindOf(t, s, h)] \in cl.outcomes

\* No head of another install is unreadable, so each is classified by its kind.
LEMMA Classification ==
  ASSUME NEW d, NEW s, GoodState(s, d), NEW t, NEW heads, HeadsOfOthers(heads, d)
  PROVE  ClassifiedWell(t, s, heads)
<1> DEFINE new == NewHeads(s, heads)
           maximal == MaximalConfigHeads(new)
           cl == Classify(t, s, heads)
           outcome(h, kind) == [head |-> h, kind |-> kind]
<1>1. GoodHeads(heads) /\ \A h \in heads : h.install # s.install
  BY DEF HeadsOfOthers, GoodState
<1>2. UnseenHeads(s, heads) = new
  <2>1. \A h \in heads : h.seq \in Int
    BY <1>1, HeadParts
  <2>2. \A h, o \in heads : o.install = h.install => o.seq <= h.seq
    BY <1>1, <2>1 DEF GoodHeads
  <2> QED
    BY <1>1, <2>2 DEF UnseenHeads, NewHeads
<1>3. new \subseteq heads
  BY DEF NewHeads
<1>4. Readable(new) = new
  BY <1>1, <1>3 DEF Readable, GoodHeads
<1> HIDE DEF new
<1>5. cl.outcomes = {outcome(h, "Invalid") : h \in new \ new}
               \cup {outcome(h, "Stale") : h \in new \ maximal}
               \cup {outcome(h, KindOf(t, s, h)) : h \in maximal}
  BY <1>2, <1>4 DEF Classify
<1>6. maximal \subseteq new
  BY DEF MaximalConfigHeads
<1> HIDE DEF maximal, cl
<1>7. ASSUME NEW o \in cl.outcomes
      PROVE  /\ o.head \in new
             /\ o.kind # "Invalid"
             /\ o.kind # "Stale" => o.head \in maximal
  <2>1. CASE \E h \in new \ maximal : o = outcome(h, "Stale")
    BY <2>1
  <2>2. CASE \E h \in maximal : o = outcome(h, KindOf(t, s, h))
    BY <1>6, <2>2, KindIs
  <2> QED
    BY <1>5, <2>1, <2>2
<1>8. \A h \in maximal : outcome(h, KindOf(t, s, h)) \in cl.outcomes
  BY <1>5
<1> QED
  BY <1>7, <1>8 DEF ClassifiedWell, maximal, cl, new

OfferedKinds == {"Ahead", "Concurrent", "Unrelated"}

Kinds(t, s, heads) == {o.kind : o \in Classify(t, s, heads).outcomes}

\* The contents that can be chosen.
Candidates(t, s, heads) ==
    Representatives(HeadsOf(Classify(t, s, heads).outcomes, OfferedKinds))

Several(t, s, heads) == Cardinality(Candidates(t, s, heads)) > 1

\* What the parts of a plan are and what its verdict says.
PlanWell(plan, t, s, heads, ownHead) ==
    LET kinds == Kinds(t, s, heads)
        outcomes == Classify(t, s, heads).outcomes
    IN  /\ plan.outcomes = outcomes
        /\ plan.ownHead = ownHead
        /\ plan.ownStale => ownHead # NoHead /\ OwnStale(s, ownHead)
        /\ plan.verdict \in {"Conflict", "Choose"} =>
             plan.offered = Candidates(t, s, heads)
        /\ plan.verdict = "UpdateReady" =>
             plan.offered = {First(HeadsOf(outcomes, {"Ahead"}))}
        /\ plan.verdict \notin {"Conflict", "Choose", "UpdateReady"} => plan.offered = {}
        /\ plan.verdict = "Invalid" => \/ ~StateValid(s)
                                       \/ "Invalid" \in kinds
                                       \/ ownHead # NoHead /\ ~OwnHeadValid(s, ownHead)
        /\ plan.verdict \notin {"Invalid", "Pending"} => s.pending = NoKey
        /\ plan.verdict = "Pending" => s.pending # NoKey
        /\ plan.verdict = "Conflict" => "Concurrent" \in kinds \/ Several(t, s, heads)
        /\ plan.verdict = "Choose" => "Unrelated" \in kinds
        /\ plan.verdict = "UpdateReady" => /\ "Concurrent" \notin kinds
                                           /\ "Unrelated" \notin kinds
                                           /\ "Ahead" \in kinds
                                           /\ ~Several(t, s, heads)
        /\ plan.verdict = "LocalChanges" => s.base # NoKey
        /\ plan.verdict = "Empty" => s.base = NoKey
        /\ plan.verdict = "Adopt" => "Same" \in kinds
        /\ plan.verdict \in {"Adopt", "Empty", "LocalChanges", "UpToDate"} =>
             kinds \cap OfferedKinds = {}
        /\ plan.verdict # "Invalid" => plan.same = HeadsOf(outcomes, {"Same"})
        /\ plan.verdict \in {"Invalid", "Pending", "Conflict", "Choose", "UpdateReady",
                             "Adopt", "Empty", "LocalChanges", "UpToDate"}

\* The verdicts of Plan taken apart.
LEMMA PlanIs ==
  ASSUME NEW t, NEW s, NEW heads, NEW ownHead
  PROVE  PlanWell(Plan(t, s, heads, ownHead), t, s, heads, ownHead)
<1> DEFINE cl == Classify(t, s, heads)
           outcomes == cl.outcomes
           kinds == Kinds(t, s, heads)
           candidates == Candidates(t, s, heads)
           several == Several(t, s, heads)
           split == cl.split /\ several
           verdict == Verdict(t, s, heads, ownHead, kinds, split, several)
           plan == Plan(t, s, heads, ownHead)
<1>1. plan = PlanOn(verdict, cl, candidates, s, ownHead)
  BY DEF Plan, PlanClassified, PlanFor, Candidates, OfferedKinds, Several, Kinds
<1> HIDE DEF plan, verdict, candidates, kinds, cl, several
<1>2. /\ plan.outcomes = outcomes /\ plan.ownHead = ownHead /\ plan.verdict = verdict
      /\ plan.offered = CASE verdict \in {"Conflict", "Choose"} -> candidates
                          [] verdict = "UpdateReady" ->
                               {First(HeadsOf(outcomes, {"Ahead"}))}
                          [] OTHER -> {}
      /\ plan.ownStale <=> /\ verdict # "Invalid"
                           /\ ownHead # NoHead
                           /\ OwnStale(s, ownHead)
      /\ verdict # "Invalid" => plan.same = HeadsOf(outcomes, {"Same"})
  BY <1>1 DEF PlanOn
<1>3. split => several
  OBVIOUS
<1> HIDE DEF split, outcomes
<1>4. /\ verdict \in {"Conflict", "Choose"} => plan.offered = candidates
      /\ verdict = "UpdateReady" => plan.offered = {First(HeadsOf(outcomes, {"Ahead"}))}
      /\ verdict \notin {"Conflict", "Choose", "UpdateReady"} => plan.offered = {}
  BY <1>2
<1>5. /\ verdict = "Invalid" => \/ ~StateValid(s)
                                \/ "Invalid" \in kinds
                                \/ ownHead # NoHead /\ ~OwnHeadValid(s, ownHead)
      /\ verdict \notin {"Invalid", "Pending"} => s.pending = NoKey
      /\ verdict = "Pending" => s.pending # NoKey
      /\ verdict = "Conflict" => "Concurrent" \in kinds \/ split \/ several
      /\ verdict = "Choose" => "Unrelated" \in kinds
      /\ verdict = "UpdateReady" => /\ "Concurrent" \notin kinds
                                    /\ "Unrelated" \notin kinds
                                    /\ "Ahead" \in kinds
                                    /\ ~several
      /\ verdict = "LocalChanges" => s.base # NoKey
      /\ verdict = "Empty" => s.base = NoKey
      /\ verdict = "Adopt" => "Same" \in kinds
      /\ verdict \in {"Adopt", "Empty", "LocalChanges", "UpToDate"} =>
           kinds \cap OfferedKinds = {}
      /\ verdict \in {"Invalid", "Pending", "Conflict", "Choose", "UpdateReady",
                      "Adopt", "Empty", "LocalChanges", "UpToDate"}
  BY DEF Verdict, verdict, OfferedKinds
<1> QED
  BY <1>2, <1>3, <1>4, <1>5 DEF PlanWell, plan, candidates, kinds, cl, several, outcomes

\* Heads with the settings of this install are adopted before anything is published.
LEMMA NoSameLeft ==
  ASSUME NEW t, NEW s, NEW heads, NEW ownHead,
         Plan(t, s, heads, ownHead).verdict \in {"Empty", "LocalChanges"}
  PROVE  "Same" \notin Kinds(t, s, heads)
<1> DEFINE cl == Classify(t, s, heads)
           kinds == Kinds(t, s, heads)
           candidates == Candidates(t, s, heads)
           several == Several(t, s, heads)
           verdict == Verdict(t, s, heads, ownHead, kinds, cl.split /\ several, several)
           plan == Plan(t, s, heads, ownHead)
<1>1. plan = PlanOn(verdict, cl, candidates, s, ownHead)
  BY DEF Plan, PlanClassified, PlanFor, Candidates, OfferedKinds, Several, Kinds
<1> HIDE DEF verdict, candidates, kinds, cl, several
<1>2. verdict \in {"Empty", "LocalChanges"}
  BY <1>1 DEF PlanOn
<1>3. "Same" \notin kinds
  BY <1>2 DEF Verdict, verdict
<1> QED
  BY <1>3 DEF kinds

\* The heads of some kinds.
LEMMA HeadsOfGood ==
  ASSUME NEW d, NEW s, GoodState(s, d), NEW t, NEW heads, HeadsOfOthers(heads, d), NEW kinds
  PROVE  LET some == HeadsOf(Classify(t, s, heads).outcomes, kinds)
         IN  /\ some \subseteq NewHeads(s, heads)
             /\ some \subseteq heads
             /\ GoodHeads(some)
             /\ "Stale" \notin kinds => some \subseteq MaximalConfigHeads(NewHeads(s, heads))
<1> DEFINE new == NewHeads(s, heads)
           outcomes == Classify(t, s, heads).outcomes
           some == HeadsOf(outcomes, kinds)
<1>1. \A o \in outcomes : /\ o.head \in new
                          /\ o.kind # "Stale" => o.head \in MaximalConfigHeads(new)
  BY Classification DEF ClassifiedWell
<1> HIDE DEF new, outcomes
<1>2. some \subseteq new
  BY <1>1 DEF HeadsOf
<1>3. "Stale" \notin kinds => some \subseteq MaximalConfigHeads(new)
  BY <1>1 DEF HeadsOf
<1>4. new \subseteq heads
  BY DEF new, NewHeads
<1>5. GoodHeads(some)
  <2>1. GoodHeads(heads) /\ some \in SUBSET heads
    BY <1>2, <1>4 DEF HeadsOfOthers
  <2> QED
    BY <2>1, FewerHeads
<1> QED
  BY <1>2, <1>3, <1>4, <1>5 DEF new, outcomes

\* A check of a good state and good heads is never refused.
LEMMA PlanNeverInvalid ==
  ASSUME NEW d, NEW s, GoodState(s, d), NEW t, NEW heads, HeadsOfOthers(heads, d),
         NEW ownHead, GoodOwn(ownHead, s, d)
  PROVE  Plan(t, s, heads, ownHead).verdict # "Invalid"
<1> DEFINE plan == Plan(t, s, heads, ownHead)
<1>1. PlanWell(plan, t, s, heads, ownHead)
  BY PlanIs
<1>2. "Invalid" \notin Kinds(t, s, heads)
  BY Classification DEF ClassifiedWell, Kinds
<1>3. StateValid(s)
  BY DEF GoodState
<1>4. ownHead # NoHead => OwnHeadValid(s, ownHead)
  BY DEF GoodOwn, OwnHeadValid, GoodState
<1> HIDE DEF plan
<1> QED
  BY <1>1, <1>2, <1>3, <1>4 DEF PlanWell, plan

\* What is offered is new, no other new head was built on it, and to each content
\* that can be chosen there is one head.
LEMMA OfferedGood ==
  ASSUME NEW d, NEW s, GoodState(s, d), NEW t, NEW heads, HeadsOfOthers(heads, d),
         NEW ownHead, NEW plan, plan = Plan(t, s, heads, ownHead)
  PROVE  /\ GoodHeads(plan.offered)
         /\ plan.offered \subseteq MaximalConfigHeads(NewHeads(s, heads))
         /\ plan.offered \subseteq heads
         /\ plan.verdict \in {"Choose", "Conflict"} =>
              /\ plan.offered # {}
              /\ \A h, o \in plan.offered : h.key.text = o.key.text => h = o
<1> DEFINE outcomes == Classify(t, s, heads).outcomes
           some == HeadsOf(outcomes, OfferedKinds)
           ahead == HeadsOf(outcomes, {"Ahead"})
           candidates == Candidates(t, s, heads)
           kinds == Kinds(t, s, heads)
<1>1. GoodHeads(some) /\ some \subseteq MaximalConfigHeads(NewHeads(s, heads)) /\ some \subseteq heads
  BY HeadsOfGood DEF OfferedKinds
<1>2. GoodHeads(ahead) /\ ahead \subseteq some
  <2>1. GoodHeads(ahead)
    BY HeadsOfGood
  <2>2. ahead \subseteq some
    BY DEF OfferedKinds, HeadsOf
  <2> QED
    BY <2>1, <2>2
<1>3. candidates = Representatives(some)
  BY DEF Candidates
<1>4. PlanWell(plan, t, s, heads, ownHead)
  BY PlanIs
<1>5. "Ahead" \in kinds => ahead # {}
  BY DEF HeadsOf, Kinds
<1>6. "Concurrent" \in kinds \/ "Unrelated" \in kinds => some # {}
  BY DEF HeadsOf, OfferedKinds, Kinds
<1> HIDE DEF some, ahead, candidates, kinds
<1>7. /\ candidates \subseteq some
      /\ some # {} => candidates # {}
      /\ \A h, o \in candidates : h.key.text = o.key.text => h = o
  BY <1>1, <1>3, ContentRepresented
<1>8. Several(t, s, heads) => candidates # {}
  <2>1. Cardinality({}) = 0
    BY FS_EmptySet
  <2> QED
    BY <2>1 DEF Several, candidates
<1>9. CASE plan.verdict \in {"Conflict", "Choose"}
  <2>1. plan.offered = candidates
    BY <1>4, <1>9 DEF PlanWell, candidates
  <2>2. candidates # {}
    BY <1>4, <1>6, <1>7, <1>8, <1>9 DEF PlanWell, kinds
  <2>3. GoodHeads(candidates)
    BY <1>1, <1>7, FewerHeads
  <2> QED
    BY <1>1, <1>7, <2>1, <2>2, <2>3
<1>10. CASE plan.verdict = "UpdateReady"
  <2>1. First(ahead) \in ahead
    <3>1. ahead # {}
      BY <1>4, <1>5, <1>10 DEF PlanWell, kinds
    <3> QED
      BY <1>2, <3>1, FirstHead
  <2>2. plan.offered = {First(ahead)}
    BY <1>4, <1>10 DEF PlanWell, ahead
  <2>3. {First(ahead)} \in SUBSET some
    BY <1>2, <2>1
  <2>4. GoodHeads({First(ahead)})
    BY <1>1, <2>3, FewerHeads
  <2> QED
    BY <1>1, <1>10, <2>2, <2>3, <2>4
<1>11. CASE plan.verdict \notin {"Conflict", "Choose", "UpdateReady"}
  <2>1. plan.offered = {}
    BY <1>4, <1>11 DEF PlanWell
  <2>2. GoodHeads({})
    BY <1>1, FewerHeads
  <2> QED
    BY <1>11, <2>1, <2>2
<1> QED
  BY <1>9, <1>10, <1>11

---------------------------------------------------------------------------
(* What a check proposes.                                                  *)

\* A lineage lists what it contains.
LEMMA ContainsIs ==
  ASSUME NEW l \in Lineage, NEW k
  PROVE  Contains(l, k) <=> k \in ToSet(l)
<1>1. l \in Seq(Key)
  BY DEF Lineage
<1>2. DOMAIN l = 1..Len(l)
  BY <1>1
<1> QED
  BY <1>2 DEF Contains, ToSet

\* One version, or two of which the second is new to the first.
LEMMA OneParent ==
  ASSUME NEW v, GoodVersion(v)
  PROVE  GoodParents(<<v>>)
<1>1. v \in [key : Key, lineage : Lineage]
  BY DEF GoodVersion
<1>2. /\ <<v>> \in Seq([key : Key, lineage : Lineage])
      /\ Len(<<v>>) = 1
      /\ \A i \in DOMAIN <<v>> : <<v>>[i] = v
  <2> DEFINE V == [key : Key, lineage : Lineage]
  <2>1. v \in V
    BY <1>1
  <2> HIDE DEF V
  <2>2. <<v>> \in Seq(V) /\ Len(<<v>>) = 1 /\ \A i \in DOMAIN <<v>> : <<v>>[i] = v
    BY <2>1
  <2> QED
    BY <2>2 DEF V
<1> QED
  BY <1>2 DEF GoodParents

\* Two versions, the second not in the first's lineage, are parents.
LEMMA TwoParents ==
  ASSUME NEW v, GoodVersion(v), NEW w, GoodVersion(w),
         v.key # w.key, ~Contains(v.lineage, w.key)
  PROVE  GoodParents(<<v, w>>)
<1> DEFINE V == [key : Key, lineage : Lineage]
           parents == <<v, w>>
<1>1. v \in V /\ w \in V
  BY DEF GoodVersion
<1>2. w.key \notin ToSet(v.lineage)
  BY <1>1, ContainsIs
<1> HIDE DEF V
<1>3. /\ parents \in Seq(V) /\ Len(parents) = 2
      /\ DOMAIN parents = {1, 2} /\ parents[1] = v /\ parents[2] = w
  BY <1>1
<1> HIDE DEF parents
<1>4. \A i \in DOMAIN parents : GoodVersion(parents[i])
  BY <1>3
<1> QED
  BY <1>2, <1>3, <1>4 DEF GoodParents, V, parents

\* The base of a good state is a version.
LEMMA BaseGood ==
  ASSUME NEW d, NEW s, GoodState(s, d), s.base # NoKey
  PROVE  /\ GoodVersion(BaseVersion(s))
         /\ BaseVersion(s).key = s.base /\ BaseVersion(s).lineage = s.lineage
<1>1. s.base \in Key /\ s.lineage \in Lineage /\ ValidLineage(s.base, s.lineage)
  BY DEF GoodState, State, StateValid
<1> QED
  BY <1>1 DEF GoodVersion, BaseVersion

\* A check that proposes a publish does so while none is pending, and the parents
\* it names do not descend from one another.
LEMMA ProposedParentsGood ==
  ASSUME NEW d, NEW s, GoodState(s, d), NEW t \in Texts, NEW heads, HeadsOfOthers(heads, d),
         NEW ownHead, GoodOwn(ownHead, s, d),
         NEW plan, plan = Plan(t, s, heads, ownHead), Proposes(plan)
  PROVE  s.pending = NoKey /\ GoodParents(ProposedParents(s, plan))
<1> DEFINE first == First(plan.offered)
           rest == plan.offered \ {first}
           second == First(rest)
           baseSlot == /\ plan.offered # {} /\ rest = {}
                       /\ s.base \notin {NoKey, first.key}
                       /\ ~Contains(first.lineage, s.base)
           parents == ProposedParents(s, plan)
<1>1. PlanWell(plan, t, s, heads, ownHead)
  BY PlanIs
<1>2. plan.verdict \in {"Empty", "LocalChanges", "Choose", "Conflict"}
  BY DEF Proposes
<1>3. s.pending = NoKey
  BY <1>1, <1>2 DEF PlanWell
<1>4. CASE plan.verdict = "Empty"
  <2>1. parents = <<>>
    BY <1>1, <1>4 DEF PlanWell, ProposedParents
  <2>2. GoodParents(<<>>)
    BY DEF GoodParents
  <2> QED
    BY <1>3, <2>1, <2>2
<1>5. CASE plan.verdict = "LocalChanges" /\ plan.ownStale
  <2>1. parents = <<BaseVersion(s), Version(plan.ownHead)>>
    BY <1>1, <1>5 DEF PlanWell, ProposedParents
  <2>2. /\ s.base # NoKey /\ plan.ownHead = ownHead
        /\ ownHead # NoHead /\ OwnStale(s, ownHead)
    BY <1>1, <1>5 DEF PlanWell
  <2>3. GoodVersion(BaseVersion(s)) /\ BaseVersion(s).key = s.base /\ BaseVersion(s).lineage = s.lineage
    BY <2>2, BaseGood
  <2>4. GoodVersion(Version(ownHead)) /\ Version(ownHead).key = ownHead.key
    BY <2>2 DEF GoodOwn, GoodVersion, Version, ConfigHead
  <2>5. ownHead.key \notin KnownKeys(s) /\ ownHead.key \notin ToSet(s.lineage)
    BY <2>2 DEF OwnStale
  <2>6. s.base # ownHead.key
    BY <2>2, <2>5 DEF KnownKeys
  <2>7. s.lineage \in Lineage
    BY DEF GoodState, State
  <2>8. ~Contains(s.lineage, ownHead.key)
    BY <2>5, <2>7, ContainsIs
  <2>9. GoodParents(<<BaseVersion(s), Version(ownHead)>>)
    BY <2>3, <2>4, <2>6, <2>8, TwoParents
  <2> QED
    BY <1>3, <2>1, <2>2, <2>9
<1>6. CASE plan.verdict = "LocalChanges" /\ ~plan.ownStale
  <2>1. parents = <<BaseVersion(s)>>
    BY <1>1, <1>6 DEF PlanWell, ProposedParents
  <2>2. s.base # NoKey
    BY <1>1, <1>6 DEF PlanWell
  <2> QED
    BY <1>3, <2>1, <2>2, BaseGood, OneParent
<1>7. CASE plan.verdict \in {"Choose", "Conflict"}
  <2>1. /\ GoodHeads(plan.offered)
        /\ plan.offered \subseteq MaximalConfigHeads(NewHeads(s, heads))
        /\ plan.offered # {}
        /\ \A h, o \in plan.offered : h.key.text = o.key.text => h = o
    <3> HIDE DEF first, rest, second, baseSlot, parents
    <3>1. /\ GoodHeads(plan.offered)
          /\ plan.offered \subseteq MaximalConfigHeads(NewHeads(s, heads))
      BY OfferedGood
    <3>2. plan.verdict \in {"Choose", "Conflict"} =>
              /\ plan.offered # {}
              /\ \A h, o \in plan.offered : h.key.text = o.key.text => h = o
      BY OfferedGood
    <3> QED
      BY <1>7, <3>1, <3>2
  <2>2. first \in plan.offered
    BY <2>1, FirstHead
  <2>3. GoodHeads(rest) /\ GoodVersion(Version(first))
    BY <2>1, <2>2, FewerHeads, HeadParts
  <2>4. Version(first).key = first.key /\ Version(first).lineage = first.lineage
    BY DEF Version
  <2> HIDE DEF first
  <2>5. parents = CASE rest # {} -> <<Version(first), Version(second)>>
                    [] baseSlot -> <<Version(first), BaseVersion(s)>>
                    [] OTHER -> <<Version(first)>>
    BY <1>7 DEF ProposedParents, first
  <2>6. CASE rest # {}
    <3>1. second \in rest
      BY <2>3, <2>6, FirstHead
    <3>2. GoodVersion(Version(second)) /\ Version(second).key = second.key
      BY <2>3, <3>1, HeadParts DEF Version
    <3>3. second \in plan.offered /\ first # second
      BY <3>1
    <3> HIDE DEF second, rest
    <3>4. first.key # second.key /\ first.install # second.install
      BY <2>1, <2>2, <3>3 DEF GoodHeads
    <3>5. ~Contains(first.lineage, second.key)
      BY <2>1, <2>2, <3>3, <3>4 DEF MaximalConfigHeads, HeldByAnother
    <3>6. GoodParents(<<Version(first), Version(second)>>)
      BY <2>3, <2>4, <3>2, <3>4, <3>5, TwoParents
    <3>7. parents = <<Version(first), Version(second)>>
      BY <2>5, <2>6
    <3> QED
      BY <1>3, <3>6, <3>7
  <2>7. CASE rest = {} /\ baseSlot
    <3>1. s.base # NoKey /\ first.key # s.base /\ ~Contains(first.lineage, s.base)
      BY <2>7
    <3>2. GoodVersion(BaseVersion(s)) /\ BaseVersion(s).key = s.base
      BY <3>1, BaseGood
    <3>3. GoodParents(<<Version(first), BaseVersion(s)>>)
      BY <2>3, <2>4, <3>1, <3>2, TwoParents
    <3>4. parents = <<Version(first), BaseVersion(s)>>
      <4> HIDE DEF rest, baseSlot
      <4> QED
        BY <2>5, <2>7
    <3> QED
      BY <1>3, <3>3, <3>4
  <2>8. CASE rest = {} /\ ~baseSlot
    <3>1. parents = <<Version(first)>>
      <4> HIDE DEF rest, baseSlot
      <4> QED
        BY <2>5, <2>8
    <3> QED
      BY <1>3, <2>3, <3>1, OneParent
  <2> QED
    BY <2>6, <2>7, <2>8
<1> QED
  BY <1>2, <1>4, <1>5, <1>6, <1>7

\* An answer names a text, takes in heads of that text and passes by others, all
\* of them heads of the check.
LEMMA AnswersGood ==
  ASSUME NEW d, NEW s, GoodState(s, d), NEW t \in Texts, NEW heads, HeadsOfOthers(heads, d),
         NEW ownHead, NEW plan, plan = Plan(t, s, heads, ownHead),
         NEW c \in Answers(s, t, plan)
  PROVE  /\ c.text \in Texts
         /\ GoodHeads(c.adopt) /\ \A h \in c.adopt : h.key.text = c.text
         /\ GoodHeads(c.seen)
<1>1. PICK pick \in Picks(plan) : c = PlanConfigChoice(s, t, plan, pick)
  BY DEF Answers
<1>2. plan.outcomes = Classify(t, s, heads).outcomes
  BY PlanIs DEF PlanWell
<1>3. \A kinds : GoodHeads(HeadsOf(plan.outcomes, kinds))
  BY <1>2, HeadsOfGood
<1>4. GoodHeads({})
  <2>1. GoodHeads(heads) /\ {} \in SUBSET heads
    BY DEF HeadsOfOthers
  <2> QED
    BY <2>1, FewerHeads
<1>5. CASE c = KeepChoice(s, t, plan)
  <2>1. c.text = t /\ c.adopt = {} /\ c.seen = {}
    BY <1>5 DEF KeepChoice
  <2> QED
    BY <1>4, <2>1
<1>6. CASE c = TakeChoice(s, t, plan, pick)
  <2> DEFINE written == IF pick = NoKey THEN t ELSE pick.text
             adopt == Adopted(plan, written)
             seen == Beside(plan, adopt)
             choice == [accepted |-> TRUE, text |-> written, adopt |-> adopt,
                        seen |-> seen, publish |-> FALSE, parents |-> {}]
  <2>1. written \in Texts
    <3>1. pick = NoKey \/ \E h \in plan.offered : pick = h.key
      BY <1>1 DEF Picks
    <3>2. GoodHeads(plan.offered)
      BY OfferedGood
    <3>3. \A h \in plan.offered : h.key.text \in Texts
      BY <3>2, HeadParts
    <3> QED
      BY <3>1, <3>3
  <2> HIDE DEF written
  <2>2. GoodHeads(adopt) /\ \A h \in adopt : h.key.text = written
    <3>1. adopt \in SUBSET HeadsOf(plan.outcomes, {"Same", "Ahead", "Concurrent", "Unrelated"})
      BY DEF Adopted
    <3>2. \A h \in adopt : h.key.text = written
      BY DEF Adopted
    <3> QED
      BY <1>3, <3>1, <3>2, FewerHeads
  <2> HIDE DEF adopt
  <2>3. GoodHeads(seen)
    <3>1. PICK kinds : seen \in SUBSET HeadsOf(plan.outcomes, kinds)
      BY DEF Beside
    <3> QED
      BY <1>3, <3>1, FewerHeads
  <2> HIDE DEF seen
  <2>4. c.text = written /\ c.adopt = adopt /\ c.seen = seen
    <3>1. CASE c = choice
      BY <3>1
    <3>2. CASE c = Promised(s, plan, pick, choice)
      <4> DEFINE asked == [choice EXCEPT !.accepted = CanAdopt(s, choice.text, choice.adopt)]
      <4>1. /\ asked.text = written /\ asked.adopt = adopt /\ asked.seen = seen
            /\ DOMAIN asked = {"accepted", "text", "adopt", "seen", "publish", "parents"}
        OBVIOUS
      <4>2. \E next, fresh : c = Promising(asked, pick, next, fresh)
        BY <3>2 DEF Promised
      <4> HIDE DEF asked
      <4>3. PICK next, fresh : c = Promising(asked, pick, next, fresh)
        BY <4>2
      <4>4. c.text = asked.text /\ c.adopt = asked.adopt /\ c.seen = asked.seen
        BY <4>1, <4>3 DEF Promising
      <4> QED
        BY <4>1, <4>4
    <3>3. c = choice \/ c = Promised(s, plan, pick, choice)
      BY <1>6 DEF TakeChoice, written, adopt, seen
    <3> QED
      BY <3>1, <3>2, <3>3
  <2> QED
    BY <2>1, <2>2, <2>3, <2>4
<1> QED
  BY <1>1, <1>5, <1>6 DEF PlanConfigChoice

---------------------------------------------------------------------------
(* A check again, after its answer was carried out.                        *)

\* Heads marked as seen are the only ones no longer new.
LEMMA NewHeadsLeft ==
  ASSUME NEW s \in State, NEW heads, GoodHeads(heads), NEW some \in SUBSET heads
  PROVE  NewHeads(RaiseSeen(s, some), heads) = NewHeads(s, heads) \ some
<1> DEFINE new == RaiseSeen(s, some)
<1>1. GoodHeads(some)
  BY FewerHeads
<1>2. /\ \A i \in Installs : /\ s.seen[i] <= new.seen[i]
                             /\ \/ new.seen[i] = s.seen[i]
                                \/ \E h \in some : h.install = i /\ new.seen[i] = h.seq
      /\ \A h \in some : h.seq <= new.seen[h.install]
      /\ new \in State
  BY <1>1, SeenRaised
<1>3. \A h \in heads : /\ h.install \in Installs /\ h.seq \in Int
                       /\ s.seen[h.install] \in Int /\ new.seen[h.install] \in Int
  BY <1>2, HeadParts DEF State
<1> HIDE DEF new
<1>4. ASSUME NEW h \in heads, h.seq > new.seen[h.install]
      PROVE  h.seq > s.seen[h.install] /\ h \notin some
  BY <1>2, <1>3, <1>4
<1>5. ASSUME NEW h \in heads, h.seq > s.seen[h.install], h \notin some
      PROVE  h.seq > new.seen[h.install]
  <2>1. CASE new.seen[h.install] = s.seen[h.install]
    BY <1>5, <2>1
  <2>2. CASE \E o \in some : o.install = h.install
    BY <1>5, <2>2 DEF GoodHeads
  <2> QED
    BY <1>2, <1>3, <2>1, <2>2
<1> QED
  BY <1>4, <1>5 DEF NewHeads, new

\* Nothing seen, nothing changed.
LEMMA NothingSeen ==
  ASSUME NEW s \in State
  PROVE  RaiseSeen(s, {}) = s
<1> DEFINE new == RaiseSeen(s, {})
<1>1. GoodHeads({})
  BY FS_EmptySet DEF GoodHeads
<1>2. /\ new \in State /\ new = [s EXCEPT !.seen = new.seen]
      /\ \A i \in Installs : new.seen[i] = s.seen[i]
  BY <1>1, SeenRaised
<1> HIDE DEF new
<1>3. new.seen = s.seen
  BY <1>2 DEF State
<1>4. new = s
  BY <1>2, <1>3 DEF State
<1> QED
  BY <1>4 DEF new

\* What Classify makes of the new heads, when all of them can be read.
OutcomesOf(t, s, new) ==
    LET maximal == MaximalConfigHeads(new)
    IN  {[head |-> h, kind |-> "Stale"] : h \in new \ maximal}
        \cup {[head |-> h, kind |-> KindOf(t, s, h)] : h \in maximal}

SplitOf(t, new) ==
    LET contents == {h.key.text : h \in MaximalConfigHeads(new)}
    IN  Cardinality(contents) > 1 /\ t \notin contents

\* Classify looks at the new heads only.
LEMMA ClassifyIs ==
  ASSUME NEW d, NEW s, GoodState(s, d), NEW t, NEW heads, HeadsOfOthers(heads, d)
  PROVE  Classify(t, s, heads) = [outcomes |-> OutcomesOf(t, s, NewHeads(s, heads)),
                                  split |-> SplitOf(t, NewHeads(s, heads))]
<1> DEFINE new == NewHeads(s, heads)
           maximal == MaximalConfigHeads(new)
           outcome(h, kind) == [head |-> h, kind |-> kind]
<1>1. GoodHeads(heads) /\ \A h \in heads : h.install # s.install
  BY DEF HeadsOfOthers, GoodState
<1>2. UnseenHeads(s, heads) = new
  <2>1. \A h \in heads : h.seq \in Int
    BY <1>1, HeadParts
  <2>2. \A h, o \in heads : o.install = h.install => o.seq <= h.seq
    BY <1>1, <2>1 DEF GoodHeads
  <2> QED
    BY <1>1, <2>2 DEF UnseenHeads, NewHeads
<1>3. new \subseteq heads
  BY DEF NewHeads
<1>4. Readable(new) = new
  BY <1>1, <1>3 DEF Readable, GoodHeads
<1> HIDE DEF new
<1>5. {outcome(h, "Invalid") : h \in new \ new} = {}
  OBVIOUS
<1> HIDE DEF maximal
<1>6. Classify(t, s, heads) =
        [outcomes |-> {outcome(h, "Invalid") : h \in new \ new}
                 \cup {outcome(h, "Stale") : h \in new \ maximal}
                 \cup {outcome(h, KindOf(t, s, h)) : h \in maximal},
         split |-> /\ Cardinality({h.key.text : h \in maximal}) > 1
                   /\ t \notin {h.key.text : h \in maximal}]
  BY <1>2, <1>4 DEF Classify, maximal
<1>7. OutcomesOf(t, s, new) = {outcome(h, "Stale") : h \in new \ maximal}
                          \cup {outcome(h, KindOf(t, s, h)) : h \in maximal}
  BY DEF OutcomesOf, maximal
<1>8. SplitOf(t, new) = /\ Cardinality({h.key.text : h \in maximal}) > 1
                        /\ t \notin {h.key.text : h \in maximal}
  BY DEF SplitOf, maximal
<1> QED
  BY <1>5, <1>6, <1>7, <1>8 DEF new

\* Where there is a base that the install's own chat has, heads it has seen make
\* no difference to a check.
LEMMA SamePlan ==
  ASSUME NEW d, NEW s, GoodState(s, d), s.base # NoKey, ~s.unpublished, NEW t,
         NEW heads, HeadsOfOthers(heads, d), NEW more, HeadsOfOthers(more, d),
         NewHeads(s, heads) = NewHeads(s, more), NEW ownHead
  PROVE  Plan(t, s, heads, ownHead) = Plan(t, s, more, ownHead)
<1>1. Classify(t, s, heads) = Classify(t, s, more)
  BY ClassifyIs
<1>2. \A kinds, split, several :
        Verdict(t, s, heads, ownHead, kinds, split, several)
          = Verdict(t, s, more, ownHead, kinds, split, several)
  BY DEF Verdict
<1> QED
  BY <1>1, <1>2 DEF Plan, PlanClassified, PlanFor

\* The outcomes of a check, head by head.
OutcomesWell(outcomes, t, s, new) ==
    LET maximal == MaximalConfigHeads(new)
    IN  /\ {o.head : o \in outcomes} = new
        /\ \A kinds : HeadsOf(outcomes, kinds) =
             {h \in new : \/ h \in maximal /\ KindOf(t, s, h) \in kinds
                          \/ h \notin maximal /\ "Stale" \in kinds}

\* One outcome for each new head.
LEMMA OutcomesAre ==
  ASSUME NEW d, NEW s, GoodState(s, d), NEW t, NEW heads, HeadsOfOthers(heads, d)
  PROVE  OutcomesWell(Classify(t, s, heads).outcomes, t, s, NewHeads(s, heads))
<1> DEFINE new == NewHeads(s, heads)
           maximal == MaximalConfigHeads(new)
           outcomes == Classify(t, s, heads).outcomes
           outcome(h, kind) == [head |-> h, kind |-> kind]
<1>1. outcomes = OutcomesOf(t, s, new)
  BY ClassifyIs
<1>2. maximal \subseteq new
  BY DEF MaximalConfigHeads
<1> HIDE DEF new, outcomes
<1>3. outcomes = {outcome(h, "Stale") : h \in new \ maximal}
            \cup {outcome(h, KindOf(t, s, h)) : h \in maximal}
  BY <1>1 DEF OutcomesOf
<1> HIDE DEF maximal
<1>4. \A o \in outcomes : \/ o.head \in new \ maximal /\ o.kind = "Stale"
                          \/ o.head \in maximal /\ o.kind = KindOf(t, s, o.head)
  BY <1>3
<1>5. \A h \in new \ maximal : \E o \in outcomes : o.head = h /\ o.kind = "Stale"
  <2> TAKE h \in new \ maximal
  <2>1. outcome(h, "Stale") \in outcomes
    BY <1>3
  <2>2. outcome(h, "Stale").head = h /\ outcome(h, "Stale").kind = "Stale"
    OBVIOUS
  <2> HIDE DEF outcome
  <2> QED
    BY <2>1, <2>2
<1>6. \A h \in maximal : \E o \in outcomes : o.head = h /\ o.kind = KindOf(t, s, h)
  <2> TAKE h \in maximal
  <2> DEFINE kind == KindOf(t, s, h)
  <2>1. outcome(h, kind) \in outcomes
    BY <1>3
  <2>2. outcome(h, kind).head = h /\ outcome(h, kind).kind = kind
    OBVIOUS
  <2> HIDE DEF outcome
  <2> QED
    BY <2>1, <2>2
<1>7. {o.head : o \in outcomes} = new
  BY <1>2, <1>4, <1>5, <1>6
<1>8. ASSUME NEW kinds
      PROVE  HeadsOf(outcomes, kinds) =
               {h \in new : \/ h \in maximal /\ KindOf(t, s, h) \in kinds
                            \/ h \notin maximal /\ "Stale" \in kinds}
  BY <1>2, <1>4, <1>5, <1>6 DEF HeadsOf
<1> QED
  BY <1>7, <1>8 DEF OutcomesWell, maximal, new, outcomes

\* The kinds of a check are those of heads no other was built on.
LEMMA KindsAre ==
  ASSUME NEW d, NEW s, GoodState(s, d), NEW t, NEW heads, HeadsOfOthers(heads, d),
         NEW kind, kind # "Stale"
  PROVE  kind \in Kinds(t, s, heads) <=>
           \E h \in MaximalConfigHeads(NewHeads(s, heads)) : KindOf(t, s, h) = kind
<1> DEFINE new == NewHeads(s, heads)
           maximal == MaximalConfigHeads(new)
           outcomes == Classify(t, s, heads).outcomes
<1>1. HeadsOf(outcomes, {kind}) = {h \in new : \/ h \in maximal /\ KindOf(t, s, h) \in {kind}
                                               \/ h \notin maximal /\ "Stale" \in {kind}}
  BY OutcomesAre DEF OutcomesWell
<1>2. kind \in Kinds(t, s, heads) <=> HeadsOf(outcomes, {kind}) # {}
  BY DEF Kinds, HeadsOf
<1>3. maximal \subseteq new
  BY DEF MaximalConfigHeads
<1> HIDE DEF new, maximal, outcomes
<1>4. HeadsOf(outcomes, {kind}) # {} <=> \E h \in maximal : KindOf(t, s, h) = kind
  BY <1>1, <1>3
<1> QED
  BY <1>2, <1>4 DEF maximal, new

\* The state once the file holds text w.
After(s, w, plan) == Recorded(s, w, Adopted(plan, w), Beside(plan, Adopted(plan, w)))

\* What is left of a check are the heads of other contents that were not Stale.
LeftWell(next, plan, t, s, heads, w) ==
    LET maximal == MaximalConfigHeads(NewHeads(s, heads))
        left == NewHeads(next, heads)
    IN  /\ left \subseteq maximal
        /\ \A h \in left : /\ KindOf(t, s, h) \in {"Same"} \cup OfferedKinds
                           /\ h.key.text # w
                           /\ plan.verdict = "UpdateReady" => KindOf(t, s, h) # "Same"
        /\ \A h \in maximal : KindOf(t, s, h) \in OfferedKinds /\ h.key.text # w => h \in left

\* The heads an answer takes in.
LEMMA AdoptedAre ==
  ASSUME NEW d, NEW s, GoodState(s, d), NEW t, NEW heads, HeadsOfOthers(heads, d),
         NEW ownHead, NEW plan, plan = Plan(t, s, heads, ownHead), NEW w
  PROVE  /\ Adopted(plan, w) = {h \in MaximalConfigHeads(NewHeads(s, heads)) :
                                  KindOf(t, s, h) # "Stale" /\ h.key.text = w}
         /\ Adopted(plan, w) \subseteq heads
         /\ GoodHeads(Adopted(plan, w))
<1> DEFINE new == NewHeads(s, heads)
           maximal == MaximalConfigHeads(new)
           kinds == {"Same", "Ahead", "Concurrent", "Unrelated"}
<1>1. plan.outcomes = Classify(t, s, heads).outcomes
  BY PlanIs DEF PlanWell
<1>2. HeadsOf(plan.outcomes, kinds) = {h \in new : \/ h \in maximal /\ KindOf(t, s, h) \in kinds
                                                   \/ h \notin maximal /\ "Stale" \in kinds}
  BY <1>1, OutcomesAre DEF OutcomesWell
<1>3. \A h : KindOf(t, s, h) \in kinds <=> KindOf(t, s, h) # "Stale"
  BY KindIs
<1>4. maximal \subseteq new
  BY DEF MaximalConfigHeads
<1>5. Adopted(plan, w) = {h \in HeadsOf(plan.outcomes, kinds) : h.key.text = w}
  BY DEF Adopted
<1>6. new \subseteq heads /\ GoodHeads(heads)
  BY DEF NewHeads, HeadsOfOthers
<1> HIDE DEF maximal, new
<1>7. Adopted(plan, w) = {h \in maximal : KindOf(t, s, h) # "Stale" /\ h.key.text = w}
  BY <1>2, <1>3, <1>4, <1>5
<1>8. Adopted(plan, w) \subseteq heads
  BY <1>4, <1>6, <1>7
<1>9. GoodHeads(Adopted(plan, w))
  BY <1>6, <1>8, FewerHeads
<1> QED
  BY <1>7, <1>8, <1>9 DEF maximal, new

\* An answer that takes heads in leaves a good state, and of the check what it
\* neither took in nor passed by.
LEMMA LeftAfter ==
  ASSUME NEW d, NEW s, GoodState(s, d), NEW t, NEW heads, HeadsOfOthers(heads, d),
         NEW ownHead, NEW plan, plan = Plan(t, s, heads, ownHead),
         NEW w \in Texts, Adopted(plan, w) # {}
  PROVE  /\ GoodState(After(s, w, plan), d)
         /\ After(s, w, plan).base # NoKey /\ After(s, w, plan).pending = s.pending
         /\ AdoptedKnows(After(s, w, plan), s, w, Adopted(plan, w))
         /\ AdoptedKept(After(s, w, plan), s, w, Adopted(plan, w))
         /\ LeftWell(After(s, w, plan), plan, t, s, heads, w)
<1> DEFINE new == NewHeads(s, heads)
           maximal == MaximalConfigHeads(new)
           adopt == Adopted(plan, w)
           seen == Beside(plan, adopt)
           past == IF plan.verdict = "UpdateReady" THEN {"Stale", "Same"} ELSE {"Stale"}
           old == AdoptConfigHeads(s, w, adopt)
           next == After(s, w, plan)
           left == NewHeads(next, heads)
<1>1. /\ adopt = {h \in maximal : KindOf(t, s, h) # "Stale" /\ h.key.text = w}
      /\ adopt \subseteq heads /\ GoodHeads(adopt)
  BY AdoptedAre
<1>2. /\ maximal \subseteq new /\ new \subseteq heads /\ GoodHeads(heads)
  BY DEF MaximalConfigHeads, NewHeads, HeadsOfOthers
<1>3. HeadsOf(plan.outcomes, past) = {h \in new : \/ h \in maximal /\ KindOf(t, s, h) \in past
                                                  \/ h \notin maximal /\ "Stale" \in past}
  <2>1. plan.outcomes = Classify(t, s, heads).outcomes
    BY PlanIs DEF PlanWell
  <2> HIDE DEF past
  <2> QED
    BY <2>1, OutcomesAre DEF OutcomesWell
<1>4. seen = {h \in HeadsOf(plan.outcomes, past) : \A a \in adopt : a.install # h.install}
  BY DEF Beside
<1>5. /\ "Stale" \in past /\ past \cap OfferedKinds = {}
      /\ plan.verdict = "UpdateReady" => "Same" \in past
  BY DEF OfferedKinds
<1>6. next = RaiseSeen(old, seen)
  BY DEF After, Recorded
<1> HIDE DEF new, maximal, past, adopt, seen
<1>7. seen \subseteq heads /\ GoodHeads(seen)
  <2>1. seen \in SUBSET heads
    BY <1>2, <1>3, <1>4
  <2> QED
    BY <1>2, <2>1, FewerHeads
<1>8. adopt # {} /\ \A h \in adopt : h.key.text = w
  BY <1>1 DEF adopt
<1>9. /\ GoodState(old, d) /\ old.base # NoKey /\ old.pending = s.pending
      /\ AdoptedKnows(old, s, w, adopt) /\ old.seen = RaiseSeen(s, adopt).seen
      /\ AdoptedKept(old, s, w, adopt)
  BY <1>1, <1>8, AdoptionGood, AdoptionKnows
<1>10. s \in State /\ old \in State
  BY <1>9 DEF GoodState
<1> HIDE DEF old, next
<1>11. next \in State /\ next = [old EXCEPT !.seen = next.seen]
  BY <1>6, <1>7, <1>10, SeenRaised
<1>12. /\ next.install = old.install /\ next.base = old.base /\ next.lineage = old.lineage
       /\ next.equiv = old.equiv /\ next.pending = old.pending
       /\ next.unpublished = old.unpublished
  BY <1>10, <1>11 DEF State
<1>13. GoodState(next, d) /\ next.base # NoKey /\ next.pending = s.pending
  BY <1>9, <1>11, <1>12 DEF GoodState, StateValid
<1>14. /\ AdoptedKnows(next, s, w, adopt)
       /\ AdoptedKept(next, s, w, adopt)
  BY <1>9, <1>12 DEF AdoptedKnows, AdoptedKept, Accounts, KnownKeys
<1>15. left = (new \ adopt) \ seen
  <2>1. NewHeads(RaiseSeen(s, adopt), heads) = new \ adopt
    BY <1>1, <1>2, <1>10, NewHeadsLeft DEF new
  <2>2. NewHeads(old, heads) = NewHeads(RaiseSeen(s, adopt), heads)
    BY <1>9 DEF NewHeads
  <2>3. NewHeads(RaiseSeen(old, seen), heads) = NewHeads(old, heads) \ seen
    BY <1>2, <1>7, <1>10, NewHeadsLeft
  <2> QED
    BY <1>6, <2>1, <2>2, <2>3
<1> HIDE DEF left
<1>16. ASSUME NEW h \in left
       PROVE  h \notin HeadsOf(plan.outcomes, past)
  <2> SUFFICES ASSUME h \in HeadsOf(plan.outcomes, past) PROVE FALSE
    OBVIOUS
  <2>1. PICK a \in adopt : a.install = h.install
    BY <1>4, <1>15, <1>16
  <2>2. a = h
    BY <1>1, <1>2, <1>15, <1>16, <2>1 DEF GoodHeads
  <2> QED
    BY <1>15, <1>16, <2>1, <2>2
<1>17. ASSUME NEW h \in left
       PROVE  /\ h \in maximal /\ KindOf(t, s, h) \in {"Same"} \cup OfferedKinds
              /\ h.key.text # w
              /\ plan.verdict = "UpdateReady" => KindOf(t, s, h) # "Same"
  <2>1. h \in new /\ h \notin adopt
    BY <1>15, <1>17
  <2>2. h \in maximal /\ KindOf(t, s, h) \notin past
    BY <1>3, <1>5, <1>16, <1>17, <2>1
  <2>3. KindOf(t, s, h) # "Stale"
    BY <1>5, <2>2
  <2>4. KindOf(t, s, h) \in {"Same"} \cup OfferedKinds
    BY <2>3, KindIs DEF OfferedKinds
  <2> QED
    BY <1>1, <1>5, <2>1, <2>2, <2>3, <2>4
<1>18. ASSUME NEW h \in maximal, KindOf(t, s, h) \in OfferedKinds, h.key.text # w
       PROVE  h \in left
  <2>1. h \notin HeadsOf(plan.outcomes, past)
    BY <1>3, <1>5, <1>18
  <2> QED
    BY <1>1, <1>2, <1>4, <1>15, <1>18, <2>1
<1>19. LeftWell(next, plan, t, s, heads, w)
  BY <1>17, <1>18 DEF LeftWell, left, maximal, new
<1> QED
  BY <1>13, <1>14, <1>19 DEF next, adopt

\* An update has one content.
LEMMA AheadAlike ==
  ASSUME NEW d, NEW s, GoodState(s, d), NEW t, NEW heads, HeadsOfOthers(heads, d),
         NEW ownHead, NEW plan, plan = Plan(t, s, heads, ownHead),
         plan.verdict = "UpdateReady"
  PROVE  LET ahead == HeadsOf(Classify(t, s, heads).outcomes, {"Ahead"})
         IN  /\ plan.offered = {First(ahead)}
             /\ First(ahead) \in ahead
             /\ \A h \in ahead : h.key.text = First(ahead).key.text
<1> DEFINE outcomes == Classify(t, s, heads).outcomes
           some == HeadsOf(outcomes, OfferedKinds)
           ahead == HeadsOf(outcomes, {"Ahead"})
<1>1. PlanWell(plan, t, s, heads, ownHead)
  BY PlanIs
<1>2. /\ plan.offered = {First(ahead)}
      /\ "Ahead" \in Kinds(t, s, heads) /\ ~Several(t, s, heads)
  BY <1>1 DEF PlanWell
<1>3. ahead \subseteq some /\ GoodHeads(ahead) /\ GoodHeads(some)
  <2>1. ahead \subseteq some
    BY DEF HeadsOf, OfferedKinds
  <2> QED
    BY <2>1, HeadsOfGood
<1>4. ahead # {}
  BY <1>2 DEF Kinds, HeadsOf
<1> DEFINE f == First(ahead)
<1>5. f \in ahead
  BY <1>3, <1>4, FirstHead
<1> HIDE DEF f, ahead, some
<1>6. Representatives(some) \subseteq some /\ IsFiniteSet(Representatives(some))
  <2>1. Representatives(some) \in SUBSET some
    BY DEF Representatives
  <2> QED
    BY <1>3, <2>1, FewerHeads DEF GoodHeads
<1>7. \A q, r \in Representatives(some) : q = r
  <2>1. ~(Cardinality(Representatives(some)) > 1)
    BY <1>2 DEF Several, Candidates, some
  <2> QED
    BY <1>6, <2>1, MoreThanOne
<1>8. ASSUME NEW h \in ahead PROVE h.key.text = f.key.text
  <2>1. /\ \E r \in Representatives(some) : r.key.text = h.key.text
        /\ \E r \in Representatives(some) : r.key.text = f.key.text
    BY <1>3, <1>5, <1>8, ContentRepresented
  <2> QED
    BY <1>7, <2>1
<1> QED
  BY <1>2, <1>5, <1>8 DEF f, ahead, outcomes

\* After an update or an adoption no head is new.
LEMMA NoneLeft ==
  ASSUME NEW d, NEW s, GoodState(s, d), NEW t \in Texts, NEW heads, HeadsOfOthers(heads, d),
         NEW ownHead, NEW plan, plan = Plan(t, s, heads, ownHead), NEW w,
         \/ plan.verdict = "Adopt" /\ w = t
         \/ plan.verdict = "UpdateReady" /\ \E h \in plan.offered : w = h.key.text
  PROVE  /\ w \in Texts /\ Adopted(plan, w) # {}
         /\ NewHeads(After(s, w, plan), heads) = {}
<1> DEFINE maximal == MaximalConfigHeads(NewHeads(s, heads))
           kinds == Kinds(t, s, heads)
           left == NewHeads(After(s, w, plan), heads)
<1>1. PlanWell(plan, t, s, heads, ownHead)
  BY PlanIs
<1>2. Adopted(plan, w) = {h \in maximal : KindOf(t, s, h) # "Stale" /\ h.key.text = w}
  BY AdoptedAre
<1>3. \A kind : kind # "Stale" => (kind \in kinds <=> \E h \in maximal : KindOf(t, s, h) = kind)
  BY KindsAre
<1>4. Adopted(plan, w) # {} /\ w \in Texts =>
        \A h \in left : /\ h \in maximal /\ KindOf(t, s, h) \in {"Same"} \cup OfferedKinds
                        /\ h.key.text # w
                        /\ plan.verdict = "UpdateReady" => KindOf(t, s, h) # "Same"
  BY LeftAfter DEF LeftWell
<1> HIDE DEF left
<1>5. CASE plan.verdict = "Adopt" /\ w = t
  <2>1. "Same" \in kinds /\ kinds \cap OfferedKinds = {}
    BY <1>1, <1>5 DEF PlanWell
  <2>2. PICK h \in maximal : KindOf(t, s, h) = "Same"
    BY <1>3, <2>1
  <2>3. h \in Adopted(plan, w)
    BY <1>2, <1>5, <2>2, KindIs
  <2>4. ASSUME NEW o \in left PROVE FALSE
    <3>1. o \in maximal /\ KindOf(t, s, o) \in {"Same"} \cup OfferedKinds /\ o.key.text # w
      BY <1>4, <1>5, <2>3, <2>4
    <3>2. KindOf(t, s, o) # "Same"
      BY <1>5, <3>1, KindIs
    <3>3. KindOf(t, s, o) \in OfferedKinds /\ KindOf(t, s, o) # "Stale"
      BY <3>1, <3>2 DEF OfferedKinds
    <3> QED
      BY <1>3, <2>1, <3>1, <3>3
  <2> QED
    BY <1>5, <2>3, <2>4 DEF left
<1>6. CASE plan.verdict = "UpdateReady" /\ \E h \in plan.offered : w = h.key.text
  <2> DEFINE ahead == HeadsOf(Classify(t, s, heads).outcomes, {"Ahead"})
             f == First(ahead)
  <2>1. /\ plan.offered = {f} /\ f \in ahead /\ \A h \in ahead : h.key.text = f.key.text
    BY <1>6, AheadAlike
  <2>2. w = f.key.text
    BY <1>6, <2>1
  <2>3. ahead = {h \in maximal : KindOf(t, s, h) = "Ahead"}
    <3>1. ahead = {h \in NewHeads(s, heads) : \/ h \in maximal /\ KindOf(t, s, h) \in {"Ahead"}
                                              \/ h \notin maximal /\ "Stale" \in {"Ahead"}}
      BY OutcomesAre DEF OutcomesWell
    <3>2. maximal \subseteq NewHeads(s, heads)
      BY DEF MaximalConfigHeads
    <3> HIDE DEF ahead, maximal
    <3> QED
      BY <3>1, <3>2
  <2>4. GoodHeads(ahead)
    BY HeadsOfGood
  <2> HIDE DEF f, ahead
  <2>5. w \in Texts
    BY <2>1, <2>2, <2>4, HeadParts
  <2>6. f \in Adopted(plan, w)
    BY <1>2, <2>1, <2>2, <2>3
  <2>7. ASSUME NEW o \in left PROVE FALSE
    <3>1. /\ o \in maximal /\ KindOf(t, s, o) \in OfferedKinds /\ o.key.text # w
      BY <1>4, <1>6, <2>5, <2>6, <2>7
    <3>2. KindOf(t, s, o) \in kinds
      BY <1>3, <3>1 DEF OfferedKinds
    <3>3. "Concurrent" \notin kinds /\ "Unrelated" \notin kinds
      BY <1>1, <1>6 DEF PlanWell
    <3>4. KindOf(t, s, o) = "Ahead"
      BY <3>1, <3>2, <3>3 DEF OfferedKinds
    <3> QED
      BY <2>1, <2>2, <2>3, <3>1, <3>4
  <2> QED
    BY <2>5, <2>6, <2>7 DEF left
<1> QED
  BY <1>5, <1>6

\* An answer is accepted, and a fresh check of the same heads finds what it said.
AnswerKept(c, plan, s, heads, ownHead) ==
    /\ c.accepted
    /\ c.adopt # {} => CanAdopt(s, c.text, c.adopt)
    /\ Kept(plan.verdict, c, Completed(s, c),
            Plan(c.text, Completed(s, c), heads, ownHead))

\* Keeping the text publishes what the check proposed: nothing else changes.
LEMMA KeepKept ==
  ASSUME NEW s \in State, NEW t, NEW heads, NEW ownHead,
         NEW plan, plan = Plan(t, s, heads, ownHead), Proposes(plan)
  PROVE  AnswerKept(KeepChoice(s, t, plan), plan, s, heads, ownHead)
<1> DEFINE c == KeepChoice(s, t, plan)
<1>1. /\ c.accepted /\ c.text = t /\ c.adopt = {} /\ c.seen = {} /\ c.publish = TRUE
      /\ c.parents = KeysOf(ProposedParents(s, plan))
  BY DEF KeepChoice
<1> HIDE DEF c
<1>2. Completed(s, c) = s
  BY <1>1, NothingSeen DEF Completed, Recorded
<1>3. plan.verdict \notin {"UpdateReady", "Adopt"}
  BY DEF Proposes
<1>4. c.publish = Proposes(plan)
  BY <1>1 DEF Proposes
<1>5. Kept(plan.verdict, c, s, plan)
  BY <1>1, <1>3, <1>4 DEF Kept
<1> QED
  BY <1>1, <1>2, <1>5 DEF AnswerKept, c

\* The heads taken in may be adopted.
LEMMA TakenAccepted ==
  ASSUME NEW d, NEW s, GoodState(s, d), s.pending = NoKey,
         NEW t, NEW heads, HeadsOfOthers(heads, d),
         NEW ownHead, NEW plan, plan = Plan(t, s, heads, ownHead),
         NEW w, Adopted(plan, w) # {}
  PROVE  CanAdopt(s, w, Adopted(plan, w))
<1>1. Adopted(plan, w) \subseteq heads /\ \A h \in Adopted(plan, w) : h.key.text = w
  BY AdoptedAre
<1>2. \A h \in heads : h.install # d /\ ValidLineage(h.key, h.lineage)
  BY DEF HeadsOfOthers, GoodHeads
<1>3. s.install = d /\ StateValid(s)
  BY DEF GoodState
<1> QED
  BY <1>1, <1>2, <1>3 DEF CanAdopt

\* What a check finds when no head is new to an install that has a base and
\* nothing pending.
LEMMA NothingNew ==
  ASSUME NEW d, NEW s, GoodState(s, d), s.base # NoKey, s.pending = NoKey,
         NEW t, NEW heads, HeadsOfOthers(heads, d), NewHeads(s, heads) = {},
         NEW ownHead, GoodOwn(ownHead, s, d)
  PROVE  Plan(t, s, heads, ownHead).verdict \in {"UpToDate", "LocalChanges"}
<1> DEFINE plan == Plan(t, s, heads, ownHead)
           kinds == Kinds(t, s, heads)
           some == HeadsOf(Classify(t, s, heads).outcomes, OfferedKinds)
<1>1. PlanWell(plan, t, s, heads, ownHead)
  BY PlanIs
<1>2. plan.verdict # "Invalid"
  BY PlanNeverInvalid
<1>3. MaximalConfigHeads({}) = {}
  BY DEF MaximalConfigHeads
<1>4. "Concurrent" \notin kinds /\ "Unrelated" \notin kinds /\ "Ahead" \notin kinds /\ "Same" \notin kinds
  BY <1>3, KindsAre
<1>5. some = {}
  BY HeadsOfGood
<1> HIDE DEF some
<1>6. ~Several(t, s, heads)
  <2>1. Representatives({}) = {}
    BY DEF Representatives
  <2>2. Candidates(t, s, heads) = {}
    BY <1>5, <2>1 DEF Candidates, some
  <2>3. Cardinality({}) = 0
    BY FS_EmptySet
  <2> QED
    BY <2>2, <2>3 DEF Several
<1> HIDE DEF plan, kinds
<1> QED
  BY <1>1, <1>2, <1>4, <1>6 DEF PlanWell, plan, kinds

\* The answer that takes in the heads of a text.
TakenChoice(plan, w) ==
    [accepted |-> TRUE, text |-> w, adopt |-> Adopted(plan, w),
     seen |-> Beside(plan, Adopted(plan, w)), publish |-> FALSE, parents |-> {}]

\* An update or an adoption leaves nothing to choose.
LEMMA TakenKept ==
  ASSUME NEW d, NEW s, GoodState(s, d), NEW t \in Texts, NEW heads, HeadsOfOthers(heads, d),
         NEW ownHead, GoodOwn(ownHead, s, d), NEW plan, plan = Plan(t, s, heads, ownHead),
         NEW w,
         \/ plan.verdict = "Adopt" /\ w = t
         \/ plan.verdict = "UpdateReady" /\ \E h \in plan.offered : w = h.key.text
  PROVE  AnswerKept(TakenChoice(plan, w), plan, s, heads, ownHead)
<1> DEFINE adopt == Adopted(plan, w)
           c == TakenChoice(plan, w)
           next == After(s, w, plan)
<1>1. w \in Texts /\ adopt # {} /\ NewHeads(next, heads) = {}
  <2> HIDE DEF next, adopt, c
  <2>1. CASE plan.verdict = "Adopt" /\ w = t
    BY <2>1, NoneLeft DEF next, adopt
  <2>2. CASE plan.verdict = "UpdateReady" /\ \E h \in plan.offered : w = h.key.text
    BY <2>2, NoneLeft DEF next, adopt
  <2> QED
    BY <2>1, <2>2
<1>2. s.pending = NoKey
  BY PlanIs DEF PlanWell
<1>3. GoodState(next, d) /\ next.base # NoKey /\ next.pending = NoKey
  BY <1>1, <1>2, LeftAfter
<1>4. GoodOwn(ownHead, next, d)
  BY <1>3 DEF GoodOwn
<1>5. CanAdopt(s, w, adopt)
  BY <1>1, <1>2, TakenAccepted
<1>6. c.accepted /\ c.text = w /\ c.adopt = adopt /\ Completed(s, c) = next
  BY DEF Completed, After, TakenChoice
<1> HIDE DEF next, c, adopt
<1>7. Plan(w, next, heads, ownHead).verdict \in {"UpToDate", "LocalChanges"}
  BY <1>1, <1>3, <1>4, NothingNew
<1>8. plan.verdict \in {"UpdateReady", "Adopt"}
  OBVIOUS
<1>9. Kept(plan.verdict, c, next, Plan(w, next, heads, ownHead))
  BY <1>7, <1>8 DEF Kept
<1> QED
  BY <1>5, <1>6, <1>9 DEF AnswerKept, c

\* A head that was offered and that the answer did not take in is still offered:
\* it is not known, and does not have the text.
LEMMA StillOffered ==
  ASSUME NEW d, NEW s, GoodState(s, d), NEW t, NEW heads, HeadsOfOthers(heads, d),
         NEW ownHead, NEW plan, plan = Plan(t, s, heads, ownHead),
         NEW w \in Texts, Adopted(plan, w) # {},
         NEW h \in NewHeads(After(s, w, plan), heads)
  PROVE  KindOf(w, After(s, w, plan), h) \in OfferedKinds
<1> DEFINE maximal == MaximalConfigHeads(NewHeads(s, heads))
           adopt == Adopted(plan, w)
           next == After(s, w, plan)
<1>1. h \in maximal /\ KindOf(t, s, h) # "Stale" /\ h.key.text # w
  BY LeftAfter DEF LeftWell, OfferedKinds
<1>2. AdoptedKnows(next, s, w, adopt)
  BY LeftAfter
<1>3. /\ adopt \subseteq maximal /\ \A a \in adopt : a.key.text = w
      /\ maximal \subseteq NewHeads(s, heads) /\ maximal \subseteq heads
  <2>1. /\ MaximalConfigHeads(NewHeads(s, heads)) \subseteq NewHeads(s, heads)
        /\ NewHeads(s, heads) \subseteq heads
    BY DEF MaximalConfigHeads, NewHeads
  <2> HIDE DEF next
  <2> QED
    BY <2>1, AdoptedAre
<1>4. h.key \notin KnownKeys(s) \cup ToSet(s.lineage)
  BY <1>1 DEF KindOf
<1> HIDE DEF next, adopt
<1>5. h.key \notin KnownKeys(next)
  BY <1>1, <1>2, <1>3, <1>4 DEF AdoptedKnows
<1>6. h.key \notin ToSet(next.lineage)
  <2> SUFFICES ASSUME NEW a \in adopt, h.key \in ToSet(a.lineage) PROVE FALSE
    BY <1>1, <1>2, <1>3, <1>4 DEF AdoptedKnows
  <2>1. a \in maximal /\ a \in heads /\ h \in heads /\ a # h
    BY <1>1, <1>3
  <2>2. a.install # h.install
    BY <2>1 DEF HeadsOfOthers, GoodHeads
  <2>3. Contains(a.lineage, h.key)
    <3>1. GoodHeads(heads)
      BY DEF HeadsOfOthers
    <3>2. a.lineage \in Lineage
      BY <2>1, <3>1, HeadParts
    <3> QED
      BY <3>2, ContainsIs
  <2>4. HeldByAnother(h, a)
    BY <2>2, <2>3 DEF HeldByAnother
  <2> QED
    BY <1>1, <1>3, <2>1, <2>4 DEF MaximalConfigHeads
<1> QED
  BY <1>1, <1>5, <1>6 DEF KindOf, OfferedKinds, next

\* If it is Ahead then, it was before.
LEMMA AheadBefore ==
  ASSUME NEW d, NEW s, GoodState(s, d), NEW t \in Texts, NEW heads, HeadsOfOthers(heads, d),
         NEW ownHead, NEW plan, plan = Plan(t, s, heads, ownHead),
         s.pending = NoKey, Adopted(plan, t) # {},
         NEW h \in NewHeads(After(s, t, plan), heads),
         KindOf(t, After(s, t, plan), h) = "Ahead"
  PROVE  KindOf(t, s, h) = "Ahead"
<1> DEFINE maximal == MaximalConfigHeads(NewHeads(s, heads))
           adopt == Adopted(plan, t)
           next == After(s, t, plan)
<1>1. h \in maximal /\ KindOf(t, s, h) # "Stale" /\ h.key.text # t
  BY LeftAfter DEF LeftWell, OfferedKinds
<1>2. AdoptedKnows(next, s, t, adopt) /\ next.pending = NoKey
  BY LeftAfter
<1>3. /\ adopt \subseteq maximal /\ \A a \in adopt : a.key.text = t
      /\ maximal \subseteq NewHeads(s, heads) /\ maximal \subseteq heads
  <2>1. /\ MaximalConfigHeads(NewHeads(s, heads)) \subseteq NewHeads(s, heads)
        /\ NewHeads(s, heads) \subseteq heads
    BY DEF MaximalConfigHeads, NewHeads
  <2> HIDE DEF next
  <2> QED
    BY <2>1, AdoptedAre
<1> HIDE DEF next, adopt
<1>4. MeetsKnown(next, h)
  BY <1>2 DEF KindOf, next
<1>5. PICK k \in KnownKeys(next) : Contains(h.lineage, k)
  BY <1>4 DEF MeetsKnown
<1>6. ASSUME NEW a \in adopt, k = a.key PROVE FALSE
  <2>1. a \in maximal /\ a \in heads /\ h \in heads /\ a # h
    BY <1>1, <1>3
  <2>2. a.install # h.install
    BY <2>1 DEF HeadsOfOthers, GoodHeads
  <2>3. HeldByAnother(a, h)
    BY <1>5, <1>6, <2>2 DEF HeldByAnother
  <2> QED
    BY <1>1, <1>3, <2>1, <2>3 DEF MaximalConfigHeads
<1>7. s.base.text = t /\ k \in KnownKeys(s)
  BY <1>2, <1>6 DEF AdoptedKnows
<1>8. MeetsKnown(s, h)
  BY <1>5, <1>7 DEF MeetsKnown
<1> QED
  BY <1>1, <1>7, <1>8 DEF KindOf

\* Whoever keeps its own text in a choice still has the other contents to choose
\* from, and so a publish to propose.
LEMMA OwnTextProposed ==
  ASSUME NEW d, NEW s, GoodState(s, d), NEW t \in Texts, NEW heads, HeadsOfOthers(heads, d),
         NEW ownHead, GoodOwn(ownHead, s, d), NEW plan, plan = Plan(t, s, heads, ownHead),
         plan.verdict \in {"Choose", "Conflict"}, Adopted(plan, t) # {}
  PROVE  Plan(t, After(s, t, plan), heads, ownHead).verdict \in {"Choose", "Conflict"}
<1> DEFINE new == NewHeads(s, heads)
           maximal == MaximalConfigHeads(new)
           next == After(s, t, plan)
           left == NewHeads(next, heads)
           fresh == Plan(t, next, heads, ownHead)
           some == HeadsOf(Classify(t, s, heads).outcomes, OfferedKinds)
           still == HeadsOf(Classify(t, next, heads).outcomes, OfferedKinds)
<1>1. PlanWell(plan, t, s, heads, ownHead) /\ PlanWell(fresh, t, next, heads, ownHead)
  BY PlanIs
<1>2. s.pending = NoKey
  BY <1>1 DEF PlanWell
<1>3. /\ GoodState(next, d) /\ next.base # NoKey /\ next.pending = NoKey
      /\ LeftWell(next, plan, t, s, heads, t)
  BY <1>2, LeftAfter
<1>4. GoodOwn(ownHead, next, d)
  BY <1>3 DEF GoodOwn
<1>5. fresh.verdict # "Invalid"
  <2> HIDE DEF next
  <2> QED
    BY <1>3, <1>4, PlanNeverInvalid
<1>6. \A h \in left : KindOf(t, next, h) \in OfferedKinds
  BY StillOffered
<1>7. \A h \in left : KindOf(t, next, h) = "Ahead" => KindOf(t, s, h) = "Ahead"
  BY <1>2, AheadBefore
<1>8. some = {h \in maximal : KindOf(t, s, h) \in OfferedKinds}
  <2>1. some = {h \in new : \/ h \in maximal /\ KindOf(t, s, h) \in OfferedKinds
                            \/ h \notin maximal /\ "Stale" \in OfferedKinds}
    BY OutcomesAre DEF OutcomesWell
  <2>2. maximal \subseteq new /\ "Stale" \notin OfferedKinds
    BY DEF MaximalConfigHeads, OfferedKinds
  <2> HIDE DEF some, maximal
  <2> QED
    BY <2>1, <2>2
<1>9. \A h : KindOf(t, s, h) \in OfferedKinds => h.key.text # t
  BY DEF KindOf, OfferedKinds
<1> HIDE DEF next, fresh
<1>10. left = some
  <2>1. /\ left \subseteq maximal
        /\ \A h \in left : KindOf(t, s, h) \in {"Same"} \cup OfferedKinds /\ h.key.text # t
        /\ \A h \in maximal : KindOf(t, s, h) \in OfferedKinds /\ h.key.text # t => h \in left
    BY <1>3 DEF LeftWell
  <2>2. \A h \in left : KindOf(t, s, h) # "Same"
    BY <2>1, KindIs
  <2> HIDE DEF left, some, maximal
  <2> QED
    BY <1>8, <1>9, <2>1, <2>2
<1>11. MaximalConfigHeads(left) = left
  <2>1. left \subseteq maximal /\ maximal \subseteq new
    BY <1>3 DEF LeftWell, MaximalConfigHeads
  <2> HIDE DEF left, new
  <2> QED
    BY <2>1 DEF MaximalConfigHeads
<1>12. still = left
  <2>1. still = {h \in left : \/ h \in MaximalConfigHeads(left) /\ KindOf(t, next, h) \in OfferedKinds
                              \/ h \notin MaximalConfigHeads(left) /\ "Stale" \in OfferedKinds}
    BY <1>3, OutcomesAre DEF OutcomesWell
  <2> HIDE DEF still, left
  <2> QED
    BY <1>6, <1>11, <2>1
<1>13. Several(t, next, heads) <=> Several(t, s, heads)
  BY <1>10, <1>12 DEF Several, Candidates
<1>14. \A kind \in OfferedKinds :
         /\ kind \in Kinds(t, next, heads) <=> \E h \in left : KindOf(t, next, h) = kind
         /\ kind \in Kinds(t, s, heads) <=> \E h \in maximal : KindOf(t, s, h) = kind
  <2> TAKE kind \in OfferedKinds
  <2>1. kind # "Stale"
    BY DEF OfferedKinds
  <2>2. kind \in Kinds(t, next, heads) <=> \E h \in MaximalConfigHeads(left) : KindOf(t, next, h) = kind
    BY <1>3, <2>1, KindsAre
  <2>3. kind \in Kinds(t, s, heads) <=> \E h \in maximal : KindOf(t, s, h) = kind
    BY <2>1, KindsAre
  <2> QED
    BY <1>11, <2>2, <2>3
<1>15. left # {}
  <2>1. plan.offered # {} /\ plan.offered = Candidates(t, s, heads)
    BY <1>1, OfferedGood DEF PlanWell
  <2>2. Candidates(t, s, heads) \subseteq some
    BY DEF Candidates, Representatives
  <2> QED
    BY <1>10, <2>1, <2>2
<1> HIDE DEF left, some, still, maximal
<1>16. Kinds(t, next, heads) \cap OfferedKinds # {}
  BY <1>6, <1>14, <1>15
<1>17. ASSUME fresh.verdict = "UpdateReady" PROVE FALSE
  <2>1. /\ "Concurrent" \notin Kinds(t, next, heads) /\ "Unrelated" \notin Kinds(t, next, heads)
        /\ ~Several(t, next, heads)
    BY <1>1, <1>17 DEF PlanWell
  <2>2. \A h \in left : KindOf(t, next, h) = "Ahead"
    BY <1>6, <1>14, <2>1 DEF OfferedKinds
  <2>3. \A h \in some : KindOf(t, s, h) = "Ahead"
    BY <1>7, <1>10, <2>2
  <2>4. "Concurrent" \notin Kinds(t, s, heads) /\ "Unrelated" \notin Kinds(t, s, heads)
    <3>1. \A h \in maximal : KindOf(t, s, h) \in OfferedKinds => KindOf(t, s, h) = "Ahead"
      BY <1>8, <2>3
    <3> QED
      BY <1>14, <3>1 DEF OfferedKinds
  <2> QED
    BY <1>1, <1>13, <2>1, <2>4 DEF PlanWell
<1>18. fresh.verdict \in {"Choose", "Conflict"}
  BY <1>1, <1>3, <1>5, <1>16, <1>17 DEF PlanWell
<1> QED
  BY <1>18 DEF fresh, next

\* An answer to a choice that takes heads in.  What it promised is worked out on
\* the heads of the check only; the state has seen all others, so a fresh check
\* of all heads finds the same.
LEMMA ChoiceKept ==
  ASSUME NEW d, NEW s, GoodState(s, d), ~s.unpublished,
         NEW t \in Texts, NEW heads, HeadsOfOthers(heads, d),
         NEW ownHead, GoodOwn(ownHead, s, d), NEW plan, plan = Plan(t, s, heads, ownHead),
         plan.verdict \in {"Choose", "Conflict"},
         NEW w \in Texts, Adopted(plan, w) # {},
         NEW pick, pick = NoKey => w = t
  PROVE  AnswerKept(Promised(s, plan, pick, TakenChoice(plan, w)), plan, s, heads, ownHead)
<1> DEFINE adopt == Adopted(plan, w)
           choice == TakenChoice(plan, w)
           asked == [choice EXCEPT !.accepted = CanAdopt(s, choice.text, choice.adopt)]
           next == After(s, w, plan)
           judged == {o.head : o \in plan.outcomes}
           fresh == Plan(w, next, heads, ownHead)
           c == Promised(s, plan, pick, choice)
           publish == fresh.verdict \in {"LocalChanges", "Choose", "Conflict"}
<1>1. PlanWell(plan, t, s, heads, ownHead) /\ PlanWell(fresh, w, next, heads, ownHead)
  BY PlanIs
<1>2. s.pending = NoKey /\ plan.ownHead = ownHead
  BY <1>1 DEF PlanWell
<1>3. /\ GoodState(next, d) /\ next.base # NoKey /\ next.pending = NoKey
      /\ AdoptedKnows(next, s, w, adopt)
      /\ LeftWell(next, plan, t, s, heads, w)
  BY <1>2, LeftAfter
<1>4. ~next.unpublished
  BY <1>3 DEF AdoptedKnows
<1>5. GoodOwn(ownHead, next, d)
  BY <1>3 DEF GoodOwn
<1>6. judged = NewHeads(s, heads)
  <2>1. plan.outcomes = Classify(t, s, heads).outcomes
    BY <1>1 DEF PlanWell
  <2> QED
    BY <2>1, OutcomesAre DEF OutcomesWell
<1>7. CanAdopt(s, w, adopt)
  BY <1>2, TakenAccepted
<1> HIDE DEF next
<1>8. Plan(w, next, judged, ownHead) = fresh
  <2>1. NewHeads(next, heads) \subseteq NewHeads(s, heads)
    BY <1>3 DEF LeftWell, MaximalConfigHeads
  <2>2. NewHeads(next, judged) = NewHeads(next, heads)
    BY <1>6, <2>1 DEF NewHeads
  <2>3. judged \in SUBSET heads
    BY <1>6 DEF NewHeads
  <2>4. HeadsOfOthers(judged, d)
    BY <2>3, FewerHeads DEF HeadsOfOthers
  <2> HIDE DEF judged
  <2> QED
    BY <1>3, <1>4, <2>2, <2>4, SamePlan
<1>9. fresh.verdict # "Invalid" /\ fresh.verdict # "Empty"
  <2>1. fresh.verdict # "Invalid"
    BY <1>3, <1>5, PlanNeverInvalid
  <2> HIDE DEF fresh
  <2> QED
    BY <1>1, <1>3, <2>1 DEF PlanWell
<1>10. fresh.same = {}
  <2>1. fresh.same = HeadsOf(Classify(w, next, heads).outcomes, {"Same"})
    BY <1>1, <1>9 DEF PlanWell
  <2>2. HeadsOf(Classify(w, next, heads).outcomes, {"Same"}) =
          {h \in NewHeads(next, heads) :
             \/ h \in MaximalConfigHeads(NewHeads(next, heads)) /\ KindOf(w, next, h) \in {"Same"}
             \/ h \notin MaximalConfigHeads(NewHeads(next, heads)) /\ "Stale" \in {"Same"}}
    BY <1>3, OutcomesAre DEF OutcomesWell
  <2>3. \A h \in NewHeads(next, heads) : h.key.text # w
    BY <1>3 DEF LeftWell
  <2>4. \A h \in NewHeads(next, heads) : KindOf(w, next, h) # "Same"
    BY <2>3, KindIs
  <2> QED
    BY <2>1, <2>2, <2>4
<1>11. pick = NoKey => publish
  <2>1. pick = NoKey => fresh.verdict \in {"Choose", "Conflict"}
    BY OwnTextProposed DEF next
  <2> QED
    BY <2>1
<1>12. asked.accepted = CanAdopt(s, w, adopt) /\ asked.text = w /\ asked.adopt = adopt
       /\ asked.seen = Beside(plan, adopt)
       /\ DOMAIN asked = {"accepted", "text", "adopt", "seen", "publish", "parents"}
  BY DEF TakenChoice
<1>13. /\ choice.text = w /\ choice.adopt = adopt /\ choice.seen = Beside(plan, adopt)
  BY DEF TakenChoice
<1>14. c = Promising(asked, pick, next, Plan(w, next, judged, ownHead))
  BY <1>2, <1>13 DEF Promised, After, next
<1> HIDE DEF fresh, asked, c, adopt, choice, judged
<1>15. Proposes(fresh) <=> publish
  BY <1>9, <1>10 DEF Proposes
<1>16. c = [asked EXCEPT
             !.accepted = /\ @
                          /\ publish => Proposes(fresh)
                          /\ pick = NoKey => publish,
             !.publish = publish,
             !.parents = IF publish THEN KeysOf(ProposedParents(next, fresh)) ELSE {}]
  BY <1>8, <1>14 DEF Promising
<1>17. /\ c.accepted = (/\ asked.accepted
                        /\ publish => Proposes(fresh)
                        /\ pick = NoKey => publish)
       /\ c.publish = publish
       /\ c.parents = IF publish THEN KeysOf(ProposedParents(next, fresh)) ELSE {}
       /\ c.text = w /\ c.adopt = adopt /\ c.seen = Beside(plan, adopt)
  <2> DEFINE yes == /\ asked.accepted
                    /\ publish => Proposes(fresh)
                    /\ pick = NoKey => publish
             named == IF publish THEN KeysOf(ProposedParents(next, fresh)) ELSE {}
             answer == publish
  <2>1. c = [asked EXCEPT !.accepted = yes, !.publish = answer, !.parents = named]
    BY <1>16
  <2> HIDE DEF yes, named, answer
  <2>2. /\ c.accepted = yes /\ c.publish = answer /\ c.parents = named
        /\ c.text = w /\ c.adopt = adopt /\ c.seen = Beside(plan, adopt)
    BY <1>12, <2>1
  <2> QED
    BY <2>2 DEF yes, named, answer
<1>18. c.accepted
  BY <1>7, <1>11, <1>12, <1>15, <1>17
<1>19. Completed(s, c) = next
  BY <1>17 DEF Completed, next, After, adopt
<1>20. c.publish = Proposes(fresh)
  <2>1. publish = Proposes(fresh)
    <3>1. publish \in BOOLEAN
      OBVIOUS
    <3>2. Proposes(fresh) \in BOOLEAN
      BY DEF Proposes
    <3> HIDE DEF publish
    <3> DEFINE a == publish
               b == Proposes(fresh)
    <3>3. a \in BOOLEAN /\ b \in BOOLEAN /\ (a <=> b)
      BY <1>15, <3>1, <3>2
    <3> HIDE DEF a, b
    <3>4. a = b
      BY <3>3
    <3> QED
      BY <3>4 DEF a, b
  <2>2. c.publish = publish
    BY <1>17
  <2> HIDE DEF publish
  <2> QED
    BY <2>1, <2>2
<1>21. Kept(plan.verdict, c, next, fresh)
  <2>1. c.publish => c.parents = KeysOf(ProposedParents(next, fresh))
    BY <1>17
  <2>2. plan.verdict \notin {"UpdateReady", "Adopt"}
    OBVIOUS
  <2> QED
    BY <1>20, <2>1, <2>2 DEF Kept
<1> QED
  BY <1>7, <1>17, <1>18, <1>19, <1>21 DEF AnswerKept, c, choice, fresh

\* Every answer to a check is kept.
LEMMA AnswersKept ==
  ASSUME NEW d, NEW s, GoodState(s, d), ~s.unpublished,
         NEW t \in Texts, NEW heads, HeadsOfOthers(heads, d),
         NEW ownHead, GoodOwn(ownHead, s, d), NEW plan, plan = Plan(t, s, heads, ownHead),
         NEW pick \in Picks(plan)
  PROVE  AnswerKept(PlanConfigChoice(s, t, plan, pick), plan, s, heads, ownHead)
<1> DEFINE w == IF pick = NoKey THEN t ELSE pick.text
           c == PlanConfigChoice(s, t, plan, pick)
<1>1. PlanWell(plan, t, s, heads, ownHead)
  BY PlanIs
<1>2. GoodHeads(plan.offered)
  BY OfferedGood
<1>3. \A h \in plan.offered : h.key # NoKey /\ h.key.text \in Texts
  BY <1>2, HeadParts
<1>4. pick = NoKey \/ \E h \in plan.offered : pick = h.key
  BY DEF Picks
<1>5. w \in Texts /\ (pick = NoKey => w = t)
      /\ (pick # NoKey => \E h \in plan.offered : w = h.key.text)
  BY <1>3, <1>4
<1> HIDE DEF w
<1>6. CASE pick = NoKey /\ Proposes(plan)
  <2>1. c = KeepChoice(s, t, plan)
    BY <1>6 DEF PlanConfigChoice
  <2>2. s \in State
    BY DEF GoodState
  <2> HIDE DEF c
  <2> QED
    BY <1>6, <2>1, <2>2, KeepKept DEF c
<1>7. CASE ~(pick = NoKey /\ Proposes(plan)) /\ plan.verdict \in {"Choose", "Conflict"}
  <2>1. c = Promised(s, plan, pick, TakenChoice(plan, w))
    BY <1>7 DEF PlanConfigChoice, TakeChoice, TakenChoice, w
  <2>2. Adopted(plan, w) = {h \in HeadsOf(plan.outcomes, {"Same", "Ahead", "Concurrent", "Unrelated"}) :
                              h.key.text = w}
    BY DEF Adopted
  <2>3. CASE pick = NoKey
    <3>1. plan.same # {} /\ plan.same = HeadsOf(plan.outcomes, {"Same"})
      BY <1>1, <1>7, <2>3 DEF Proposes, PlanWell
    <3>2. PICK h \in HeadsOf(Classify(t, s, heads).outcomes, {"Same"}) : TRUE
      BY <1>1, <3>1 DEF PlanWell
    <3>3. h \in MaximalConfigHeads(NewHeads(s, heads)) /\ KindOf(t, s, h) = "Same"
      <4>1. h \in {x \in NewHeads(s, heads) :
                     \/ /\ x \in MaximalConfigHeads(NewHeads(s, heads))
                        /\ KindOf(t, s, x) \in {"Same"}
                     \/ /\ x \notin MaximalConfigHeads(NewHeads(s, heads))
                        /\ "Stale" \in {"Same"}}
        BY <3>2, OutcomesAre DEF OutcomesWell
      <4> QED
        BY <4>1
    <3>4. h \in Adopted(plan, w)
      BY <1>5, <2>3, <3>3, AdoptedAre, KindIs
    <3> HIDE DEF c
    <3> QED
      BY <1>5, <1>7, <2>1, <3>4, ChoiceKept DEF c
  <2>4. CASE pick # NoKey
    <3>1. PICK h \in plan.offered : w = h.key.text
      BY <1>5, <2>4
    <3>2. h \in HeadsOf(plan.outcomes, OfferedKinds)
      BY <1>1, <1>7, <3>1 DEF PlanWell, Candidates, Representatives
    <3>3. h \in Adopted(plan, w)
      BY <2>2, <3>1, <3>2 DEF HeadsOf, OfferedKinds
    <3> HIDE DEF c
    <3> QED
      BY <1>5, <1>7, <2>1, <2>4, <3>3, ChoiceKept DEF c
  <2> QED
    BY <2>3, <2>4
<1>8. CASE ~(pick = NoKey /\ Proposes(plan)) /\ plan.verdict \notin {"Choose", "Conflict"}
  <2>1. c = TakenChoice(plan, w)
    BY <1>8 DEF PlanConfigChoice, TakeChoice, TakenChoice, w
  <2>2. plan.verdict \in {"Adopt", "UpdateReady"}
    BY <1>8 DEF Picks, Proposes
  <2>3. CASE plan.verdict = "Adopt"
    <3>1. w = t
      BY <1>5, <2>3 DEF Picks
    <3> HIDE DEF c
    <3> QED
      BY <2>1, <2>3, <3>1, TakenKept DEF c
  <2>4. CASE plan.verdict = "UpdateReady"
    <3>1. \E h \in plan.offered : w = h.key.text
      <4>1. pick # NoKey
        BY <1>3, <2>4 DEF Picks
      <4> QED
        BY <1>5, <4>1
    <3> HIDE DEF c
    <3> QED
      BY <2>1, <2>4, <3>1, TakenKept DEF c
  <2> QED
    BY <2>2, <2>3, <2>4
<1> QED
  BY <1>6, <1>7, <1>8

---------------------------------------------------------------------------
(* The inductive invariant.                                                *)

Typed ==
    /\ text \in [Installs -> Texts]
    /\ state \in [Installs -> State]
    /\ own \in [Installs -> ConfigHead \cup {NoHead}]
    /\ staged \in [Installs -> [key : Key, lineage : Lineage] \cup {NoVersion}]
    /\ {edits, turns} \subseteq Nat
    /\ quiet \in BOOLEAN

\* An install's state and published head are good, what it has staged is a good
\* version, its pending key is that of the version staged or just posted, and it
\* has not moved away from the chat its base was published in.
PerInstall(d) ==
    /\ GoodState(state[d], d)
    /\ GoodOwn(own[d], state[d], d)
    /\ staged[d] # NoVersion => /\ GoodVersion(staged[d])
                                /\ state[d].pending = staged[d].key
    /\ state[d].pending \in {NoKey, staged[d].key, own[d].key}
    /\ ~state[d].unpublished

NetInv == Typed /\ \A d \in Installs : PerInstall(d)

\* The heads a check reads.
LEMMA CurrentGood ==
  ASSUME NetInv, NEW d \in Installs
  PROVE  HeadsOfOthers(Current(d), d)
<1> DEFINE others == Installs \ {d}
           f == [i \in others |-> own[i]]
           all == {f[i] : i \in DOMAIN f}
<1>1. Current(d) = all \ {NoHead}
  BY DEF Current
<1>2. IsFiniteSet(Current(d))
  <2>1. IsFiniteSet(others)
    BY ConfigSyncAssumption, FS_RemoveElement
  <2>2. DOMAIN f = others
    OBVIOUS
  <2>3. IsFiniteSet(all)
    <3> HIDE DEF f
    <3> QED
      BY <2>1, <2>2, ImageFinite
  <2> HIDE DEF all
  <2> QED
    BY <1>1, <2>3, FS_RemoveElement
<1>3. ASSUME NEW h \in Current(d)
      PROVE  \E i \in Installs \ {d} : /\ h = own[i] /\ h.install = i
                                       /\ h \in ConfigHead
                                       /\ ValidLineage(h.key, h.lineage)
  <2>1. PICK i \in Installs \ {d} : h = own[i] /\ h # NoHead
    BY DEF Current
  <2>2. GoodOwn(own[i], state[i], i)
    BY <2>1 DEF NetInv, PerInstall
  <2> QED
    BY <2>1, <2>2 DEF GoodOwn
<1> HIDE DEF all, f
<1>4. \A h, o \in Current(d) : h.install = o.install => h = o
  BY <1>3
<1> QED
  BY <1>2, <1>3, <1>4 DEF HeadsOfOthers, GoodHeads

\* No version has the empty key.
LEMMA NoKeyIsNone == NoKey \notin Key
BY DEF NoKey, Key

\* Nothing is older than the first version, and nothing known before it.
LEMMA EmptyLineage ==
  ASSUME NEW key
  PROVE  <<>> \in Lineage /\ ValidLineage(key, <<>>)
<1>1. LineageLimit \in Nat
  BY ConfigSyncAssumption
<1>2. <<>> \in Lineage
  BY <1>1 DEF Lineage
<1>3. ValidLineage(key, <<>>)
  BY <1>1 DEF ValidLineage, ToSet, IsInjective
<1> QED
  BY <1>2, <1>3

\* The state of an install that has just joined.
LEMMA InitialGood ==
  ASSUME NEW d \in Installs
  PROVE  GoodState(InitialState(d), d) /\ ~InitialState(d).unpublished
<1> DEFINE s == InitialState(d)
<1>1. /\ s.install = d /\ s.base = NoKey /\ s.lineage = <<>> /\ s.equiv = {}
      /\ s \in State /\ ~s.unpublished
  BY EmptyLineage DEF InitialState, State
<1>2. StateValid(s)
  <2>1. Cardinality({}) = 0 /\ EquivLimit \in Nat
    BY FS_EmptySet, ConfigSyncAssumption
  <2> HIDE DEF s
  <2> QED
    BY <1>1, <2>1 DEF StateValid
<1> HIDE DEF s
<1>3. GoodState(s, d)
  BY <1>1, <1>2, FS_EmptySet DEF GoodState
<1> QED
  BY <1>1, <1>3 DEF s

\* What a check of an install starts from.
LEMMA CheckGood ==
  ASSUME NetInv, NEW d \in Installs
  PROVE  /\ GoodState(state[d], d) /\ GoodOwn(own[d], state[d], d)
         /\ HeadsOfOthers(Current(d), d)
         /\ text[d] \in Texts
         /\ PlanOf(d) = Plan(text[d], state[d], Current(d), own[d])
BY CurrentGood DEF NetInv, PerInstall, Typed, PlanOf

\* A step of one install leaves the others as they are.
LEMMA OneInstallActs ==
  ASSUME NetInv, NEW d \in Installs, Typed', PerInstall(d)',
         \A e \in Installs \ {d} : /\ state'[e] = state[e] /\ own'[e] = own[e]
                                   /\ staged'[e] = staged[e]
  PROVE  NetInv'
<1>1. ASSUME NEW e \in Installs \ {d} PROVE PerInstall(e)'
  <2>1. PerInstall(e)
    BY DEF NetInv
  <2>2. state'[e] = state[e] /\ own'[e] = own[e] /\ staged'[e] = staged[e]
    OBVIOUS
  <2> QED
    BY <2>1, <2>2 DEF PerInstall
<1> QED
  BY <1>1 DEF NetInv

\* The first published head, which the others have adopted.
LEMMA JoinedGood ==
  ASSUME NEW d \in Installs, JoinedStart(d), staged = [i \in Installs |-> NoVersion],
         {edits, turns} \subseteq Nat, quiet \in BOOLEAN
  PROVE  NetInv
<1>1. PICK t \in Texts :
        LET key == [gen |-> 1, text |-> t]
            head == [install |-> d, seq |-> 1, key |-> key, lineage |-> <<>>]
            published == [InitialState(d) EXCEPT !.base = key]
        IN  /\ text = [i \in Installs |-> t]
            /\ own = [i \in Installs |-> IF i = d THEN head ELSE NoHead]
            /\ state = [i \in Installs |->
                  IF i = d THEN published
                  ELSE AdoptConfigHeads(InitialState(i), t, {head})]
  BY DEF JoinedStart
<1> DEFINE key == [gen |-> 1, text |-> t]
           head == [install |-> d, seq |-> 1, key |-> key, lineage |-> <<>>]
           published == [InitialState(d) EXCEPT !.base = key]
           adopted(i) == AdoptConfigHeads(InitialState(i), t, {head})
<1>2. \A i \in Installs : GoodState(InitialState(i), i) /\ ~InitialState(i).unpublished
  BY InitialGood
<1>3. key \in Key /\ key # NoKey
  BY DEF Key, NoKey
<1>4. <<>> \in Lineage /\ ValidLineage(key, <<>>)
  BY EmptyLineage
<1>5. head \in ConfigHead /\ ValidLineage(head.key, head.lineage) /\ head # NoHead
      /\ head.install = d /\ head.key = key
  <2> HIDE DEF key
  <2> QED
    BY <1>3, <1>4 DEF ConfigHead, NoHead
<1>6. /\ GoodState(published, d) /\ published.base # NoKey /\ published.pending = NoKey
      /\ ~published.unpublished
  <2> DEFINE initial == InitialState(d)
  <2>1. GoodState(initial, d) /\ initial.pending = NoKey /\ initial.lineage = <<>>
        /\ initial.equiv = {} /\ ~initial.unpublished
    BY <1>2 DEF InitialState
  <2>2. published = [initial EXCEPT !.base = key]
    OBVIOUS
  <2> HIDE DEF initial, published, key
  <2>3. /\ published \in State /\ published.base = key /\ published.lineage = <<>>
        /\ published.equiv = {} /\ published.pending = NoKey /\ published.install = d
        /\ ~published.unpublished
    BY <1>3, <2>1, <2>2 DEF GoodState, State
  <2>4. StateValid(published)
    BY <1>3, <1>4, <2>1, <2>3 DEF GoodState, StateValid
  <2> QED
    BY <1>3, <2>1, <2>3, <2>4 DEF GoodState
<1> HIDE DEF published
<1>7. GoodHeads({head}) /\ {head} # {} /\ \A h \in {head} : h.key.text = t
  <2>1. IsFiniteSet({head})
    BY FS_Singleton
  <2>2. head.key.text = t
    BY <1>5
  <2> HIDE DEF head
  <2> QED
    BY <1>5, <2>1, <2>2 DEF GoodHeads
<1>8. \A i \in Installs :
        /\ GoodState(adopted(i), i) /\ adopted(i).base # NoKey /\ adopted(i).pending = NoKey
        /\ ~adopted(i).unpublished
  <2> TAKE i \in Installs
  <2>1. InitialState(i).pending = NoKey
    BY DEF InitialState
  <2> HIDE DEF head
  <2> QED
    BY <1>2, <1>7, <2>1, AdoptionGood, AdoptionKnows DEF AdoptedKnows
<1>9. /\ text = [i \in Installs |-> t]
      /\ own = [i \in Installs |-> IF i = d THEN head ELSE NoHead]
      /\ state = [i \in Installs |-> IF i = d THEN published ELSE adopted(i)]
  BY <1>1 DEF published
<1> HIDE DEF head, adopted, key
<1>10. \A i \in Installs : /\ (state[i] = published /\ i = d) \/ state[i] = adopted(i)
                           /\ (own[i] = head /\ i = d) \/ own[i] = NoHead
                           /\ staged[i] = NoVersion
  BY <1>9
<1>11. \A i \in Installs : /\ GoodState(state[i], i) /\ state[i].base # NoKey
                           /\ state[i].pending = NoKey /\ ~state[i].unpublished
  BY <1>6, <1>8, <1>10
<1>12. \A i \in Installs : PerInstall(i)
  BY <1>5, <1>10, <1>11 DEF PerInstall, GoodOwn
<1>13. Typed
  <2>1. \A i \in Installs : state[i] \in State
    BY <1>11 DEF GoodState
  <2> QED
    BY <1>5, <1>9, <2>1 DEF Typed
<1> QED
  BY <1>12, <1>13 DEF NetInv

\* Before the first step every install is in order.
LEMMA InitGood == Init => NetInv
<1> SUFFICES ASSUME Init PROVE NetInv
  OBVIOUS
<1>1. /\ {edits, turns} \subseteq Nat /\ quiet \in BOOLEAN
      /\ staged = [i \in Installs |-> NoVersion]
  <2>1. edits \in {FreshEdits, JoinedEdits} /\ turns = 0 /\ quiet = FALSE
    BY DEF Init
  <2>2. FreshEdits \in Nat /\ JoinedEdits \in Nat
    BY ConfigNetAssumption
  <2>3. staged = [i \in Installs |-> NoVersion]
    BY DEF Init
  <2>4. edits \in Nat /\ turns \in Nat
    BY <2>1, <2>2
  <2>5. quiet \in BOOLEAN
    BY <2>1
  <2> QED
    BY <2>3, <2>4, <2>5
<1>2. CASE FreshStart
  <2>1. /\ text \in [Installs -> Texts]
        /\ state = [d \in Installs |-> InitialState(d)]
        /\ own = [d \in Installs |-> NoHead]
    BY <1>2 DEF FreshStart
  <2>2. \A d \in Installs : /\ GoodState(state[d], d) /\ state[d].pending = NoKey
                             /\ ~state[d].unpublished
    BY <2>1, InitialGood DEF InitialState
  <2>3. \A d \in Installs : PerInstall(d)
    BY <1>1, <2>1, <2>2 DEF PerInstall, GoodOwn
  <2>4. Typed
    <3>1. \A d \in Installs : state[d] \in State
      BY <2>2 DEF GoodState
    <3> QED
      BY <1>1, <2>1, <3>1 DEF Typed
  <2> QED
    BY <2>3, <2>4 DEF NetInv
<1>3. CASE \E d \in Installs : JoinedStart(d)
  BY <1>1, <1>3, JoinedGood
<1> QED
  BY <1>2, <1>3 DEF Init

---------------------------------------------------------------------------
(* The steps.                                                              *)

\* An edit changes the file only.
LEMMA EditKeeps ==
  ASSUME NetInv, NEW d \in Installs, NEW t \in Texts, Edit(d, t)
  PROVE  NetInv'
<1>1. /\ text' = [text EXCEPT ![d] = t] /\ edits' = edits - 1 /\ edits > 0
      /\ UNCHANGED <<state, staged, own, quiet, turns>>
  BY DEF Edit
<1>2. Typed'
  BY <1>1 DEF NetInv, Typed
<1>3. PerInstall(d)'
  BY <1>1 DEF NetInv, PerInstall
<1> QED
  BY <1>1, <1>2, <1>3, OneInstallActs

\* The settings taken in: the state stays good, and the published head, which
\* counted before only with a base, has one.
LEMMA TakeKeeps ==
  ASSUME NetInv, NEW d \in Installs, Take(d), turns' \in Nat, quiet' = quiet
  PROVE  NetInv'
<1> DEFINE s == state[d]
<1>1. PICK c \in Answers(s, text[d], PlanOf(d)) :
        /\ CanAdopt(s, c.text, c.adopt)
        /\ text' = [text EXCEPT ![d] = c.text]
        /\ state' = [state EXCEPT ![d] = Completed(s, c)]
  BY DEF Take, NetInv, Typed
<1>2. UNCHANGED <<staged, own, edits>>
  BY DEF Take
<1>3. /\ c.text \in Texts
      /\ GoodHeads(c.adopt) /\ \A h \in c.adopt : h.key.text = c.text
      /\ GoodHeads(c.seen)
  BY CheckGood, AnswersGood
<1>4. GoodState(s, d) /\ GoodOwn(own[d], s, d) /\ ~s.unpublished
  BY CheckGood DEF NetInv, PerInstall
<1>5. c.adopt # {} /\ s.pending = NoKey
  BY <1>1 DEF CanAdopt
<1> DEFINE new == Completed(s, c)
<1>6. GoodState(new, d) /\ new.base # NoKey /\ new.pending = NoKey /\ ~new.unpublished
  BY <1>3, <1>4, <1>5, RecordedGood DEF Completed
<1> HIDE DEF new
<1>7. state'[d] = new /\ text'[d] = c.text /\ new \in State
  BY <1>1, <1>6 DEF NetInv, Typed, new, GoodState
<1>8. Typed'
  BY <1>1, <1>2, <1>3, <1>7 DEF NetInv, Typed, new
<1>9. PerInstall(d)'
  <2>1. GoodOwn(own[d], new, d)
    BY <1>4, <1>6 DEF GoodOwn
  <2>2. staged[d] = NoVersion
    <3>1. staged[d] # NoVersion => GoodVersion(staged[d]) /\ s.pending = staged[d].key
      BY DEF NetInv, PerInstall
    <3>2. GoodVersion(staged[d]) => staged[d].key \in Key
      BY DEF GoodVersion
    <3> QED
      BY <1>5, <3>1, <3>2, NoKeyIsNone
  <2> QED
    BY <1>2, <1>6, <1>7, <2>1, <2>2 DEF PerInstall
<1> QED
  BY <1>1, <1>2, <1>8, <1>9, OneInstallActs

\* What is staged is a good version, and pending.
LEMMA StageKeeps ==
  ASSUME NetInv, NEW d \in Installs, Stage(d), turns' \in Nat, quiet' = quiet
  PROVE  NetInv'
<1> DEFINE s == state[d]
           plan == PlanOf(d)
           version == MakeConfigVersion(text[d], ProposedParents(s, plan))
<1>1. /\ Proposes(plan)
      /\ staged' = [staged EXCEPT ![d] = version]
      /\ state' = [state EXCEPT ![d].pending = staged'[d].key]
      /\ UNCHANGED <<text, own, edits>>
  BY DEF Stage, StageProposed
<1>2. /\ GoodState(s, d) /\ GoodOwn(own[d], s, d) /\ text[d] \in Texts
      /\ HeadsOfOthers(Current(d), d) /\ ~s.unpublished
      /\ plan = Plan(text[d], s, Current(d), own[d])
  BY CheckGood DEF NetInv, PerInstall
<1> HIDE DEF plan
<1>3. GoodParents(ProposedParents(s, plan))
  BY <1>1, <1>2, ProposedParentsGood
<1>4. GoodVersion(version)
  BY <1>2, <1>3, MadeVersionGood
<1> HIDE DEF version
<1>5. version \in [key : Key, lineage : Lineage] /\ version.key \in Key
  BY <1>4 DEF GoodVersion
<1>6. staged'[d] = version /\ state' = [state EXCEPT ![d] = [s EXCEPT !.pending = version.key]]
  BY <1>1 DEF NetInv, Typed
<1> DEFINE new == [s EXCEPT !.pending = version.key]
<1>7. GoodState(new, d) /\ new.pending = version.key /\ new.base = s.base
      /\ ~new.unpublished
  <2>1. s \in State
    BY <1>2 DEF GoodState
  <2> HIDE DEF s
  <2>2. /\ new \in State /\ new.install = s.install /\ new.base = s.base
        /\ new.lineage = s.lineage /\ new.equiv = s.equiv /\ new.pending = version.key
        /\ new.unpublished = s.unpublished
    BY <1>5, <2>1 DEF State
  <2> HIDE DEF new
  <2> QED
    BY <1>2, <2>2 DEF GoodState, StateValid
<1>8. version.key # NoKey
  BY <1>5, NoKeyIsNone
<1> HIDE DEF new
<1>9. state'[d] = new /\ new \in State
  BY <1>6, <1>7 DEF NetInv, Typed, new, GoodState
<1>10. Typed'
  BY <1>1, <1>5, <1>6, <1>9 DEF NetInv, Typed, new
<1>11. PerInstall(d)'
  <2>1. GoodOwn(own[d], new, d)
    BY <1>2, <1>7, <1>8 DEF GoodOwn
  <2> QED
    BY <1>1, <1>4, <1>6, <1>7, <1>9, <2>1 DEF PerInstall
<1> QED
  BY <1>1, <1>6, <1>10, <1>11, OneInstallActs

\* The posted record is the version that was staged; its key is still pending.
LEMMA PostKeeps ==
  ASSUME NetInv, NEW d \in Installs, Post(d), turns' \in Nat, quiet' = quiet
  PROVE  NetInv'
<1> DEFINE v == staged[d]
           head == [install |-> d, seq |-> own[d].seq + 1,
                    key |-> v.key, lineage |-> v.lineage]
<1>1. /\ v # NoVersion
      /\ own' = [own EXCEPT ![d] = head]
      /\ staged' = [staged EXCEPT ![d] = NoVersion]
      /\ UNCHANGED <<text, state, edits>>
  BY DEF Post
<1>2. /\ GoodState(state[d], d) /\ GoodVersion(v) /\ state[d].pending = v.key
      /\ ~state[d].unpublished
  BY <1>1 DEF NetInv, PerInstall
<1>3. v.key \in Key /\ v.lineage \in Lineage /\ ValidLineage(v.key, v.lineage) /\ v.key # NoKey
  BY <1>2, NoKeyIsNone DEF GoodVersion
<1>4. own[d].seq \in Nat
  BY DEF NetInv, Typed, ConfigHead, NoHead
<1> HIDE DEF v
<1>5. /\ head \in ConfigHead /\ head.install = d /\ head.key = v.key
      /\ ValidLineage(head.key, head.lineage)
  BY <1>3, <1>4 DEF ConfigHead
<1> HIDE DEF head
<1>6. own'[d] = head /\ staged'[d] = NoVersion
  BY <1>1 DEF NetInv, Typed
<1>7. Typed'
  BY <1>1, <1>5 DEF NetInv, Typed
<1>8. PerInstall(d)'
  <2>1. GoodOwn(head, state[d], d)
    BY <1>2, <1>3, <1>5 DEF GoodOwn
  <2> QED
    BY <1>1, <1>2, <1>5, <1>6, <2>1 DEF PerInstall
<1> QED
  BY <1>1, <1>7, <1>8, OneInstallActs

\* The record read back becomes the base.
LEMMA ConfirmKeeps ==
  ASSUME NetInv, NEW d \in Installs, Confirm(d), turns' \in Nat, quiet' = quiet
  PROVE  NetInv'
<1> DEFINE s == state[d]
           h == own[d]
           new == Confirmed(s, Version(h))
<1>1. /\ s.pending # NoKey /\ staged[d] = NoVersion
      /\ state' = [state EXCEPT ![d] = new]
      /\ UNCHANGED <<text, staged, own, edits>>
  BY DEF Confirm, NetInv, Typed
<1>2. GoodState(s, d) /\ GoodOwn(h, s, d) /\ s.pending \in {NoKey, staged[d].key, h.key}
      /\ ~s.unpublished
  BY DEF NetInv, PerInstall
<1>3. h # NoHead
  BY <1>1, <1>2 DEF NoVersion, NoHead
<1>4. /\ h \in ConfigHead /\ h.install = d /\ ValidLineage(h.key, h.lineage)
      /\ h.key \in Key /\ h.lineage \in Lineage /\ h.key # NoKey
  BY <1>2, <1>3, NoKeyIsNone DEF GoodOwn, ConfigHead
<1>5. GoodState(new, d) /\ new.base # NoKey /\ new.pending = NoKey /\ ~new.unpublished
  <2> DEFINE equiv == IF s.base.text = h.key.text THEN s.equiv ELSE {}
  <2>1. /\ s \in State /\ s.install = d /\ IsFiniteSet(s.equiv)
        /\ Cardinality(s.equiv) <= EquivLimit
        /\ \A k \in s.equiv : k.text = s.base.text
    BY <1>2 DEF GoodState, StateValid
  <2>2. new = [s EXCEPT !.base = h.key, !.lineage = h.lineage, !.equiv = equiv,
                        !.pending = NoKey]
    BY DEF Confirmed, Version
  <2>3. /\ equiv \in SUBSET Key /\ IsFiniteSet(equiv) /\ Cardinality(equiv) <= EquivLimit
        /\ \A k \in equiv : k.text = h.key.text
    <3>1. CASE s.base.text = h.key.text
      BY <2>1, <3>1 DEF State
    <3>2. CASE s.base.text # h.key.text
      <4>1. EquivLimit \in Nat
        BY ConfigSyncAssumption
      <4> QED
        BY <3>2, <4>1, FS_EmptySet
    <3> QED
      BY <3>1, <3>2
  <2> HIDE DEF s, h, equiv, new
  <2>4. /\ new \in State /\ new.install = d /\ new.base = h.key /\ new.lineage = h.lineage
        /\ new.equiv = equiv /\ new.pending = NoKey /\ new.unpublished = s.unpublished
    BY <1>4, <2>1, <2>2, <2>3 DEF State
  <2>5. StateValid(new)
    BY <1>4, <2>3, <2>4 DEF StateValid
  <2> QED
    BY <1>2, <1>4, <2>3, <2>4, <2>5 DEF GoodState
<1> HIDE DEF new
<1>6. state'[d] = new /\ new \in State
  BY <1>1, <1>5 DEF NetInv, Typed, GoodState
<1>7. Typed'
  BY <1>1, <1>6 DEF NetInv, Typed
<1>8. PerInstall(d)'
  <2>1. GoodOwn(h, new, d)
    BY <1>4, <1>5 DEF GoodOwn
  <2> QED
    BY <1>1, <1>5, <1>6, <2>1 DEF PerInstall
<1> QED
  BY <1>1, <1>7, <1>8, OneInstallActs

\* Every step keeps the invariant.
LEMMA NextKeeps ==
  ASSUME NetInv, [Next]_vars
  PROVE  NetInv'
<1>1. ASSUME NEW d \in Installs, Act(d) PROVE NetInv'
  <2>1. quiet' = quiet /\ turns' \in Nat
    <3>1. turns \in Nat
      BY DEF NetInv, Typed
    <3>2. quiet' = quiet /\ turns' = IF quiet THEN turns + 1 ELSE turns
      BY <1>1 DEF Act
    <3> QED
      BY <3>1, <3>2
  <2>2. Take(d) \/ Stage(d) \/ Post(d) \/ Confirm(d)
    BY <1>1 DEF Act
  <2> QED
    BY <2>1, <2>2, TakeKeeps, StageKeeps, PostKeeps, ConfirmKeeps
<1>2. ASSUME NEW d \in Installs, NEW t \in Texts, Edit(d, t) PROVE NetInv'
  BY <1>2, EditKeeps
<1>3. ASSUME Hush PROVE NetInv'
  <2>1. quiet' = TRUE /\ UNCHANGED <<text, state, staged, own, edits, turns>>
    BY <1>3 DEF Hush
  <2> QED
    BY <2>1 DEF NetInv, Typed, PerInstall
<1>4. ASSUME UNCHANGED vars PROVE NetInv'
  BY <1>4 DEF vars, NetInv, Typed, PerInstall
<1>5. Rest => UNCHANGED vars
  BY DEF Rest
<1> QED
  BY <1>1, <1>2, <1>3, <1>4, <1>5 DEF Next

\* NetInv always holds.
LEMMA InvHolds == Spec => []NetInv
<1>1. Init => NetInv
  BY InitGood
<1>2. NetInv /\ [Next]_vars => NetInv'
  BY NextKeeps
<1> QED
  BY <1>1, <1>2, PTL DEF Spec

---------------------------------------------------------------------------
(* The theorems.                                                           *)

\* Values keep their shape, and a pending key is that of the version staged or
\* just posted.
THEOREM TypesAlwaysOK == Spec => []TypeOK
<1>1. NetInv => TypeOK
  <2> SUFFICES ASSUME NetInv PROVE TypeOK
    OBVIOUS
  <2>1. ASSUME NEW d \in Installs
        PROVE  /\ staged[d] # NoVersion => state[d].pending = staged[d].key
               /\ state[d].pending \in {NoKey, staged[d].key, own[d].key}
               /\ own[d].install \in {0, d}
    BY DEF NetInv, PerInstall, GoodOwn, NoHead
  <2> QED
    BY <2>1 DEF NetInv, Typed, TypeOK
<1> QED
  BY <1>1, InvHolds, PTL

\* No check is ever refused, whatever was adopted, merged, trimmed and published.
THEOREM ChecksAreAnswered == Spec => []PlansValid
<1>1. NetInv => PlansValid
  BY CheckGood, PlanNeverInvalid DEF PlansValid
<1> QED
  BY <1>1, InvHolds, PTL

\* An update of an install is all there is to take: every new head that no other
\* new head was built on is known, or carries its text or the offered one.
LEMMA UpdateIsAll ==
  ASSUME NetInv, NEW d \in Installs
  PROVE  HidesNothing(d, PlanOf(d))
<1> DEFINE s == state[d]
           t == text[d]
           heads == Current(d)
           plan == PlanOf(d)
           outcomes == Classify(t, s, heads).outcomes
           new == NewHeads(s, heads)
           ahead == HeadsOf(outcomes, {"Ahead"})
<1>1. /\ GoodState(s, d) /\ HeadsOfOthers(heads, d)
      /\ plan = Plan(t, s, heads, own[d])
  BY CheckGood
<1>2. SUFFICES ASSUME plan.verdict = "UpdateReady", NEW h \in MaximalConfigHeads(new),
                      ~Knows(s, h), h.key.text # t
               PROVE  h.key.text \in {o.key.text : o \in plan.offered}
  BY DEF HidesNothing, New, NewHeads
<1>3. PlanWell(plan, t, s, heads, own[d])
  BY <1>1, PlanIs
<1>4. "Concurrent" \notin Kinds(t, s, heads) /\ "Unrelated" \notin Kinds(t, s, heads)
  BY <1>2, <1>3 DEF PlanWell
<1>5. [head |-> h, kind |-> KindOf(t, s, h)] \in outcomes
  BY <1>1, <1>2, Classification DEF ClassifiedWell
<1>6. KindOf(t, s, h) = "Ahead"
  <2>1. KindOf(t, s, h) \in {"Stale", "Same", "Ahead", "Concurrent", "Unrelated"}
    BY KindIs
  <2>2. KindOf(t, s, h) # "Stale" /\ KindOf(t, s, h) # "Same"
    BY <1>2, KindIs
  <2>3. KindOf(t, s, h) \in Kinds(t, s, heads)
    BY <1>5 DEF Kinds
  <2> QED
    BY <1>4, <2>1, <2>2, <2>3
<1>7. h \in ahead
  BY <1>5, <1>6 DEF HeadsOf
<1>8. plan.offered = {First(ahead)} /\ \A o \in ahead : o.key.text = First(ahead).key.text
  BY <1>1, <1>2, AheadAlike
<1> QED
  BY <1>7, <1>8

\* Two concurrent changes never hide behind an update.
THEOREM UpdatesHideNothing == Spec => []UpdateHidesNothing
<1>1. NetInv => UpdateHidesNothing
  BY UpdateIsAll DEF UpdateHidesNothing
<1> QED
  BY <1>1, InvHolds, PTL

\* What an answer promised is what a fresh check finds once it was carried out,
\* for installs that have not moved to another chat.
THEOREM PromisesKept == Spec => []PromiseKept
<1>1. ASSUME NetInv, NEW d \in Installs PROVE PlanKept(d, PlanOf(d))
  <2> DEFINE s == state[d]
             heads == Current(d)
             plan == PlanOf(d)
  <2>1. /\ GoodState(s, d) /\ GoodOwn(own[d], s, d) /\ ~s.unpublished
        /\ HeadsOfOthers(heads, d) /\ text[d] \in Texts
        /\ plan = Plan(text[d], s, heads, own[d])
    BY <1>1, CheckGood DEF NetInv, PerInstall
  <2> HIDE DEF s, heads, plan
  <2>2. ASSUME NEW c \in Answers(s, text[d], plan)
        PROVE  AnswerKept(c, plan, s, heads, own[d])
    <3>1. PICK pick \in Picks(plan) : c = PlanConfigChoice(s, text[d], plan, pick)
      BY DEF Answers
    <3> QED
      BY <2>1, <3>1, AnswersKept
  <2> QED
    BY <2>2 DEF PlanKept, AnswerKept, FreshPlan, s, heads, plan
<1>2. NetInv => PromiseKept
  BY <1>1 DEF PromiseKept
<1> QED
  BY <1>2, InvHolds, PTL

\* An answer that takes heads in takes those of its text, and leaves After.
LEMMA AnswerTaken ==
  ASSUME NEW s, NEW t, NEW plan, NEW c \in Answers(s, t, plan), c.adopt # {}
  PROVE  /\ c.adopt = Adopted(plan, c.text)
         /\ Completed(s, c) = After(s, c.text, plan)
<1>1. PICK pick \in Picks(plan) : c = PlanConfigChoice(s, t, plan, pick)
  BY DEF Answers
<1> DEFINE written == IF pick = NoKey THEN t ELSE pick.text
           choice == TakenChoice(plan, written)
<1>2. c # KeepChoice(s, t, plan)
  BY DEF KeepChoice
<1>3. c = choice \/ c = Promised(s, plan, pick, choice)
  BY <1>1, <1>2 DEF PlanConfigChoice, TakeChoice, TakenChoice
<1>4. /\ choice.text = written /\ choice.adopt = Adopted(plan, written)
      /\ choice.seen = Beside(plan, Adopted(plan, written))
      /\ DOMAIN choice = {"accepted", "text", "adopt", "seen", "publish", "parents"}
  BY DEF TakenChoice
<1> HIDE DEF choice, written
<1>5. c.text = choice.text /\ c.adopt = choice.adopt /\ c.seen = choice.seen
  <2>1. CASE c = choice
    BY <2>1
  <2>2. CASE c = Promised(s, plan, pick, choice)
    <3> DEFINE asked == [choice EXCEPT !.accepted = CanAdopt(s, choice.text, choice.adopt)]
    <3>1. /\ asked.text = choice.text /\ asked.adopt = choice.adopt
          /\ asked.seen = choice.seen
          /\ DOMAIN asked = {"accepted", "text", "adopt", "seen", "publish", "parents"}
      BY <1>4 DEF choice, TakenChoice
    <3>2. \E next, fresh : c = Promising(asked, pick, next, fresh)
      BY <2>2 DEF Promised
    <3> HIDE DEF asked
    <3>3. PICK next, fresh : c = Promising(asked, pick, next, fresh)
      BY <3>2
    <3> QED
      BY <3>1, <3>3 DEF Promising
  <2> QED
    BY <1>3, <2>1, <2>2
<1> QED
  BY <1>4, <1>5 DEF Completed, After

\* Settings taken in: of the heads of the check only some that were not known are
\* new to the state it leaves, so no other can be offered.
LEMMA TakeOffersNoneKnown ==
  ASSUME NetInv, NEW d \in Installs, Take(d), turns' \in Nat, quiet' = quiet
  PROVE  ~OffersKnown(d)
<1> DEFINE s == state[d]
           heads == Current(d)
           plan == PlanOf(d)
<1>1. PICK c \in Answers(s, text[d], plan) :
        /\ CanAdopt(s, c.text, c.adopt)
        /\ text' = [text EXCEPT ![d] = c.text]
        /\ state' = [state EXCEPT ![d] = Completed(s, c)]
  BY DEF Take, NetInv, Typed
<1>2. /\ GoodState(s, d) /\ HeadsOfOthers(heads, d) /\ text[d] \in Texts
      /\ plan = Plan(text[d], s, heads, own[d])
  BY CheckGood
<1>3. c.text \in Texts
  BY <1>2, AnswersGood
<1>4. c.adopt # {}
  BY <1>1 DEF CanAdopt
<1> DEFINE next == After(s, c.text, plan)
<1>5. Adopted(plan, c.text) # {} /\ Completed(s, c) = next
  BY <1>4, AnswerTaken
<1>6. own' = own
  BY DEF Take
<1>7. state'[d] = next /\ text'[d] = c.text
  BY <1>1, <1>5 DEF NetInv, Typed
<1> HIDE DEF s, heads, plan
<1>8. GoodState(next, d) /\ LeftWell(next, plan, text[d], s, heads, c.text)
  BY <1>2, <1>3, <1>5, LeftAfter
<1> HIDE DEF next
<1>9. Current(d)' = heads
  BY <1>6 DEF Current, heads
<1> DEFINE again == Plan(c.text, next, heads, own[d])
<1>10. PlanOf(d)' = again
  BY <1>6, <1>7, <1>9 DEF PlanOf
<1>11. again.offered \subseteq NewHeads(next, heads)
  <2>1. again.offered \subseteq MaximalConfigHeads(NewHeads(next, heads))
    BY <1>2, <1>8, OfferedGood
  <2> QED
    BY <2>1 DEF MaximalConfigHeads
<1> HIDE DEF again
<1>12. ASSUME NEW h \in heads, Knows(s, h) PROVE h \notin again.offered
  <2>1. KindOf(text[d], s, h) = "Stale"
    BY <1>12 DEF Knows, KindOf
  <2>2. "Stale" \notin {"Same"} \cup OfferedKinds
    BY DEF OfferedKinds
  <2>3. h \notin NewHeads(next, heads)
    BY <1>8, <2>1, <2>2 DEF LeftWell
  <2> QED
    BY <1>11, <2>3
<1> QED
  BY <1>9, <1>10, <1>12 DEF OffersKnown, s, heads

\* Something is pending once a version is staged, and nothing is offered then.
LEMMA StageOffersNothing ==
  ASSUME NetInv, NEW d \in Installs, Stage(d), turns' \in Nat, quiet' = quiet
  PROVE  ~OffersKnown(d)
<1>1. NetInv' /\ PerInstall(d)'
  BY StageKeeps DEF NetInv
<1>2. staged'[d] # NoVersion /\ staged'[d].key \in Key
  <2> DEFINE plan == PlanOf(d)
             version == MakeConfigVersion(text[d], ProposedParents(state[d], plan))
  <2>1. Proposes(plan) /\ staged' = [staged EXCEPT ![d] = version]
    BY DEF Stage, StageProposed
  <2>2. GoodParents(ProposedParents(state[d], plan)) /\ text[d] \in Texts
    BY <2>1, CheckGood, ProposedParentsGood
  <2>3. GoodVersion(version)
    BY <2>2, MadeVersionGood
  <2> HIDE DEF version
  <2>4. staged'[d] = version
    BY <2>1 DEF NetInv, Typed
  <2> QED
    BY <2>3, <2>4, NoKeyIsNone DEF GoodVersion, NoVersion
<1>3. state'[d].pending # NoKey
  BY <1>1, <1>2, NoKeyIsNone DEF PerInstall
<1> DEFINE heads == Current(d)'
           plan == Plan(text'[d], state'[d], heads, own'[d])
<1>4. PlanOf(d)' = plan
  BY DEF PlanOf
<1> HIDE DEF heads
<1>5. PlanWell(plan, text'[d], state'[d], heads, own'[d])
  BY PlanIs
<1> HIDE DEF plan
<1>6. plan.verdict \in {"Invalid", "Pending"}
  BY <1>3, <1>5 DEF PlanWell
<1>7. plan.offered = {}
  BY <1>5, <1>6 DEF PlanWell
<1> QED
  BY <1>4, <1>7 DEF OffersKnown

\* Settings taken in: the versions adopted are the base and the unknown heads of
\* the text, and merging them keeps what each was built on.
LEMMA TakeKeepsHistory ==
  ASSUME NetInv, NEW d \in Installs, Take(d), NEW v \in Taken(d)
  PROVE  Accounts(state'[d], v)
<1> DEFINE s == state[d]
           heads == Current(d)
           plan == PlanOf(d)
<1>1. PICK c \in Answers(s, text[d], plan) :
        /\ CanAdopt(s, c.text, c.adopt)
        /\ text' = [text EXCEPT ![d] = c.text]
        /\ state' = [state EXCEPT ![d] = Completed(s, c)]
  BY DEF Take, NetInv, Typed
<1>2. /\ GoodState(s, d) /\ HeadsOfOthers(heads, d) /\ text[d] \in Texts
      /\ plan = Plan(text[d], s, heads, own[d])
  BY CheckGood
<1>3. c.text \in Texts
  BY <1>2, AnswersGood
<1>4. c.adopt # {}
  BY <1>1 DEF CanAdopt
<1> DEFINE next == After(s, c.text, plan)
           adopt == Adopted(plan, c.text)
<1>5. adopt # {} /\ Completed(s, c) = next
  BY <1>4, AnswerTaken
<1>6. state'[d] = next /\ text'[d] = c.text
  BY <1>1, <1>5 DEF NetInv, Typed
<1>7. /\ v.key.text = c.text
      /\ \/ v = BaseVersion(s)
         \/ \E h \in MaximalConfigHeads(NewHeads(s, heads)) : v = Version(h) /\ ~Knows(s, h)
  BY <1>6 DEF Taken, New, NewHeads
<1> HIDE DEF s, heads, plan
<1>8. AdoptedKept(next, s, c.text, adopt)
  BY <1>2, <1>3, <1>5, LeftAfter
<1>9. adopt = {h \in MaximalConfigHeads(NewHeads(s, heads)) :
                 KindOf(text[d], s, h) # "Stale" /\ h.key.text = c.text}
  BY <1>2, AdoptedAre
<1> HIDE DEF next, adopt
<1>10. IsAdopted(v, s, c.text, adopt)
  <2>1. CASE v = BaseVersion(s)
    BY <1>7, <2>1 DEF IsAdopted, BaseVersion
  <2>2. ASSUME NEW h \in MaximalConfigHeads(NewHeads(s, heads)), v = Version(h), ~Knows(s, h)
        PROVE  IsAdopted(v, s, c.text, adopt)
    <3>1. KindOf(text[d], s, h) # "Stale"
      BY <2>2, KindIs
    <3>2. h.key.text = c.text
      BY <1>7, <2>2 DEF Version
    <3> QED
      BY <1>9, <2>2, <3>1, <3>2 DEF IsAdopted
  <2> QED
    BY <1>7, <2>1, <2>2
<1> QED
  BY <1>6, <1>8, <1>10 DEF AdoptedKept

\* A publish is proposed only when no unknown head has the text that is published,
\* and it leaves the base as it is until it is read back.
LEMMA StageKeepsHistory ==
  ASSUME NetInv, NEW d \in Installs, Stage(d), NEW v \in Taken(d)
  PROVE  Accounts(state'[d], v)
<1> DEFINE s == state[d]
           t == text[d]
           heads == Current(d)
           plan == PlanOf(d)
           outcomes == Classify(t, s, heads).outcomes
           maximal == MaximalConfigHeads(NewHeads(s, heads))
<1>1. /\ GoodState(s, d) /\ HeadsOfOthers(heads, d) /\ t \in Texts
      /\ plan = Plan(t, s, heads, own[d])
  BY CheckGood
<1>2. Proposes(plan) /\ text' = text
  BY DEF Stage, StageProposed
<1>3. /\ state'[d].base = s.base /\ state'[d].lineage = s.lineage
      /\ state'[d].equiv = s.equiv
  <2>1. state' = [state EXCEPT ![d].pending = staged'[d].key]
    BY DEF Stage, StageProposed
  <2>2. state'[d] = [s EXCEPT !.pending = staged'[d].key]
    BY <2>1 DEF NetInv, Typed
  <2>3. s \in State
    BY <1>1 DEF GoodState
  <2> HIDE DEF s
  <2> QED
    BY <2>2, <2>3 DEF State
<1>4. /\ v.key.text = t
      /\ v = BaseVersion(s) \/ \E h \in maximal : v = Version(h) /\ ~Knows(s, h)
  BY <1>2 DEF Taken, New, NewHeads
<1> HIDE DEF s, t, heads, plan
<1>5. PlanWell(plan, t, s, heads, own[d])
  BY <1>1, PlanIs
<1>6. ASSUME NEW h \in maximal, h.key.text = t, ~Knows(s, h) PROVE FALSE
  <2>1. KindOf(t, s, h) = "Same"
    BY <1>6 DEF KindOf, Knows
  <2>2. [head |-> h, kind |-> "Same"] \in outcomes
    BY <1>1, <2>1, Classification DEF ClassifiedWell
  <2>3. "Same" \in Kinds(t, s, heads) /\ h \in HeadsOf(outcomes, {"Same"})
    BY <2>2 DEF Kinds, HeadsOf
  <2>4. plan.verdict \notin {"Empty", "LocalChanges"}
    BY <1>1, <2>3, NoSameLeft
  <2>5. plan.verdict \in {"Choose", "Conflict"} /\ plan.same = {}
    BY <1>2, <2>4 DEF Proposes
  <2> QED
    BY <1>5, <2>3, <2>5 DEF PlanWell
<1>7. v = BaseVersion(s)
  BY <1>4, <1>6 DEF Version
<1>8. v.key = s.base /\ v.lineage = s.lineage /\ s.base # NoKey
  BY <1>1, <1>4, <1>7, ConfigSyncAssumption DEF BaseVersion, NoKey
<1>9. s.base.gen \in Nat
  BY <1>1, <1>8 DEF GoodState, State, Key
<1> QED
  BY <1>3, <1>8, <1>9 DEF Accounts, KnownKeys

\* The steps that change the state of a device that has nothing pending.
LEMMA StateSteps ==
  ASSUME NetInv, [Next]_vars, NEW d \in Installs, state[d]' # state[d], ~Pending(d)
  PROVE  /\ Take(d) \/ Stage(d)
         /\ quiet' = quiet /\ turns' \in Nat
<1>1. ASSUME NEW e \in Installs, Act(e)
      PROVE  /\ Take(d) \/ Stage(d)
             /\ quiet' = quiet /\ turns' \in Nat
  <2>1. quiet' = quiet /\ turns' \in Nat
    <3>1. turns \in Nat
      BY DEF NetInv, Typed
    <3>2. quiet' = quiet /\ turns' = IF quiet THEN turns + 1 ELSE turns
      BY <1>1 DEF Act
    <3> QED
      BY <3>1, <3>2
  <2>2. state \in [Installs -> State]
    BY DEF NetInv, Typed
  <2>3. CASE Take(e)
    <3>1. e = d
      BY <2>2, <2>3 DEF Take
    <3> QED
      BY <2>1, <2>3, <3>1
  <2>4. CASE Stage(e)
    <3>1. e = d
      BY <2>2, <2>4 DEF Stage, StageProposed
    <3> QED
      BY <2>1, <2>4, <3>1
  <2>5. CASE Post(e)
    BY <2>5 DEF Post
  <2>6. CASE Confirm(e)
    BY <2>2, <2>6 DEF Confirm, Pending
  <2> QED
    BY <1>1, <2>3, <2>4, <2>5, <2>6 DEF Act
<1>2. ASSUME NEW e \in Installs, NEW t \in Texts, Edit(e, t) PROVE state' = state
  BY <1>2 DEF Edit
<1>3. (Hush \/ Rest \/ UNCHANGED vars) => state' = state
  BY DEF Hush, Rest, vars
<1> QED
  BY <1>1, <1>2, <1>3 DEF Next

\* A device that takes settings in is not offered again what it accounted for,
\* at whatever limit lineages are cut, for any number of installs.
THEOREM TakenForGood == Spec => TakesForGood
<1>1. NetInv /\ [Next]_vars =>
        [\A d \in Installs : state[d]' # state[d] /\ ~Pending(d) => ~OffersKnown(d)]_vars
  BY StateSteps, TakeOffersNoneKnown, StageOffersNothing
<1> QED
  BY <1>1, InvHolds, PTL DEF Spec, TakesForGood

\* What a device takes in stays accounted for with all it was built on, but for the
\* oldest keys of a full lineage.
THEOREM HistoriesKept == Spec => AdoptionKeepsHistory
<1>1. NetInv /\ [Next]_vars =>
        [\A d \in Installs : state[d]' # state[d] /\ ~Pending(d) =>
           \A v \in Taken(d) : Accounts(state[d]', v)]_vars
  BY StateSteps, TakeKeepsHistory, StageKeepsHistory
<1> QED
  BY <1>1, InvHolds, PTL DEF Spec, AdoptionKeepsHistory
=============================================================================
