------------------------------ MODULE DataLemmas ------------------------------
(***************************************************************************)
(* Facts about the data of the modules, cited by the proofs of several     *)
(* components: natural numbers, ranks in an order, sets of numbers in      *)
(* order, and the key order of an OrderedDict.                             *)
(***************************************************************************)
EXTENDS Ordering, OrderedDict, FiniteSetTheorems, FunctionTheorems, TLAPS

\* Induction, for a set.  The successor maps the numbers of S up to one outside of S
\* into themselves, one to one, so it would have to reach 0.
LEMMA SetInduction ==
  ASSUME NEW S, 0 \in S, \A n \in Nat : n \in S => n + 1 \in S
  PROVE  \A n \in Nat : n \in S
<1> SUFFICES ASSUME NEW n \in Nat, n \notin S PROVE FALSE
  OBVIOUS
<1> DEFINE T == {k \in 0..n : k \in S}
           f == [k \in T |-> k + 1]
<1>1. IsFiniteSet(T) /\ 0 \in T
  <2>1. IsFiniteSet(0..n)
    BY FS_Interval
  <2> QED  BY <2>1, FS_Subset
<1>2. \A k \in T : k + 1 \in T /\ k \in Nat
  OBVIOUS
<1>3. f \in Injection(T, T)
  <2>1. f \in [T -> T] /\ \A a, b \in T : f[a] = f[b] => a = b
    BY <1>2
  <2> QED  BY <2>1, Fun_IsInj
<1>4. \E k \in T : f[k] = 0
  <2>1. f \in Surjection(T, T)
    BY <1>1, <1>3, FS_Injection
  <2> QED  BY <1>1, <2>1, Fun_SurjectionProperties
<1> QED  BY <1>2, <1>4

\* A function without repetitions takes as many values as it has arguments.
LEMMA DistinctImage ==
  ASSUME NEW S, IsFiniteSet(S), NEW f, \A a, b \in S : f[a] = f[b] => a = b
  PROVE  /\ IsFiniteSet({f[a] : a \in S})
         /\ Cardinality({f[a] : a \in S}) = Cardinality(S)
<1> DEFINE T == {f[a] : a \in S}
           g == [a \in S |-> f[a]]
<1>1. g \in [S -> T] /\ (\A a, b \in S : g[a] = g[b] => a = b) /\ (\A t \in T : \E a \in S : g[a] = t)
  OBVIOUS
<1> HIDE DEF g, T
<1>2. g \in Bijection(S, T)
  BY <1>1, Fun_IsBij
<1>3. ExistsBijection(S, T)
  BY <1>2 DEF ExistsBijection
<1> QED  BY <1>3, FS_Bijection DEF T

TotalOrder(R, S) ==
  /\ \A x, y \in S : <<x, y>> \in R \/ <<y, x>> \in R
  /\ \A x, y \in S : <<x, y>> \in R /\ <<y, x>> \in R => x = y
  /\ \A x, y, z \in S : <<x, y>> \in R /\ <<y, z>> \in R => <<x, z>> \in R

Ranking(rank, R, S) ==
  /\ rank \in [S -> Int]
  /\ \A x \in S : rank[x] = Cardinality({y \in S : <<y, x>> \in R})

\* In a finite set with a total order, the ranks of the elements are 1, 2, ...
LEMMA Ranks ==
  ASSUME NEW S, IsFiniteSet(S), NEW R, TotalOrder(R, S), NEW rank, Ranking(rank, R, S)
  PROVE  /\ \A x \in S : rank[x] \in 1 .. Cardinality(S)
         /\ \A x, y \in S : <<x, y>> \in R /\ x # y => rank[x] < rank[y]
         /\ rank \in Surjection(S, 1 .. Cardinality(S))
<1> USE DEF TotalOrder, Ranking
<1> DEFINE Down(x) == {y \in S : <<y, x>> \in R}
<1>1. ASSUME NEW x \in S
      PROVE  IsFiniteSet(Down(x)) /\ rank[x] \in 1 .. Cardinality(S)
  <2>1. IsFiniteSet(Down(x)) /\ Cardinality(Down(x)) <= Cardinality(S)
    BY FS_Subset
  <2>2. Cardinality(Down(x)) \in Nat /\ Cardinality(S) \in Nat
    BY <2>1, FS_CardinalityType
  <2>3. x \in Down(x)
    OBVIOUS
  <2>4. Cardinality(Down(x)) # 0
    BY <2>1, <2>3, FS_EmptySet
  <2> QED  BY <2>1, <2>2, <2>4
<1>2. ASSUME NEW x \in S, NEW y \in S, <<x, y>> \in R, x # y
      PROVE  rank[x] < rank[y]
  <2>1. Down(x) \subseteq Down(y) /\ y \in Down(y) /\ y \notin Down(x)
    BY <1>2
  <2>2. Cardinality(Down(x)) <= Cardinality(Down(y)) /\ Cardinality(Down(x)) # Cardinality(Down(y))
    BY <1>1, <2>1, FS_Subset
  <2>3. rank[x] = Cardinality(Down(x)) /\ rank[y] = Cardinality(Down(y))
    OBVIOUS
  <2> QED  BY <2>2, <2>3
<1>3. rank \in Injection(S, 1 .. Cardinality(S))
  <2>1. rank \in [S -> 1 .. Cardinality(S)]
    BY <1>1
  <2>2. ASSUME NEW a \in S, NEW b \in S, rank[a] = rank[b] PROVE a = b
    <3>1. <<a, b>> \in R /\ a # b => FALSE
      BY <1>2, <2>2
    <3>2. <<b, a>> \in R /\ a # b => FALSE
      BY <1>2, <2>2
    <3> QED  BY <3>1, <3>2
  <2> QED  BY <2>1, <2>2, Fun_IsInj
<1>4. rank \in Surjection(S, 1 .. Cardinality(S))
  <2>1. Cardinality(S) \in Nat
    BY FS_CardinalityType
  <2>2. IsFiniteSet(1 .. Cardinality(S)) /\ Cardinality(1 .. Cardinality(S)) = Cardinality(S)
    BY <2>1, FS_Interval
  <2> QED  BY <1>3, <2>2, FS_Injection
<1> QED  BY <1>1, <1>2, <1>4

\* InOrder lists the elements of a finite set of numbers, each once, by size.
LEMMA InOrderSorts ==
  ASSUME NEW S, S \subseteq Int, IsFiniteSet(S)
  PROVE  /\ Cardinality(S) \in Nat
         /\ InOrder(S) \in Seq(S)
         /\ Len(InOrder(S)) = Cardinality(S)
         /\ \A i, j \in 1 .. Cardinality(S) : i < j => InOrder(S)[i] < InOrder(S)[j]
         /\ \A t \in S : \E i \in 1 .. Cardinality(S) : InOrder(S)[i] = t
<1> DEFINE rank == [t \in S |-> Cardinality({u \in S : u <= t})]
           R == {p \in S \X S : p[1] <= p[2]}
           s == InOrder(S)
<1>1. Cardinality(S) \in Nat
  BY FS_CardinalityType
<1>2. rank \in [S -> Int]
  <2>1. \A t \in S : IsFiniteSet({u \in S : u <= t})
    BY FS_Subset
  <2> QED  BY <2>1, FS_CardinalityType
<1>3. /\ \A x \in S : rank[x] \in 1 .. Cardinality(S)
      /\ \A x, y \in S : x < y => rank[x] < rank[y]
      /\ \A n \in 1 .. Cardinality(S) : \E x \in S : rank[x] = n
  <2>1. \A x, y \in S : <<x, y>> \in R <=> x <= y
    OBVIOUS
  <2>2. \A x \in S : rank[x] = Cardinality({y \in S : <<y, x>> \in R})
    <3>1. \A x \in S : {y \in S : <<y, x>> \in R} = {y \in S : y <= x}
      BY <2>1
    <3> QED  BY <3>1
  <2> HIDE DEF R, rank
  <2>3. \A x, y \in S : <<x, y>> \in R \/ <<y, x>> \in R
    <3>1. \A x, y \in S : x <= y \/ y <= x
      OBVIOUS
    <3> QED  BY <2>1, <3>1, Zenon
  <2>4. \A x, y \in S : <<x, y>> \in R /\ <<y, x>> \in R => x = y
    <3>1. \A x, y \in S : x <= y /\ y <= x => x = y
      OBVIOUS
    <3> QED  BY <2>1, <3>1, Zenon
  <2>5. \A x, y, z \in S : <<x, y>> \in R /\ <<y, z>> \in R => <<x, z>> \in R
    <3>1. \A x, y, z \in S : x <= y /\ y <= z => x <= z
      OBVIOUS
    <3> QED  BY <2>1, <3>1, Zenon
  <2>6. /\ \A x \in S : rank[x] \in 1 .. Cardinality(S)
        /\ \A x, y \in S : <<x, y>> \in R /\ x # y => rank[x] < rank[y]
        /\ \A n \in 1 .. Cardinality(S) : \E x \in S : rank[x] = n
    <3>1. TotalOrder(R, S)
      BY <2>3, <2>4, <2>5 DEF TotalOrder
    <3>2. Ranking(rank, R, S)
      BY <1>2, <2>2 DEF Ranking
    <3>3. \A x \in S : rank[x] \in 1 .. Cardinality(S)
      BY <3>1, <3>2, Ranks
    <3>4. \A x, y \in S : <<x, y>> \in R /\ x # y => rank[x] < rank[y]
      BY <3>1, <3>2, Ranks
    <3>5. \A n \in 1 .. Cardinality(S) : \E x \in S : rank[x] = n
      <4>1. rank \in Surjection(S, 1 .. Cardinality(S))
        BY <3>1, <3>2, Ranks
      <4> QED  BY <4>1, Fun_SurjectionProperties, Zenon
    <3> QED  BY <3>3, <3>4, <3>5
  <2>7. \A x, y \in S : x < y => <<x, y>> \in R /\ x # y
    <3>1. \A x, y \in S : x < y => x <= y /\ x # y
      OBVIOUS
    <3> QED  BY <2>1, <3>1, Zenon
  <2> QED  BY <2>6, <2>7
<1>4. ASSUME NEW n \in 1 .. Cardinality(S)
      PROVE  s[n] \in S /\ rank[s[n]] = n
  <2>1. \E t \in S : Cardinality({u \in S : u <= t}) = n
    BY <1>3
  <2>2. s[n] = CHOOSE t \in S : Cardinality({u \in S : u <= t}) = n
    BY DEF InOrder
  <2> QED  BY <2>1, <2>2
<1> HIDE DEF rank
<1>5. s \in Seq(S) /\ Len(s) = Cardinality(S)
  <2>1. s = [n \in 1 .. Cardinality(S) |-> s[n]]
    BY DEF InOrder
  <2> HIDE DEF s
  <2> QED  BY <1>1, <1>4, <2>1
<1> HIDE DEF s
<1>6. ASSUME NEW i \in 1 .. Cardinality(S), NEW j \in 1 .. Cardinality(S), i < j
      PROVE  s[i] < s[j]
  <2>1. s[i] \in Int /\ s[j] \in Int /\ rank[s[i]] < rank[s[j]]
    BY <1>4, <1>6
  <2>2. s[j] < s[i] => rank[s[j]] < rank[s[i]]
    BY <1>3, <1>4
  <2>3. rank[s[i]] \in Int /\ rank[s[j]] \in Int
    BY <1>4
  <2> QED  BY <2>1, <2>2, <2>3
<1>7. ASSUME NEW t \in S
      PROVE  \E i \in 1 .. Cardinality(S) : s[i] = t
  <2>1. rank[t] \in 1 .. Cardinality(S)
    BY <1>3
  <2>2. s[rank[t]] \in S /\ rank[s[rank[t]]] = rank[t]
    BY <1>4, <2>1
  <2>3. ASSUME NEW x \in S, rank[x] = rank[t] PROVE x = t
    <3>1. rank[x] \in Int /\ rank[t] \in Int /\ x \in Int /\ t \in Int
      BY <1>3
    <3>2. ~ (x < t) /\ ~ (t < x)
      BY <1>3, <2>3, <3>1
    <3> QED  BY <3>1, <3>2
  <2> QED  BY <2>1, <2>2, <2>3
<1> QED  BY <1>1, <1>5, <1>6, <1>7 DEF s

\* A finite set of numbers that is not empty has a least and a greatest element.
LEMMA LeastExists ==
  ASSUME NEW S, S \subseteq Int, IsFiniteSet(S), S # {}
  PROVE  /\ \E i \in S : \A j \in S : i <= j
         /\ \E i \in S : \A j \in S : j <= i
<1> DEFINE n == Cardinality(S)
           s == InOrder(S)
<1>1. n \in Nat /\ n # 0
  BY FS_CardinalityType, FS_EmptySet
<1>2. /\ \A i \in 1..n : s[i] \in S
      /\ \A i, j \in 1..n : i < j => s[i] < s[j]
      /\ \A t \in S : \E i \in 1..n : s[i] = t
  <2>1. s \in Seq(S) /\ Len(s) = n
    BY InOrderSorts
  <2>2. \A i, j \in 1..n : i < j => s[i] < s[j]
    BY InOrderSorts
  <2>3. \A t \in S : \E i \in 1..n : s[i] = t
    BY InOrderSorts
  <2> HIDE DEF s, n
  <2> QED  BY <2>1, <2>2, <2>3
<1> HIDE DEF s, n
<1>3. ASSUME NEW i \in 1..n PROVE s[i] \in Int /\ s[1] <= s[i] /\ s[i] <= s[n]
  <2>1. i \in Int /\ 1 \in 1..n /\ n \in 1..n /\ s[i] \in Int /\ s[1] \in Int /\ s[n] \in Int
    <3>1. i \in Int /\ 1 \in 1..n /\ n \in 1..n
      BY <1>1
    <3>2. s[i] \in S /\ s[1] \in S /\ s[n] \in S
      BY <1>2, <3>1
    <3> QED  BY <3>1, <3>2
  <2>2. (1 < i => s[1] < s[i]) /\ (i < n => s[i] < s[n])
    BY <1>2, <2>1
  <2>3. (i = 1 \/ 1 < i) /\ (i = n \/ i < n)
    BY <1>1
  <2> QED  BY <2>1, <2>2, <2>3
<1>4. s[1] \in S /\ s[n] \in S
  BY <1>1, <1>2
<1>5. ASSUME NEW t \in S PROVE s[1] <= t /\ t <= s[n]
  BY <1>2, <1>3
<1> QED  BY <1>4, <1>5

\* The entries of a sequence at some positions, in order.
LEMMA EntriesAtKeeps ==
  ASSUME NEW s, NEW S, S \subseteq Int, IsFiniteSet(S), NEW T, \A i \in S : s[i] \in T
  PROVE  /\ EntriesAt(s, S) \in Seq(T)
         /\ Len(EntriesAt(s, S)) = Cardinality(S)
         /\ \A n \in 1 .. Cardinality(S) : \E i \in S : EntriesAt(s, S)[n] = s[i]
<1> DEFINE e == EntriesAt(s, S)
<1>1. Cardinality(S) \in Nat /\ \A n \in 1 .. Cardinality(S) : InOrder(S)[n] \in S
  <2>1. Cardinality(S) \in Nat /\ InOrder(S) \in Seq(S) /\ Len(InOrder(S)) = Cardinality(S)
    BY InOrderSorts
  <2> QED  BY <2>1
<1>2. \A n \in 1 .. Cardinality(S) : e[n] = s[InOrder(S)[n]]
  BY DEF EntriesAt
<1>3. e = [n \in 1 .. Cardinality(S) |-> e[n]]
  BY DEF EntriesAt
<1> HIDE DEF e
<1>4. \A n \in 1 .. Cardinality(S) : e[n] \in T /\ \E i \in S : e[n] = s[i]
  BY <1>1, <1>2
<1>5. e \in Seq(T) /\ Len(e) = Cardinality(S)
  BY <1>1, <1>3, <1>4
<1> QED  BY <1>4, <1>5 DEF e

\* move_to_end permutes the entries (get_trace of a cached trace, state of a known conversation).
LEMMA MoveToEndPermutes ==
  ASSUME NEW S, NEW s \in Seq(S), \A i, j \in DOMAIN s : s[i] = s[j] => i = j,
         NEW t, \E i \in DOMAIN s : s[i] = t
  PROVE  /\ MoveToEnd(s, t) \in Seq(S)
         /\ Len(MoveToEnd(s, t)) = Len(s)
         /\ \A i, j \in DOMAIN s : MoveToEnd(s, t)[i] = MoveToEnd(s, t)[j] => i = j
         /\ \A i \in DOMAIN s : \E j \in DOMAIN s : MoveToEnd(s, t)[i] = s[j]
<1> DEFINE p == CHOOSE i \in DOMAIN s : s[i] = t
           m == [i \in DOMAIN s |-> IF i < p THEN s[i] ELSE IF i < Len(s) THEN s[i + 1] ELSE t]
<1>1. Len(s) \in Nat /\ DOMAIN s = 1..Len(s)
  OBVIOUS
<1>2. p \in DOMAIN s /\ s[p] = t
  OBVIOUS
<1>3. MoveToEnd(s, t) = m
  BY DEF MoveToEnd
<1> HIDE DEF p
<1>4. \A i \in DOMAIN s : m[i] \in S
  BY <1>1, <1>2
<1>5. m \in Seq(S) /\ Len(m) = Len(s)
  BY <1>1, <1>4
<1>6. ASSUME NEW i \in DOMAIN s, NEW j \in DOMAIN s, m[i] = m[j]
      PROVE  i = j
  BY <1>1, <1>2, <1>6
<1>7. \A i \in DOMAIN s : \E j \in DOMAIN s : m[i] = s[j]
  BY <1>1, <1>2
<1>8. QED
  BY <1>3, <1>5, <1>6, <1>7

\* popitem(last=False) leaves the other keys.
LEMMA PopRemoves ==
  ASSUME NEW S, NEW s \in Seq(S), \A i, j \in DOMAIN s : s[i] = s[j] => i = j, s # <<>>
  PROVE  /\ Tail(s) \in Seq(S)
         /\ Len(Tail(s)) = Len(s) - 1
         /\ \A i, j \in DOMAIN Tail(s) : Tail(s)[i] = Tail(s)[j] => i = j
         /\ Keys(Tail(s)) \subseteq Keys(s)
<1>1. /\ Len(s) \in Nat \ {0}
      /\ Tail(s) \in Seq(S)
      /\ Len(Tail(s)) = Len(s) - 1
      /\ \A i \in DOMAIN Tail(s) : i + 1 \in DOMAIN s /\ Tail(s)[i] = s[i + 1]
  OBVIOUS
<1>2. \A i \in DOMAIN Tail(s) : i \in Int
  BY <1>1
<1>3. \A i, j \in DOMAIN Tail(s) : Tail(s)[i] = Tail(s)[j] => i = j
  BY <1>1, <1>2
<1> QED  BY <1>1, <1>3 DEF Keys

\* The insertion of a new key.
LEMMA InsertAdds ==
  ASSUME NEW S, NEW s \in Seq(S), \A i, j \in DOMAIN s : s[i] = s[j] => i = j,
         NEW k \in S, k \notin Keys(s)
  PROVE  /\ Append(s, k) \in Seq(S)
         /\ Len(Append(s, k)) = Len(s) + 1
         /\ \A i, j \in DOMAIN Append(s, k) : Append(s, k)[i] = Append(s, k)[j] => i = j
         /\ Keys(Append(s, k)) = Keys(s) \cup {k}
<1>1. /\ Len(s) \in Nat
      /\ Append(s, k) \in Seq(S)
      /\ Len(Append(s, k)) = Len(s) + 1
      /\ DOMAIN Append(s, k) = 1..(Len(s) + 1)
      /\ DOMAIN s = 1..Len(s)
      /\ \A i \in 1..(Len(s) + 1) : Append(s, k)[i] = IF i \in DOMAIN s THEN s[i] ELSE k
  OBVIOUS
<1>2. \A i \in 1..(Len(s) + 1) : i \notin DOMAIN s => i = Len(s) + 1
  BY <1>1
<1>3. \A i, j \in DOMAIN Append(s, k) : Append(s, k)[i] = Append(s, k)[j] => i = j
  BY <1>1, <1>2 DEF Keys
<1>4. Keys(Append(s, k)) = Keys(s) \cup {k}
  <2>1. Len(s) + 1 \in 1..(Len(s) + 1) /\ Len(s) + 1 \notin DOMAIN s
    BY <1>1
  <2>2. k \in Keys(Append(s, k))
    BY <1>1, <2>1 DEF Keys
  <2>3. \A i \in DOMAIN s : i \in 1..(Len(s) + 1)
    BY <1>1
  <2>4. Keys(s) \subseteq Keys(Append(s, k))
    BY <1>1, <2>3 DEF Keys
  <2>5. Keys(Append(s, k)) \subseteq Keys(s) \cup {k}
    BY <1>1 DEF Keys
  <2> QED  BY <2>2, <2>4, <2>5
<1> QED  BY <1>1, <1>3, <1>4

\* The values a function takes on a finite set.
LEMMA ImageIsFinite ==
  ASSUME NEW S, IsFiniteSet(S), NEW f
  PROVE  /\ IsFiniteSet({f[a] : a \in S})
         /\ Cardinality({f[a] : a \in S}) <= Cardinality(S)
         /\ Cardinality({f[a] : a \in S}) = Cardinality(S)
              => \A a, b \in S : f[a] = f[b] => a = b
<1> DEFINE T == {f[a] : a \in S}
           g == [a \in S |-> f[a]]
<1>1. g \in [S -> T] /\ (\A t \in T : \E a \in S : g[a] = t) /\ (\A a \in S : g[a] = f[a])
  OBVIOUS
<1> HIDE DEF g, T
<1>2. g \in Surjection(S, T)
  BY <1>1, Fun_IsSurj
<1>3. /\ IsFiniteSet(T) /\ Cardinality(T) <= Cardinality(S)
      /\ Cardinality(T) = Cardinality(S) <=> g \in Injection(S, T)
  BY <1>2, FS_Surjection
<1>4. g \in Injection(S, T) => \A a, b \in S : g[a] = g[b] => a = b
  BY DEF Injection, IsInjective
<1> QED  BY <1>1, <1>3, <1>4 DEF T

\* A set whose elements fall into as many classes of k each.
LEMMA Classes ==
  ASSUME NEW S, IsFiniteSet(S), NEW I, IsFiniteSet(I), NEW k \in Nat, NEW class,
         \A x \in S : class[x] \in I,
         \A i \in I : Cardinality({x \in S : class[x] = i}) = k
  PROVE  Cardinality(S) = Cardinality(I) * k
<1> DEFINE Of(J) == {x \in S : class[x] \in J}
           G == {n \in Nat : \A J \in SUBSET I : Cardinality(J) = n => Cardinality(Of(J)) = n * k}
<1>1. 0 \in G
  <2> SUFFICES ASSUME NEW J \in SUBSET I, Cardinality(J) = 0 PROVE Cardinality(Of(J)) = 0 * k
    OBVIOUS
  <2>1. J = {}
    <3>1. IsFiniteSet(J)
      BY FS_Subset
    <3> QED  BY <3>1, FS_EmptySet
  <2>2. Of(J) = {}
    BY <2>1
  <2> QED  BY <2>2, FS_EmptySet
<1>2. ASSUME NEW n \in Nat, n \in G PROVE n + 1 \in G
  <2> SUFFICES ASSUME NEW J \in SUBSET I, Cardinality(J) = n + 1
               PROVE  Cardinality(Of(J)) = (n + 1) * k
    OBVIOUS
  <2>1. IsFiniteSet(J) /\ J # {}
    BY FS_Subset, FS_EmptySet
  <2> PICK i \in J : TRUE
    BY <2>1
  <2> DEFINE A == Of(J \ {i})
             B == {x \in S : class[x] = i}
  <2>2. Cardinality(J \ {i}) = n
    <3>1. Cardinality(J \ {i}) = Cardinality(J) - 1
      BY <2>1, FS_RemoveElement
    <3>2. (n + 1) - 1 = n
      OBVIOUS
    <3> QED  BY <3>1, <3>2
  <2>3. Cardinality(A) = n * k /\ Cardinality(B) = k
    BY <1>2, <2>2
  <2>4. Of(J) = A \cup B /\ A \cap B = {} /\ A \in SUBSET S /\ B \in SUBSET S
    OBVIOUS
  <2> HIDE DEF A, B
  <2>5. IsFiniteSet(A) /\ IsFiniteSet(B)
    BY <2>4, FS_Subset
  <2>6. Cardinality(A \cup B) = Cardinality(A) + Cardinality(B) - Cardinality({})
    BY <2>4, <2>5, FS_Union
  <2>7. Cardinality(A \cup B) = n * k + k
    BY <2>3, <2>6, FS_EmptySet
  <2>8. n * k + k = (n + 1) * k
    OBVIOUS
  <2> QED  BY <2>4, <2>7, <2>8
<1>3. \A n \in Nat : n \in G
  <2> HIDE DEF G
  <2> QED  BY <1>1, <1>2, SetInduction
<1>4. Cardinality(I) \in G
  BY <1>3, FS_CardinalityType
<1>5. Of(I) = S
  OBVIOUS
<1> QED  BY <1>4, <1>5

\* A finite set of numbers of which each but the greatest is followed by its successor.
LEMMA Unbroken ==
  ASSUME NEW S, S \subseteq Int, IsFiniteSet(S), S # {}, NEW m \in S, \A j \in S : j <= m,
         \A t \in S : t # m => t + 1 \in S
  PROVE  \E a \in S : S = a .. a + Cardinality(S) - 1
<1>1. PICK a \in S : \A j \in S : a <= j
  BY LeastExists
<1> DEFINE G == {n \in Nat : a + n <= m => a + n \in S}
<1>2. a \in Int /\ m \in Int /\ a <= m
  BY <1>1
<1>3. 0 \in G
  BY <1>1, <1>2
<1>4. \A n \in Nat : n \in G => n + 1 \in G
  <2> SUFFICES ASSUME NEW n \in Nat, n \in G, a + (n + 1) <= m PROVE a + (n + 1) \in S
    OBVIOUS
  <2>1. a + n \in S /\ a + n # m
    BY <1>2
  <2>2. (a + n) + 1 \in S
    BY <2>1
  <2> QED  BY <1>2, <2>2
<1>5. \A n \in Nat : n \in G
  <2> HIDE DEF G
  <2> QED  BY <1>3, <1>4, SetInduction
<1>6. S = a .. m
  <2>1. ASSUME NEW t \in a .. m PROVE t \in S
    <3>1. t - a \in Nat /\ a + (t - a) = t /\ t <= m
      BY <1>2
    <3> QED  BY <1>5, <3>1
  <2>2. ASSUME NEW t \in S PROVE t \in a .. m
    <3>1. t \in Int /\ a <= t /\ t <= m
      BY <1>1
    <3> QED  BY <1>2, <3>1
  <2> QED  BY <2>1, <2>2
<1>7. Cardinality(a .. m) = m - a + 1
  BY <1>2, FS_Interval
<1>8. a + (m - a + 1) - 1 = m
  BY <1>2
<1> QED  BY <1>6, <1>7, <1>8

\* As many elements are up to the n-th one in order as its number says.
LEMMA RankOfPosition ==
  ASSUME NEW S, S \subseteq Int, IsFiniteSet(S), NEW n \in 1 .. Cardinality(S)
  PROVE  /\ InOrder(S)[n] \in S
         /\ Cardinality({u \in S : u <= InOrder(S)[n]}) = n
<1> DEFINE N == Cardinality(S)
           s == InOrder(S)
<1>1. /\ N \in Nat /\ s \in Seq(S) /\ Len(s) = N
      /\ \A i, j \in 1 .. N : i < j => s[i] < s[j]
      /\ \A t \in S : \E i \in 1 .. N : s[i] = t
  BY InOrderSorts
<1> HIDE DEF N, s
<1>2. n \in 1 .. N
  BY DEF N
<1>3. \A i \in 1 .. N : s[i] \in S /\ s[i] \in Int
  <2>1. \A i \in 1 .. N : s[i] \in S
    BY <1>1
  <2> QED  BY <2>1
<1>4. {u \in S : u <= s[n]} = {s[k] : k \in 1 .. n}
  <2>1. ASSUME NEW u \in S, u <= s[n] PROVE \E k \in 1 .. n : u = s[k]
    <3>1. PICK k \in 1 .. N : s[k] = u
      BY <1>1
    <3>2. ~ (n < k)
      <4>1. n < k => s[n] < s[k]
        BY <1>1, <1>2
      <4> QED  BY <1>2, <1>3, <2>1, <3>1, <4>1
    <3> QED  BY <1>1, <1>2, <3>1, <3>2
  <2>2. ASSUME NEW k \in 1 .. n PROVE s[k] \in S /\ s[k] <= s[n]
    <3>1. k \in 1 .. N /\ (k < n => s[k] < s[n]) /\ (k < n \/ k = n)
      BY <1>1, <1>2
    <3> QED  BY <1>2, <1>3, <3>1
  <2> QED  BY <2>1, <2>2
<1>5. Cardinality({s[k] : k \in 1 .. n}) = n
  <2>1. 1 \in Int /\ n \in Int /\ n > 0
    BY <1>2
  <2>2. IsFiniteSet(1 .. n) /\ Cardinality(1 .. n) = n
    BY <2>1, FS_Interval
  <2>3. \A a, b \in 1 .. n : s[a] = s[b] => a = b
    <3> SUFFICES ASSUME NEW a \in 1 .. n, NEW b \in 1 .. n, s[a] = s[b] PROVE a = b
      OBVIOUS
    <3>1. a \in 1 .. N /\ b \in 1 .. N
      BY <1>1, <1>2
    <3>2. (a < b => s[a] < s[b]) /\ (b < a => s[b] < s[a]) /\ s[a] \in Int
      BY <1>1, <1>3, <3>1
    <3> QED  BY <3>1, <3>2
  <2> QED  BY <2>2, <2>3, DistinctImage
<1> QED  BY <1>2, <1>3, <1>4, <1>5 DEF s

-----------------------------------------------------------------------------
(* Sums of the values of a function.                                        *)

\* The partial sums of f over the subsets of a set, as SumFunction adds them up.
Picked(T) == CHOOSE x \in T : TRUE
SumsUp(g, f, S) ==
  \A T \in SUBSET S : g[T] = IF T = {} THEN 0 ELSE f[Picked(T)] + g[T \ {Picked(T)}]

LEMMA PartialSums ==
  ASSUME NEW S, IsFiniteSet(S), NEW f, \A x \in S : f[x] \in Int
  PROVE  \E g \in [SUBSET S -> Int] : SumsUp(g, f, S)
<1> DEFINE Step(g) == [T \in SUBSET S |-> IF T = {} THEN 0 ELSE f[Picked(T)] + g[T \ {Picked(T)}]]
           UpTo(n, g) == \A T \in SUBSET S : Cardinality(T) <= n => g[T] = Step(g)[T]
           N == {n \in Nat : \E g \in [SUBSET S -> Int] : UpTo(n, g)}
<1>1. \A T \in SUBSET S : T # {} => Picked(T) \in T /\ T \ {Picked(T)} \in SUBSET S
  BY Zenon DEF Picked
<1>2. \A T \in SUBSET S : IsFiniteSet(T) /\ Cardinality(T) \in Nat /\ Cardinality(T) <= Cardinality(S)
  BY FS_Subset, FS_CardinalityType
<1>3. \A T \in SUBSET S : T # {} => Cardinality(T \ {Picked(T)}) = Cardinality(T) - 1
  BY <1>1, <1>2, FS_RemoveElement
<1>4. ASSUME NEW g \in [SUBSET S -> Int] PROVE Step(g) \in [SUBSET S -> Int]
  <2> SUFFICES ASSUME NEW T \in SUBSET S, T # {} PROVE f[Picked(T)] + g[T \ {Picked(T)}] \in Int
    OBVIOUS
  <2>1. Picked(T) \in S /\ T \ {Picked(T)} \in SUBSET S
    BY <1>1
  <2>2. f[Picked(T)] \in Int /\ g[T \ {Picked(T)}] \in Int
    BY <2>1
  <2> QED  BY <2>2
<1>5. 0 \in N
  <2> DEFINE g == [T \in SUBSET S |-> 0]
  <2>1. g \in [SUBSET S -> Int]
    OBVIOUS
  <2>2. UpTo(0, g)
    <3> SUFFICES ASSUME NEW T \in SUBSET S, Cardinality(T) <= 0 PROVE T = {}
      OBVIOUS
    <3> QED  BY <1>2, FS_EmptySet
  <2> HIDE DEF g, UpTo
  <2> QED  BY <2>1, <2>2
<1>6. ASSUME NEW n \in Nat, n \in N PROVE n + 1 \in N
  <2>1. PICK g \in [SUBSET S -> Int] : UpTo(n, g)
    BY <1>6
  <2> DEFINE h == Step(g)
  <2>2. h \in [SUBSET S -> Int]
    BY <1>4
  <2>3. ASSUME NEW T \in SUBSET S, Cardinality(T) <= n + 1 PROVE h[T] = Step(h)[T]
    <3>1. CASE T = {}
      BY <3>1
    <3>2. CASE T # {}
      <4> DEFINE U == T \ {Picked(T)}
      <4>1. U \in SUBSET S /\ Cardinality(U) <= n
        BY <1>1, <1>2, <1>3, <2>3, <3>2
      <4>2. h[U] = g[U]
        BY <2>1, <4>1
      <4>3. h[T] = f[Picked(T)] + g[U] /\ Step(h)[T] = f[Picked(T)] + h[U]
        BY <3>2
      <4> QED  BY <4>2, <4>3
    <3> QED  BY <3>1, <3>2
  <2>4. UpTo(n + 1, h)
    BY <2>3
  <2> HIDE DEF h, UpTo
  <2> QED  BY <2>2, <2>4
<1>7. Cardinality(S) \in N
  <2> HIDE DEF N
  <2>1. \A n \in Nat : n \in N
    BY <1>5, <1>6, SetInduction
  <2> QED  BY <1>2, <2>1
<1>8. PICK g \in [SUBSET S -> Int] : UpTo(Cardinality(S), g)
  BY <1>7
<1>9. SumsUp(g, f, S)
  BY <1>2, <1>8 DEF SumsUp
<1> QED  BY <1>9

\* SumFunction is the last of some partial sums.
LEMMA SumOfParts ==
  ASSUME NEW f, IsFiniteSet(DOMAIN f), \A x \in DOMAIN f : f[x] \in Int
  PROVE  \E g \in [SUBSET DOMAIN f -> Int] : SumsUp(g, f, DOMAIN f) /\ SumFunction(f) = g[DOMAIN f]
<1> DEFINE S == DOMAIN f
           Is(it) == it = [T \in SUBSET S |-> IF T = {} THEN 0
                                              ELSE f[Picked(T)] + it[T \ {Picked(T)}]]
           iter == CHOOSE it : Is(it)
<1>1. SumFunction(f) = iter[S]
  BY Zenon DEF SumFunction, SumFunctionOnSet, FoldFunctionOnSet, MapThenFoldSet, Picked
<1>2. PICK g \in [SUBSET S -> Int] : SumsUp(g, f, S)
  BY PartialSums
<1>3. Is(g)
  BY <1>2 DEF SumsUp
<1>4. Is(iter)
  <2> HIDE DEF Is
  <2> QED  BY <1>3
<1> DEFINE h == iter
<1>5. Is(h)
  BY <1>4
<1> HIDE DEF h
<1>6. SumsUp(h, f, S)
  BY <1>5 DEF SumsUp
<1>7. h \in [SUBSET S -> Int]
  <2>1. h = g
    <3> DEFINE N == {n \in Nat : \A T \in SUBSET S : Cardinality(T) <= n => h[T] = g[T]}
    <3>1. \A T \in SUBSET S : IsFiniteSet(T) /\ Cardinality(T) \in Nat /\ Cardinality(T) <= Cardinality(S)
      BY FS_Subset, FS_CardinalityType
    <3>2. \A T \in SUBSET S : T # {} => Picked(T) \in T
      BY Zenon DEF Picked
    <3>3. \A T \in SUBSET S : T # {} => Cardinality(T \ {Picked(T)}) = Cardinality(T) - 1
      BY <3>1, <3>2, FS_RemoveElement
    <3>4. 0 \in N
      <4> SUFFICES ASSUME NEW T \in SUBSET S, Cardinality(T) <= 0 PROVE h[T] = g[T]
        OBVIOUS
      <4>1. T = {}
        BY <3>1, FS_EmptySet
      <4> QED  BY <1>2, <1>6, <4>1 DEF SumsUp
    <3>5. ASSUME NEW n \in Nat, n \in N PROVE n + 1 \in N
      <4> SUFFICES ASSUME NEW T \in SUBSET S, Cardinality(T) <= n + 1 PROVE h[T] = g[T]
        OBVIOUS
      <4>1. CASE T = {}
        BY <1>2, <1>6, <4>1 DEF SumsUp
      <4>2. CASE T # {}
        <5>1. T \ {Picked(T)} \in SUBSET S /\ Cardinality(T \ {Picked(T)}) <= n
          BY <3>1, <3>3, <4>2
        <5>2. h[T \ {Picked(T)}] = g[T \ {Picked(T)}]
          BY <3>5, <5>1
        <5> QED  BY <1>2, <1>6, <4>2, <5>2 DEF SumsUp
      <4> QED  BY <4>1, <4>2
    <3>6. Cardinality(S) \in N
      <4> HIDE DEF N
      <4>1. \A n \in Nat : n \in N
        BY <3>4, <3>5, SetInduction
      <4> QED  BY <3>1, <4>1
    <3>7. \A T \in SUBSET S : h[T] = g[T]
      BY <3>1, <3>6
    <3>8. h = [T \in SUBSET S |-> IF T = {} THEN 0 ELSE f[Picked(T)] + h[T \ {Picked(T)}]]
      BY <1>5
    <3>9. h = [T \in SUBSET S |-> h[T]]
      BY <3>8
    <3> QED  BY <3>7, <3>9
  <2> QED  BY <2>1
<1> QED  BY <1>1, <1>6, <1>7 DEF h

\* A sum of whole numbers is one.
LEMMA SumIsInteger ==
  ASSUME NEW f, IsFiniteSet(DOMAIN f), \A x \in DOMAIN f : f[x] \in Int
  PROVE  SumFunction(f) \in Int
<1>1. PICK g \in [SUBSET DOMAIN f -> Int] : SumsUp(g, f, DOMAIN f) /\ SumFunction(f) = g[DOMAIN f]
  BY SumOfParts, Zenon
<1> QED  BY <1>1

\* What holds of each value holds of the sums.
LEMMA SumsCompare ==
  ASSUME NEW S, IsFiniteSet(S), NEW f, NEW g, NEW h,
         DOMAIN f = S, DOMAIN g = S, DOMAIN h = S,
         \A x \in S : /\ f[x] \in Int /\ g[x] \in Int /\ h[x] \in Int
                      /\ f[x] <= g[x] - h[x]
  PROVE  SumFunction(f) <= SumFunction(g) - SumFunction(h)
<1>0. ASSUME NEW k, DOMAIN k = S, \A x \in S : k[x] \in Int
      PROVE  \E K \in [SUBSET S -> Int] : SumsUp(K, k, S) /\ SumFunction(k) = K[S]
  <2>1. IsFiniteSet(DOMAIN k) /\ \A x \in DOMAIN k : k[x] \in Int
    BY <1>0
  <2>2. \E K \in [SUBSET DOMAIN k -> Int] : SumsUp(K, k, DOMAIN k) /\ SumFunction(k) = K[DOMAIN k]
    BY <2>1, SumOfParts, Zenon
  <2> QED  BY <1>0, <2>2
<1>1. PICK F \in [SUBSET S -> Int] : SumsUp(F, f, S) /\ SumFunction(f) = F[S]
  BY <1>0
<1>2. PICK G \in [SUBSET S -> Int] : SumsUp(G, g, S) /\ SumFunction(g) = G[S]
  BY <1>0
<1>3. PICK H \in [SUBSET S -> Int] : SumsUp(H, h, S) /\ SumFunction(h) = H[S]
  BY <1>0
<1> DEFINE N == {n \in Nat : \A T \in SUBSET S : Cardinality(T) <= n => F[T] <= G[T] - H[T]}
<1>4. \A T \in SUBSET S : IsFiniteSet(T) /\ Cardinality(T) \in Nat /\ Cardinality(T) <= Cardinality(S)
  BY FS_Subset, FS_CardinalityType
<1>5. \A T \in SUBSET S : T # {} => Picked(T) \in T
  BY Zenon DEF Picked
<1>6. \A T \in SUBSET S : T # {} => Cardinality(T \ {Picked(T)}) = Cardinality(T) - 1
  BY <1>4, <1>5, FS_RemoveElement
<1>7. F[{}] = 0 /\ G[{}] = 0 /\ H[{}] = 0
  BY <1>1, <1>2, <1>3 DEF SumsUp
<1>8. 0 \in N
  <2> SUFFICES ASSUME NEW T \in SUBSET S, Cardinality(T) <= 0 PROVE F[T] <= G[T] - H[T]
    OBVIOUS
  <2>1. T = {}
    BY <1>4, FS_EmptySet
  <2> QED  BY <1>7, <2>1
<1>9. ASSUME NEW n \in Nat, n \in N PROVE n + 1 \in N
  <2> SUFFICES ASSUME NEW T \in SUBSET S, Cardinality(T) <= n + 1 PROVE F[T] <= G[T] - H[T]
    OBVIOUS
  <2>1. CASE T = {}
    BY <1>7, <2>1
  <2>2. CASE T # {}
    <3> DEFINE x == Picked(T)
               U == T \ {x}
    <3>1. U \in SUBSET S /\ Cardinality(U) <= n /\ x \in S
      BY <1>4, <1>5, <1>6, <2>2
    <3>2. F[T] = f[x] + F[U] /\ G[T] = g[x] + G[U] /\ H[T] = h[x] + H[U]
      BY <1>1, <1>2, <1>3, <2>2 DEF SumsUp
    <3>3. F[U] <= G[U] - H[U] /\ {F[U], G[U], H[U]} \subseteq Int
      BY <1>9, <3>1
    <3> HIDE DEF x, U
    <3> QED  BY <3>1, <3>2, <3>3
  <2> QED  BY <2>1, <2>2
<1>10. Cardinality(S) \in N
  <2> HIDE DEF N
  <2>1. \A n \in Nat : n \in N
    BY <1>8, <1>9, SetInduction
  <2> QED  BY <1>4, <2>1
<1>11. F[S] <= G[S] - H[S]
  BY <1>4, <1>10
<1> QED  BY <1>1, <1>2, <1>3, <1>11

\* Of finitely many triples of whole numbers one is the greatest, in the order of a
\* dictionary.
LEMMA GreatestTriple ==
  ASSUME NEW S, IsFiniteSet(S), S # {}, NEW f, NEW g, NEW h,
         \A x \in S : f[x] \in Int /\ g[x] \in Int /\ h[x] \in Int
  PROVE  \E y \in S : \A x \in S : \/ f[x] < f[y]
                                   \/ f[x] = f[y] /\ g[x] < g[y]
                                   \/ f[x] = f[y] /\ g[x] = g[y] /\ h[x] <= h[y]
<1>1. ASSUME NEW T \in SUBSET S, T # {}, NEW k, \A x \in T : k[x] \in Int
      PROVE  \E y \in T : \A x \in T : k[x] <= k[y]
  <2> DEFINE K == {k[x] : x \in T}
  <2>1. IsFiniteSet(T)
    BY FS_Subset
  <2>2. IsFiniteSet(K)
    BY <2>1, ImageIsFinite
  <2>3. K \subseteq Int /\ K # {}
    BY <1>1
  <2>4. PICK m \in K : \A j \in K : j <= m
    <3> HIDE DEF K
    <3> QED  BY <2>2, <2>3, LeastExists
  <2> QED  BY <2>4
<1> DEFINE Best(T, k) == {y \in T : \A x \in T : k[x] <= k[y]}
           F == Best(S, f)
           G == Best(F, g)
           H == Best(G, h)
<1>2. F \in SUBSET S /\ F # {}
  BY <1>1
<1>3. G \in SUBSET F /\ G # {}
  <2>1. \E y \in F : \A x \in F : g[x] <= g[y]
    <3> HIDE DEF F
    <3> QED  BY <1>1, <1>2
  <2> QED  BY <2>1
<1>4. H # {}
  <2>1. \E y \in G : \A x \in G : h[x] <= h[y]
    <3> HIDE DEF F, G
    <3> QED  BY <1>1, <1>2, <1>3
  <2> QED  BY <2>1
<1>5. PICK y \in H : TRUE
  BY <1>4
<1> SUFFICES ASSUME NEW x \in S
             PROVE  \/ f[x] < f[y]
                    \/ f[x] = f[y] /\ g[x] < g[y]
                    \/ f[x] = f[y] /\ g[x] = g[y] /\ h[x] <= h[y]
  BY <1>2, <1>3, <1>5
<1>6. y \in G /\ y \in F /\ y \in S
  BY <1>2, <1>3, <1>5
<1>7. f[x] <= f[y] /\ (f[x] = f[y] => x \in F)
  BY <1>6
<1>8. x \in F => g[x] <= g[y] /\ (g[x] = g[y] => x \in G)
  BY <1>6
<1>9. x \in G => h[x] <= h[y]
  BY <1>5
<1> HIDE DEF F, G, H
<1>10. {f[x], f[y], g[x], g[y], h[x], h[y]} \subseteq Int
  BY <1>6
<1> QED  BY <1>7, <1>8, <1>9, <1>10

LEMMA FunctionsAreFinite ==
  ASSUME NEW A, IsFiniteSet(A), NEW B, IsFiniteSet(B)
  PROVE  IsFiniteSet([A -> B])
<1> DEFINE graph == [f \in [A -> B] |-> {p \in A \X B : p[2] = f[p[1]]}]
           G == SUBSET (A \X B)
<1>1. IsFiniteSet(G)
  BY FS_Product, FS_SUBSET
<1>2. graph \in [[A -> B] -> G]
  OBVIOUS
<1>3. ASSUME NEW f \in [A -> B], NEW g \in [A -> B], graph[f] = graph[g] PROVE f = g
  <2>1. ASSUME NEW x \in A PROVE f[x] = g[x]
    <3>1. <<x, f[x]>> \in graph[f]
      OBVIOUS
    <3>2. <<x, f[x]>> \in graph[g]
      BY <1>3, <3>1, Zenon
    <3> QED  BY <3>2
  <2> QED  BY <2>1
<1>4. graph \in Injection([A -> B], G)
  <2> HIDE DEF graph, G
  <2> QED  BY <1>2, <1>3 DEF Injection, IsInjective
<1> HIDE DEF graph, G
<1> QED  BY <1>1, <1>4, FS_Injection
=============================================================================
