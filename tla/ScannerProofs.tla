--------------------------- MODULE ScannerProofs ---------------------------
(***************************************************************************)
(* What the scanner reports is what the file holds, for every file, every  *)
(* way to cut it and every limit of columns.  First sets of positions and  *)
(* their kth elements, then the fields and the line ends of a file read    *)
(* byte by byte, then what each byte does to the scanner, a slice, and a   *)
(* byte order mark; at the end the invariant and what follows from it.     *)
(***************************************************************************)
EXTENDS ScannerInvariant, FiniteSetTheorems, SequenceTheorems, WellFoundedInduction, TLAPS

-----------------------------------------------------------------------------
(* Induction up to a number, for sets: the strict inclusion of the sets    *)
(* 1..m is well founded.                                                   *)

LEMMA LeastOf ==
  ASSUME NEW n \in Nat, NEW T \in SUBSET (0..n), T # {}
  PROVE  \E m \in T : \A k \in T : m <= k
<1> DEFINE S == 1..n
           F == {1..m : m \in T}
<1>1. IsWellFoundedOn(StrictSubsetOrdering(S), FiniteSubsetsOf(S))
  BY FS_StrictSubsetOrderingWellFounded
<1>2. F \subseteq FiniteSubsetsOf(S)
  <2> SUFFICES ASSUME NEW m \in T PROVE 1..m \in FiniteSubsetsOf(S)
    OBVIOUS
  <2>1. m \in Nat /\ m <= n
    OBVIOUS
  <2>2. IsFiniteSet(1..m)
    BY <2>1, FS_Interval
  <2>3. 1..m \in SUBSET S
    BY <2>1
  <2> QED BY <2>2, <2>3 DEF FiniteSubsetsOf
<1>3. F # {}
  OBVIOUS
<1> HIDE DEF S
<1>4. PICK x \in F : \A y \in F : ~ (<<y, x>> \in StrictSubsetOrdering(S))
  <2> HIDE DEF F
  <2> QED BY <1>1, <1>2, <1>3, WFMin
<1>5. PICK m \in T : x = 1..m
  BY <1>4
<1>6. ASSUME NEW k \in T, ~(m <= k) PROVE FALSE
  <2>1. k \in Int /\ m \in Int /\ k < m /\ k >= 0
    BY <1>6
  <2>2. 1..k \subseteq 1..m
    BY <2>1
  <2>3. m \in 1..m /\ m \notin 1..k
    BY <2>1
  <2>4. 1..k \in SUBSET S /\ 1..m \in SUBSET S
    BY DEF S
  <2>5. <<1..k, 1..m>> \in StrictSubsetOrdering(S)
    BY <2>2, <2>3, <2>4 DEF StrictSubsetOrdering
  <2> QED BY <1>4, <1>5, <2>5
<1>7. QED
  BY <1>6

LEMMA IndTo ==
  ASSUME NEW n \in Nat, NEW S, 0 \in S, \A i \in 0..(n - 1) : i \in S => i + 1 \in S
  PROVE  \A i \in 0..n : i \in S
<1> DEFINE T == {i \in 0..n : i \notin S}
<1>1. SUFFICES ASSUME T # {} PROVE FALSE
  OBVIOUS
<1>2. PICK m \in T : \A k \in T : m <= k
  <2>1. T \in SUBSET (0..n)
    OBVIOUS
  <2> HIDE DEF T
  <2> QED BY <1>1, <2>1, LeastOf
<1>3. m # 0 /\ m \in 0..n
  BY <1>2
<1>4. m - 1 \in 0..(n - 1)
  BY <1>3
<1>5. m - 1 \in S
  BY <1>2, <1>3, <1>4
<1> QED BY <1>2, <1>4, <1>5, <1>3

-----------------------------------------------------------------------------
(* The kth of a set of positions.                                          *)

UpTo(S, i) == {j \in S : j <= i}

LEMMA UpToIs ==
  ASSUME NEW S, NEW i, NEW j
  PROVE  j \in UpTo(S, i) <=> j \in S /\ j <= i
BY DEF UpTo

LEMMA UpToFinite ==
  ASSUME NEW n \in Nat, NEW S \in SUBSET (1..n), NEW i
  PROVE  /\ IsFiniteSet(S) /\ IsFiniteSet(UpTo(S, i))
         /\ Cardinality(S) \in Nat /\ Cardinality(UpTo(S, i)) \in Nat
         /\ Cardinality(UpTo(S, i)) <= Cardinality(S)
<1>1. IsFiniteSet(1..n)
  BY FS_Interval
<1>2. IsFiniteSet(S)
  BY <1>1, FS_Subset
<1>3. UpTo(S, i) \subseteq S
  BY DEF UpTo
<1> QED BY <1>2, <1>3, FS_Subset, FS_CardinalityType

LEMMA UpToNext ==
  ASSUME NEW n \in Nat, NEW S \in SUBSET (1..n), NEW i \in Nat
  PROVE  Cardinality(UpTo(S, i + 1)) =
           IF i + 1 \in S THEN Cardinality(UpTo(S, i)) + 1 ELSE Cardinality(UpTo(S, i))
<1>1. IsFiniteSet(UpTo(S, i))
  BY UpToFinite
<1>2. i + 1 \notin UpTo(S, i)
  BY DEF UpTo
<1>3. CASE i + 1 \in S
  <2>1. UpTo(S, i + 1) = UpTo(S, i) \cup {i + 1}
    <3>1. ASSUME NEW j \in S PROVE j <= i + 1 <=> j <= i \/ j = i + 1
      OBVIOUS
    <3> QED BY <1>3, <3>1, UpToIs
  <2> QED BY <1>1, <1>2, <1>3, <2>1, FS_AddElement
<1>4. CASE i + 1 \notin S
  <2>1. UpTo(S, i + 1) = UpTo(S, i)
    <3>1. ASSUME NEW j \in S PROVE j <= i + 1 <=> j <= i
      BY <1>4
    <3>2. \A j : j \in UpTo(S, i + 1) <=> j \in UpTo(S, i)
      BY <3>1, UpToIs
    <3> QED BY <3>2
  <2> QED BY <1>4, <2>1
<1> QED BY <1>3, <1>4

LEMMA UpToZero ==
  ASSUME NEW n \in Nat, NEW S \in SUBSET (1..n)
  PROVE  Cardinality(UpTo(S, 0)) = 0
<1>1. UpTo(S, 0) = {}
  <2>1. ASSUME NEW j \in S PROVE ~(j <= 0)
    OBVIOUS
  <2> QED BY <2>1, UpToIs
<1> QED BY <1>1, FS_EmptySet

LEMMA UpToAll ==
  ASSUME NEW n \in Nat, NEW S \in SUBSET (1..n)
  PROVE  UpTo(S, n) = S
<1>1. ASSUME NEW j \in S PROVE j <= n
  OBVIOUS
<1>2. \A j : j \in UpTo(S, n) <=> j \in S
  BY <1>1, UpToIs
<1> QED BY <1>2

LEMMA NthExists ==
  ASSUME NEW n \in Nat, NEW S \in SUBSET (1..n), NEW k \in 1..Cardinality(S)
  PROVE  \E i \in S : Cardinality(UpTo(S, i)) = k
<1> DEFINE C(m) == Cardinality(UpTo(S, m))
           G == {m \in Nat : k <= C(m) => \E i \in S : C(i) = k}
<1>0. \A m \in Nat : C(m) \in Nat
  BY UpToFinite
<1>1. 0 \in G
  <2>1. C(0) = 0
    BY UpToZero
  <2> QED BY <2>1
<1>2. \A m \in 0..(n - 1) : m \in G => m + 1 \in G
  <2> SUFFICES ASSUME NEW m \in 0..(n - 1), m \in G, k <= C(m + 1)
               PROVE  \E i \in S : C(i) = k
    OBVIOUS
  <2>1. C(m + 1) = IF m + 1 \in S THEN C(m) + 1 ELSE C(m)
    BY UpToNext
  <2>2. C(m) \in Nat /\ C(m + 1) \in Nat
    BY <1>0
  <2>3. k <= C(m) => \E i \in S : C(i) = k
    OBVIOUS
  <2> HIDE DEF C
  <2> QED BY <2>1, <2>2, <2>3
<1>3. n \in G
  <2>1. n \in 0..n
    OBVIOUS
  <2> HIDE DEF G
  <2> QED BY <1>1, <1>2, <2>1, IndTo
<1>4. C(n) = Cardinality(S)
  BY UpToAll
<1> QED BY <1>3, <1>4

LEMMA NthUnique ==
  ASSUME NEW n \in Nat, NEW S \in SUBSET (1..n), NEW a \in S, NEW b \in S,
         Cardinality(UpTo(S, a)) = Cardinality(UpTo(S, b))
  PROVE  a = b
<1>1. ASSUME NEW x \in S, NEW y \in S, x < y PROVE Cardinality(UpTo(S, x)) < Cardinality(UpTo(S, y))
  <2>1. UpTo(S, x) \subseteq UpTo(S, y)
    <3>1. ASSUME NEW j \in S, j <= x PROVE j <= y
      BY <1>1, <3>1
    <3> QED BY <3>1, UpToIs
  <2>2. y \in UpTo(S, y) /\ y \notin UpTo(S, x)
    BY <1>1 DEF UpTo
  <2>3. IsFiniteSet(UpTo(S, y))
    BY UpToFinite
  <2>4. /\ Cardinality(UpTo(S, x)) <= Cardinality(UpTo(S, y))
        /\ Cardinality(UpTo(S, x)) = Cardinality(UpTo(S, y)) => UpTo(S, x) = UpTo(S, y)
    BY <2>1, <2>3, FS_Subset
  <2>5. Cardinality(UpTo(S, x)) \in Nat /\ Cardinality(UpTo(S, y)) \in Nat
    BY UpToFinite
  <2> QED BY <2>2, <2>4, <2>5
<1>2. Cardinality(UpTo(S, a)) \in Nat /\ Cardinality(UpTo(S, b)) \in Nat
  BY UpToFinite
<1>3. a \in Int /\ b \in Int
  OBVIOUS
<1>4. ~(a < b)
  BY <1>1, <1>2
<1>5. ~(b < a)
  BY <1>1, <1>2
<1> QED BY <1>3, <1>4, <1>5

LEMMA NthIn ==
  ASSUME NEW n \in Nat, NEW S \in SUBSET (1..n), NEW k \in 1..Cardinality(S)
  PROVE  Nth(S, k) \in S /\ Cardinality(UpTo(S, Nth(S, k))) = k
<1>1. \E i \in S : Cardinality({j \in S : j <= i}) = k
  BY NthExists DEF UpTo
<1> QED BY <1>1 DEF Nth, UpTo

LEMMA NthIs ==
  ASSUME NEW n \in Nat, NEW S \in SUBSET (1..n), NEW i \in S
  PROVE  Nth(S, Cardinality(UpTo(S, i))) = i
<1> DEFINE k == Cardinality(UpTo(S, i))
<1>1. \E j \in S : Cardinality(UpTo(S, j)) = k
  OBVIOUS
<1>2. Nth(S, k) \in S /\ Cardinality(UpTo(S, Nth(S, k))) = k
  BY <1>1 DEF Nth, UpTo
<1> QED BY <1>2, NthUnique

LEMMA UpToUpTo ==
  ASSUME NEW n \in Nat, NEW S \in SUBSET (1..n), NEW m \in Nat, NEW i \in Nat, i <= m
  PROVE  UpTo(UpTo(S, m), i) = UpTo(S, i)
<1>1. ASSUME NEW j \in S, j <= i PROVE j <= m
  BY <1>1
<1>2. \A j : j \in UpTo(UpTo(S, m), i) <=> j \in UpTo(S, i)
  BY <1>1, UpToIs
<1> QED BY <1>2

\* A set that agrees with S up to its kth element has the same one.
LEMMA NthSame ==
  ASSUME NEW n \in Nat, NEW S \in SUBSET (1..n), NEW T \in SUBSET (1..n),
         NEW m \in Nat, NEW k \in 1..Cardinality(UpTo(S, m)), UpTo(S, m) = UpTo(T, m)
  PROVE  /\ Nth(S, k) = Nth(T, k) /\ Nth(S, k) \in S /\ Nth(S, k) <= m
         /\ Cardinality(UpTo(S, Nth(S, k))) = k
<1> DEFINE U == UpTo(S, m)
<1>0. U \in SUBSET (1..n)
  BY DEF UpTo
<1>1. PICK i \in U : Cardinality(UpTo(U, i)) = k
  BY <1>0, NthExists
<1>2. i \in S /\ i \in T /\ i <= m
  BY DEF UpTo
<1>3. UpTo(U, i) = UpTo(S, i) /\ UpTo(U, i) = UpTo(T, i)
  <2>1. i \in Nat
    BY <1>2
  <2>2. UpTo(UpTo(S, m), i) = UpTo(S, i)
    BY <1>2, <2>1, UpToUpTo
  <2>3. UpTo(UpTo(T, m), i) = UpTo(T, i)
    BY <1>2, <2>1, UpToUpTo
  <2> QED BY <2>2, <2>3
<1>4. Nth(S, k) = i
  BY <1>1, <1>2, <1>3, NthIs
<1>5. Nth(T, k) = i
  BY <1>1, <1>2, <1>3, NthIs
<1> QED BY <1>1, <1>2, <1>3, <1>4, <1>5

-----------------------------------------------------------------------------
(* Quotes, and the text of a field.                                        *)

QuotesBefore(t, i) == {j \in 1..(i - 1) : t[j] = Quote}

LEMMA QuotesFinite ==
  ASSUME NEW t, NEW i \in Nat
  PROVE  IsFiniteSet(QuotesBefore(t, i)) /\ Cardinality(QuotesBefore(t, i)) \in Nat
<1>1. IsFiniteSet(1..(i - 1))
  BY FS_Interval
<1>2. QuotesBefore(t, i) \subseteq 1..(i - 1)
  BY DEF QuotesBefore
<1> QED BY <1>1, <1>2, FS_Subset, FS_CardinalityType

LEMMA OddNext ==
  ASSUME NEW n \in Nat
  PROVE  ((n + 1) % 2 = 1) <=> ~(n % 2 = 1)
OBVIOUS

LEMMA QuotedFirst ==
  ASSUME NEW t
  PROVE  ~Quoted(t, 1)
<1>1. QuotesBefore(t, 1) = {}
  BY DEF QuotesBefore
<1>2. Cardinality(QuotesBefore(t, 1)) = 0
  BY <1>1, FS_EmptySet
<1>3. 0 % 2 # 1
  OBVIOUS
<1> QED BY <1>2, <1>3 DEF Quoted, QuotesBefore

LEMMA QuotedNext ==
  ASSUME NEW t, NEW i \in Nat \ {0}
  PROVE  Quoted(t, i + 1) <=> IF t[i] = Quote THEN ~Quoted(t, i) ELSE Quoted(t, i)
<1> DEFINE n == Cardinality(QuotesBefore(t, i))
           m == Cardinality(QuotesBefore(t, i + 1))
<1>1. n \in Nat /\ IsFiniteSet(QuotesBefore(t, i))
  BY QuotesFinite
<1>2. (Quoted(t, i) <=> n % 2 = 1) /\ (Quoted(t, i + 1) <=> m % 2 = 1)
  BY DEF Quoted, QuotesBefore
<1>3. \A j : j \in 1..((i + 1) - 1) <=> j \in 1..(i - 1) \/ j = i
  OBVIOUS
<1>4. CASE t[i] = Quote
  <2>1. QuotesBefore(t, i + 1) = QuotesBefore(t, i) \cup {i}
    BY <1>3, <1>4 DEF QuotesBefore
  <2>2. i \notin QuotesBefore(t, i)
    BY DEF QuotesBefore
  <2>3. m = n + 1
    BY <1>1, <2>1, <2>2, FS_AddElement
  <2> HIDE DEF n, m
  <2> QED BY <1>1, <1>2, <1>4, <2>3, OddNext
<1>5. CASE t[i] # Quote
  <2>1. QuotesBefore(t, i + 1) = QuotesBefore(t, i)
    BY <1>3, <1>5 DEF QuotesBefore
  <2> QED BY <1>2, <1>5, <2>1
<1> QED BY <1>4, <1>5

Kept(t, from, to) == {i \in from..to : t[i] # Quote \/ Literal(t, i)}

LEMMA FieldTextIs ==
  ASSUME NEW t, NEW from, NEW to
  PROVE  FieldText(t, from, to) =
           [k \in 1..Cardinality(Kept(t, from, to)) |-> t[Nth(Kept(t, from, to), k)]]
BY DEF FieldText, Kept

LEMMA KeptFinite ==
  ASSUME NEW t, NEW from \in Nat \ {0}, NEW to \in Nat
  PROVE  /\ Kept(t, from, to) \in SUBSET (1..to)
         /\ IsFiniteSet(Kept(t, from, to)) /\ Cardinality(Kept(t, from, to)) \in Nat
<1>1. Kept(t, from, to) \in SUBSET (1..to)
  BY DEF Kept
<1> QED BY <1>1, UpToFinite

LEMMA FieldTextEmpty ==
  ASSUME NEW t, NEW from \in Nat, NEW to \in Nat, to < from
  PROVE  FieldText(t, from, to) = <<>>
<1>1. Kept(t, from, to) = {}
  BY DEF Kept
<1>2. Cardinality(Kept(t, from, to)) = 0
  BY <1>1, FS_EmptySet
<1>3. 1..0 = {}
  OBVIOUS
<1> QED BY <1>2, <1>3, FieldTextIs

LEMMA FieldTextType ==
  ASSUME NEW t \in Seq(Byte), NEW from \in Nat \ {0}, NEW to \in Nat, to <= Len(t)
  PROVE  FieldText(t, from, to) \in Seq(Byte)
<1> DEFINE K == Kept(t, from, to)
<1>1. K \in SUBSET (1..to) /\ Cardinality(K) \in Nat
  BY KeptFinite
<1>2. ASSUME NEW k \in 1..Cardinality(K) PROVE t[Nth(K, k)] \in Byte
  <2>1. Nth(K, k) \in K
    <3> HIDE DEF K
    <3> QED BY <1>1, NthIn
  <2>2. Nth(K, k) \in 1..Len(t)
    BY <1>1, <2>1
  <2> QED BY <2>2
<1>3. FieldText(t, from, to) = [k \in 1..Cardinality(K) |-> t[Nth(K, k)]]
  BY FieldTextIs
<1> HIDE DEF K
<1> QED BY <1>1, <1>2, <1>3

LEMMA KeptNext ==
  ASSUME NEW t, NEW from \in Nat \ {0}, NEW to \in Nat, from <= to + 1
  PROVE  Kept(t, from, to + 1) =
           IF t[to + 1] # Quote \/ Literal(t, to + 1)
           THEN Kept(t, from, to) \cup {to + 1} ELSE Kept(t, from, to)
<1>1. \A j : j \in from..(to + 1) <=> j \in from..to \/ j = to + 1
  OBVIOUS
<1> QED BY <1>1 DEF Kept

LEMMA FieldTextSkip ==
  ASSUME NEW t, NEW from \in Nat \ {0}, NEW to \in Nat, from <= to + 1,
         t[to + 1] = Quote, ~Literal(t, to + 1)
  PROVE  FieldText(t, from, to + 1) = FieldText(t, from, to)
BY KeptNext, FieldTextIs

\* The nth of a set to which a larger element is added.
LEMMA NthAdd ==
  ASSUME NEW n \in Nat, NEW S \in SUBSET (1..n)
  PROVE  /\ Cardinality(S \cup {n + 1}) = Cardinality(S) + 1
         /\ \A k \in 1..Cardinality(S) : Nth(S \cup {n + 1}, k) = Nth(S, k)
         /\ Nth(S \cup {n + 1}, Cardinality(S) + 1) = n + 1
<1> DEFINE T == S \cup {n + 1}
<1>1. S \in SUBSET (1..(n + 1)) /\ T \in SUBSET (1..(n + 1)) /\ n + 1 \in Nat
  OBVIOUS
<1>2. IsFiniteSet(S) /\ n + 1 \notin S /\ Cardinality(S) \in Nat
  BY UpToFinite
<1>3. Cardinality(T) = Cardinality(S) + 1
  BY <1>2, FS_AddElement
<1>4. UpTo(T, n + 1) = T /\ UpTo(S, n) = S
  <2> HIDE DEF T
  <2> QED BY <1>1, UpToAll
<1>5. UpTo(T, n) = S
  <2>1. \A j \in S : j <= n
    OBVIOUS
  <2>2. ~(n + 1 <= n)
    OBVIOUS
  <2>3. \A j : j \in T <=> j \in S \/ j = n + 1
    OBVIOUS
  <2>4. \A j : j \in UpTo(T, n) <=> j \in T /\ j <= n
    BY UpToIs
  <2> HIDE DEF T
  <2>5. \A j : j \in UpTo(T, n) <=> j \in S
    BY <2>1, <2>2, <2>3, <2>4
  <2> QED BY <2>5
<1>6. n + 1 \in T
  OBVIOUS
<1> HIDE DEF T
<1>7. Nth(T, Cardinality(UpTo(T, n + 1))) = n + 1
  BY <1>1, <1>6, NthIs
<1>8. ASSUME NEW k \in 1..Cardinality(S) PROVE Nth(S, k) = Nth(T, k)
  <2>1. UpTo(S, n) = UpTo(T, n) /\ k \in 1..Cardinality(UpTo(S, n))
    BY <1>4, <1>5
  <2> DEFINE N == n + 1
  <2>2. N \in Nat /\ S \in SUBSET (1..N) /\ T \in SUBSET (1..N)
    BY <1>1
  <2> HIDE DEF N
  <2>3. UpTo(S, n) = UpTo(T, n) /\ k \in 1..Cardinality(UpTo(S, n)) /\ n \in Nat
    BY <2>1
  <2> QED BY <2>2, <2>3, NthSame
<1>9. T = S \cup {n + 1}
  BY DEF T
<1> QED BY <1>3, <1>4, <1>7, <1>8, <1>9

LEMMA FieldTextAppend ==
  ASSUME NEW t \in Seq(Byte), NEW from \in Nat \ {0}, NEW to \in Nat, from <= to + 1,
         to < Len(t), t[to + 1] # Quote \/ Literal(t, to + 1)
  PROVE  FieldText(t, from, to + 1) = Append(FieldText(t, from, to), t[to + 1])
<1> DEFINE K == Kept(t, from, to)
           L == Kept(t, from, to + 1)
           n == Cardinality(K)
<1>1. K \in SUBSET (1..to) /\ n \in Nat
  BY KeptFinite
<1>2. L = K \cup {to + 1}
  BY KeptNext
<1>3. FieldText(t, from, to) = [k \in 1..n |-> t[Nth(K, k)]]
  BY FieldTextIs
<1>4. FieldText(t, from, to + 1) = [k \in 1..Cardinality(L) |-> t[Nth(L, k)]]
  BY FieldTextIs
<1>5. FieldText(t, from, to) \in Seq(Byte)
  BY FieldTextType
<1> HIDE DEF K, L
<1>6. Cardinality(L) = n + 1 /\ Nth(L, n + 1) = to + 1 /\ \A k \in 1..n : Nth(L, k) = Nth(K, k)
  BY <1>1, <1>2, NthAdd
<1> HIDE DEF n
<1>7. Len(FieldText(t, from, to)) = n
  BY <1>1, <1>3, <1>5
<1>8. /\ Append(FieldText(t, from, to), t[to + 1]) \in Seq(Byte)
      /\ Len(Append(FieldText(t, from, to), t[to + 1])) = n + 1
      /\ \A k \in 1..n : Append(FieldText(t, from, to), t[to + 1])[k] = FieldText(t, from, to)[k]
      /\ Append(FieldText(t, from, to), t[to + 1])[n + 1] = t[to + 1]
  <2>1. t[to + 1] \in Byte
    OBVIOUS
  <2> QED BY <1>5, <1>7, <2>1, AppendProperties
<1>9. \A k \in 1..(n + 1) : k \in 1..n \/ k = n + 1
  BY <1>1
<1>10. ASSUME NEW k \in 1..(n + 1)
       PROVE  FieldText(t, from, to + 1)[k] = Append(FieldText(t, from, to), t[to + 1])[k]
  <2>1. FieldText(t, from, to + 1)[k] = t[Nth(L, k)]
    <3>1. k \in 1..Cardinality(L)
      BY <1>6
    <3> QED BY <1>4, <3>1
  <2>2. CASE k \in 1..n
    <3>1. FieldText(t, from, to)[k] = t[Nth(K, k)]
      BY <1>3, <2>2
    <3>2. Nth(L, k) = Nth(K, k)
      BY <1>6, <2>2
    <3>3. Append(FieldText(t, from, to), t[to + 1])[k] = FieldText(t, from, to)[k]
      BY <1>8, <2>2
    <3> QED BY <2>1, <3>1, <3>2, <3>3
  <2>3. CASE k = n + 1
    BY <1>6, <1>8, <2>1, <2>3
  <2> QED BY <1>9, <2>2, <2>3
<1>11. FieldText(t, from, to + 1) \in Seq(Byte)
  BY FieldTextType
<1>12. Len(FieldText(t, from, to + 1)) = n + 1
  BY <1>1, <1>4, <1>6, <1>11
<1> HIDE DEF n
<1> QED BY <1>8, <1>10, <1>11, <1>12, SeqEqual

-----------------------------------------------------------------------------
(* The fields of a record, as it is read byte by byte.                     *)

Delims(t, start, q) == {i \in (start + 1)..q : t[i] = Delimiter /\ ~Quoted(t, i)}

Count(t, start, q) == Cardinality(Delims(t, start, q)) + 1

\* Where the fth field begins and ends.
FromOf(t, start, q, f) == IF f = 1 THEN start + 1 ELSE Nth(Delims(t, start, q), f - 1) + 1
ToOf(t, start, q, f) ==
    IF f = Count(t, start, q) THEN q ELSE Nth(Delims(t, start, q), f) - 1

Bounded(n) == IF n < MaxColumns THEN n ELSE MaxColumns

LEMMA MaxColumnsType ==
  MaxColumns \in Nat \ {0}
BY ScannerAssumption

LEMMA DelimsType ==
  ASSUME NEW t, NEW start \in Nat, NEW q \in Nat
  PROVE  /\ Delims(t, start, q) \in SUBSET (1..q)
         /\ IsFiniteSet(Delims(t, start, q)) /\ Cardinality(Delims(t, start, q)) \in Nat
         /\ Count(t, start, q) \in Nat \ {0}
<1>1. Delims(t, start, q) \in SUBSET (1..q)
  BY DEF Delims
<1>2. IsFiniteSet(Delims(t, start, q)) /\ Cardinality(Delims(t, start, q)) \in Nat
  BY <1>1, UpToFinite
<1>3. Count(t, start, q) \in Nat \ {0}
  BY <1>2 DEF Count
<1> QED BY <1>1, <1>2, <1>3

LEMMA FieldEndsAre ==
  ASSUME NEW t, NEW start \in Nat, NEW q \in Nat
  PROVE  /\ Cardinality(FieldEnds(t, start, q)) = Count(t, start, q)
         /\ \A k \in 1..Cardinality(Delims(t, start, q)) :
              Nth(FieldEnds(t, start, q), k) = Nth(Delims(t, start, q), k)
         /\ Nth(FieldEnds(t, start, q), Count(t, start, q)) = q + 1
<1>1. FieldEnds(t, start, q) = Delims(t, start, q) \cup {q + 1}
  BY DEF FieldEnds, Delims
<1>2. Delims(t, start, q) \in SUBSET (1..q)
  BY DelimsType
<1> QED BY <1>1, <1>2, NthAdd DEF Count

LEMMA FieldsAre ==
  ASSUME NEW t, NEW start \in Nat, NEW q \in Nat
  PROVE  Fields(t, start, q) =
           [f \in 1..Bounded(Count(t, start, q)) |->
              FieldText(t, FromOf(t, start, q, f), ToOf(t, start, q, f))]
<1> DEFINE D == Delims(t, start, q)
           E == FieldEnds(t, start, q)
           n == Count(t, start, q)
<1>1. n \in Nat /\ Cardinality(D) = n - 1
  BY DelimsType DEF Count
<1>2. Cardinality(E) = n
  BY FieldEndsAre
<1>3. Fields(t, start, q) =
        [f \in 1..Bounded(Cardinality(E)) |->
           FieldText(t, IF f = 1 THEN start + 1 ELSE Nth(E, f - 1) + 1, Nth(E, f) - 1)]
  BY DEF Fields, Bounded
<1>4. ASSUME NEW f \in 1..Bounded(n)
      PROVE  /\ (IF f = 1 THEN start + 1 ELSE Nth(E, f - 1) + 1) = FromOf(t, start, q, f)
             /\ Nth(E, f) - 1 = ToOf(t, start, q, f)
  <2>1. f \in 1..n /\ f \in Nat
    BY <1>1, MaxColumnsType DEF Bounded
  <2>2. (IF f = 1 THEN start + 1 ELSE Nth(E, f - 1) + 1) = FromOf(t, start, q, f)
    <3>1. CASE f = 1
      BY <3>1 DEF FromOf
    <3>2. CASE f # 1
      <4>1. f - 1 \in 1..Cardinality(D)
        BY <1>1, <2>1, <3>2
      <4>2. Nth(E, f - 1) = Nth(D, f - 1)
        BY <4>1, FieldEndsAre
      <4> QED BY <3>2, <4>2 DEF FromOf
    <3> QED BY <3>1, <3>2
  <2>3. Nth(E, f) - 1 = ToOf(t, start, q, f)
    <3>1. CASE f = n
      <4>1. Nth(E, f) = q + 1
        BY <3>1, FieldEndsAre
      <4>2. ToOf(t, start, q, f) = q
        BY <3>1 DEF ToOf
      <4>3. (q + 1) - 1 = q
        OBVIOUS
      <4> QED BY <4>1, <4>2, <4>3
    <3>2. CASE f # n
      <4>1. f \in 1..Cardinality(D)
        BY <1>1, <2>1, <3>2
      <4>2. Nth(E, f) = Nth(D, f)
        BY <4>1, FieldEndsAre
      <4>3. ToOf(t, start, q, f) = Nth(D, f) - 1
        BY <3>2 DEF ToOf
      <4> QED BY <4>2, <4>3
    <3> QED BY <3>1, <3>2
  <2> QED BY <2>2, <2>3
<1> HIDE DEF D, E, n
<1>5. Fields(t, start, q) =
        [f \in 1..Bounded(n) |->
           FieldText(t, IF f = 1 THEN start + 1 ELSE Nth(E, f - 1) + 1, Nth(E, f) - 1)]
  BY <1>2, <1>3
<1>6. Fields(t, start, q) =
        [f \in 1..Bounded(n) |-> FieldText(t, FromOf(t, start, q, f), ToOf(t, start, q, f))]
  BY <1>4, <1>5
<1> QED BY <1>6 DEF n

\* A field lies within its record.
LEMMA FieldWithin ==
  ASSUME NEW t, NEW start \in Nat, NEW q \in Nat, NEW f \in 1..Count(t, start, q), start <= q
  PROVE  /\ FromOf(t, start, q, f) \in Nat \ {0} /\ FromOf(t, start, q, f) <= q + 1
         /\ ToOf(t, start, q, f) \in Nat /\ ToOf(t, start, q, f) <= q
<1> DEFINE D == Delims(t, start, q)
           n == Count(t, start, q)
<1>1. n \in Nat /\ Cardinality(D) = n - 1 /\ D \in SUBSET (1..q)
  <2>1. Cardinality(D) \in Nat /\ D \in SUBSET (1..q)
    BY DelimsType
  <2>2. n = Cardinality(D) + 1
    BY DEF Count
  <2> HIDE DEF D, n
  <2> QED BY <2>1, <2>2
<1>2. ASSUME NEW k \in 1..Cardinality(D) PROVE Nth(D, k) \in 1..q
  <2> HIDE DEF D
  <2>1. Nth(D, k) \in D
    BY <1>1, NthIn
  <2> QED BY <1>1, <2>1
<1> HIDE DEF D, n
<1>3. FromOf(t, start, q, f) \in Nat \ {0} /\ FromOf(t, start, q, f) <= q + 1
  <2>1. CASE f = 1
    BY <2>1 DEF FromOf
  <2>2. CASE f # 1
    <3>1. f - 1 \in 1..Cardinality(D)
      BY <1>1, <2>2 DEF n
    <3>2. FromOf(t, start, q, f) = Nth(D, f - 1) + 1
      BY <2>2 DEF FromOf, D
    <3> QED BY <1>2, <3>1, <3>2
  <2> QED BY <2>1, <2>2
<1>4. ToOf(t, start, q, f) \in Nat /\ ToOf(t, start, q, f) <= q
  <2>1. CASE f = n
    BY <2>1 DEF ToOf, n
  <2>2. CASE f # n
    <3>1. f \in 1..Cardinality(D)
      BY <1>1, <2>2 DEF n
    <3>2. ToOf(t, start, q, f) = Nth(D, f) - 1
      BY <2>2 DEF ToOf, D, n
    <3> QED BY <1>2, <3>1, <3>2
  <2> QED BY <2>1, <2>2
<1> QED BY <1>3, <1>4

LEMMA BoundedType ==
  ASSUME NEW n \in Nat \ {0}
  PROVE  /\ Bounded(n) \in Nat \ {0} /\ Bounded(n) <= n /\ Bounded(n) <= MaxColumns
         /\ n <= MaxColumns => Bounded(n) = n
         /\ n > MaxColumns => Bounded(n) = MaxColumns /\ Bounded(n + 1) = MaxColumns
         /\ n < MaxColumns => Bounded(n + 1) = n + 1
         /\ n = MaxColumns => Bounded(n + 1) = n
BY MaxColumnsType DEF Bounded

LEMMA FieldsType ==
  ASSUME NEW t \in Seq(Byte), NEW start \in Nat, NEW q \in Nat, start <= q, q <= Len(t)
  PROVE  /\ Fields(t, start, q) \in Seq(Seq(Byte))
         /\ Len(Fields(t, start, q)) = Bounded(Count(t, start, q))
<1> DEFINE n == Count(t, start, q)
<1>1. n \in Nat \ {0}
  BY DelimsType
<1>2. Bounded(n) \in Nat /\ Bounded(n) <= n
  BY <1>1, BoundedType
<1>3. ASSUME NEW f \in 1..Bounded(n)
      PROVE  FieldText(t, FromOf(t, start, q, f), ToOf(t, start, q, f)) \in Seq(Byte)
  <2>1. f \in 1..n
    BY <1>1, <1>2
  <2>2. /\ FromOf(t, start, q, f) \in Nat \ {0}
        /\ ToOf(t, start, q, f) \in Nat /\ ToOf(t, start, q, f) <= q
    BY <2>1, FieldWithin
  <2>3. ToOf(t, start, q, f) <= Len(t)
    BY <2>2
  <2> QED BY <2>2, <2>3, FieldTextType
<1>4. Fields(t, start, q) =
        [f \in 1..Bounded(n) |-> FieldText(t, FromOf(t, start, q, f), ToOf(t, start, q, f))]
  BY FieldsAre
<1> HIDE DEF n
<1>5. Fields(t, start, q) \in Seq(Seq(Byte)) /\ Len(Fields(t, start, q)) = Bounded(n)
  BY <1>2, <1>3, <1>4
<1> QED BY <1>5 DEF n

IsDelim(t, i) == t[i] = Delimiter /\ ~Quoted(t, i)

LEMMA DelimsNext ==
  ASSUME NEW t, NEW start \in Nat, NEW q \in Nat, start <= q
  PROVE  Delims(t, start, q + 1) =
           IF IsDelim(t, q + 1) THEN Delims(t, start, q) \cup {q + 1} ELSE Delims(t, start, q)
<1>1. \A i : i \in (start + 1)..(q + 1) <=> i \in (start + 1)..q \/ i = q + 1
  OBVIOUS
<1> QED BY <1>1 DEF Delims, IsDelim

LEMMA CountIs ==
  ASSUME NEW t, NEW start \in Nat, NEW q \in Nat
  PROVE  Cardinality(Delims(t, start, q)) = Count(t, start, q) - 1
<1>1. Cardinality(Delims(t, start, q)) \in Nat
  BY DelimsType
<1> QED BY <1>1 DEF Count

\* A delimiter leaves the fields before it as they are, and begins an empty one.
LEMMA PlacesAtDelim ==
  ASSUME NEW t, NEW start \in Nat, NEW q \in Nat, start <= q, IsDelim(t, q + 1)
  PROVE  /\ Count(t, start, q + 1) = Count(t, start, q) + 1
         /\ \A f \in 1..Count(t, start, q) :
              /\ FromOf(t, start, q + 1, f) = FromOf(t, start, q, f)
              /\ ToOf(t, start, q + 1, f) = ToOf(t, start, q, f)
         /\ FromOf(t, start, q + 1, Count(t, start, q) + 1) = q + 2
         /\ ToOf(t, start, q + 1, Count(t, start, q) + 1) = q + 1
<1> DEFINE D == Delims(t, start, q)
           E == Delims(t, start, q + 1)
           n == Count(t, start, q)
<1>1. E = D \cup {q + 1}
  BY DelimsNext
<1>2. D \in SUBSET (1..q) /\ n \in Nat \ {0} /\ Cardinality(D) = n - 1
  BY DelimsType, CountIs
<1>3. /\ Cardinality(E) = Cardinality(D) + 1
      /\ \A k \in 1..Cardinality(D) : Nth(E, k) = Nth(D, k)
      /\ Nth(E, Cardinality(D) + 1) = q + 1
  <2> HIDE DEF D, E
  <2> QED BY <1>1, <1>2, NthAdd
<1>4. Count(t, start, q + 1) = n + 1
  <2>1. Count(t, start, q + 1) = Cardinality(E) + 1
    BY DEF Count
  <2> HIDE DEF D, E, n
  <2> QED BY <1>2, <1>3, <2>1
<1>5. Nth(E, n) = q + 1
  <2> HIDE DEF D, E, n
  <2> QED BY <1>2, <1>3
<1>6. ASSUME NEW f \in 1..n PROVE FromOf(t, start, q + 1, f) = FromOf(t, start, q, f)
  <2>1. CASE f = 1
    BY <2>1 DEF FromOf
  <2>2. CASE f # 1
    <3>1. f - 1 \in 1..Cardinality(D)
      <4> HIDE DEF D, n
      <4> QED BY <1>2, <2>2
    <3>2. Nth(E, f - 1) = Nth(D, f - 1)
      BY <1>3, <3>1
    <3> QED BY <2>2, <3>2 DEF FromOf
  <2> QED BY <2>1, <2>2
<1>7. ASSUME NEW f \in 1..n PROVE ToOf(t, start, q + 1, f) = ToOf(t, start, q, f)
  <2>1. ToOf(t, start, q + 1, f) = Nth(E, f) - 1
    <3>1. f # n + 1
      <4> HIDE DEF n
      <4> QED BY <1>2
    <3> QED BY <3>1, <1>4 DEF ToOf
  <2>2. CASE f = n
    <3>1. ToOf(t, start, q, f) = q
      BY <2>2 DEF ToOf
    <3>2. Nth(E, f) = q + 1
      BY <2>2, <1>5
    <3> QED BY <2>1, <3>1, <3>2
  <2>3. CASE f # n
    <3>1. f \in 1..Cardinality(D)
      <4> HIDE DEF D, n
      <4> QED BY <1>2, <2>3
    <3>2. Nth(E, f) = Nth(D, f)
      BY <1>3, <3>1
    <3>3. ToOf(t, start, q, f) = Nth(D, f) - 1
      BY <2>3 DEF ToOf
    <3> QED BY <2>1, <3>2, <3>3
  <2> QED BY <2>2, <2>3
<1>8. FromOf(t, start, q + 1, n + 1) = q + 2
  <2>1. n + 1 # 1 /\ (n + 1) - 1 = n
    <3> HIDE DEF n
    <3> QED BY <1>2
  <2>2. FromOf(t, start, q + 1, n + 1) = Nth(E, n) + 1
    BY <2>1 DEF FromOf
  <2> QED BY <2>2, <1>5
<1>9. ToOf(t, start, q + 1, n + 1) = q + 1
  BY <1>4 DEF ToOf
<1> QED BY <1>4, <1>6, <1>7, <1>8, <1>9

\* Any other byte makes the last field longer.
LEMMA PlacesElsewhere ==
  ASSUME NEW t, NEW start \in Nat, NEW q \in Nat, start <= q, ~IsDelim(t, q + 1)
  PROVE  /\ Count(t, start, q + 1) = Count(t, start, q)
         /\ \A f \in 1..Count(t, start, q) :
              /\ FromOf(t, start, q + 1, f) = FromOf(t, start, q, f)
              /\ f # Count(t, start, q) => ToOf(t, start, q + 1, f) = ToOf(t, start, q, f)
         /\ ToOf(t, start, q + 1, Count(t, start, q)) = q + 1
<1>1. Delims(t, start, q + 1) = Delims(t, start, q)
  BY DelimsNext
<1>2. Count(t, start, q + 1) = Count(t, start, q)
  BY <1>1 DEF Count
<1> QED BY <1>1, <1>2 DEF FromOf, ToOf

LEMMA FieldAt ==
  ASSUME NEW t, NEW start \in Nat, NEW q \in Nat, NEW f \in 1..Bounded(Count(t, start, q))
  PROVE  Fields(t, start, q)[f] = FieldText(t, FromOf(t, start, q, f), ToOf(t, start, q, f))
<1> DEFINE N == Bounded(Count(t, start, q))
<1>1. Fields(t, start, q) =
        [g \in 1..N |-> FieldText(t, FromOf(t, start, q, g), ToOf(t, start, q, g))]
  BY FieldsAre
<1>2. f \in 1..N
  OBVIOUS
<1> HIDE DEF N
<1> QED BY <1>1, <1>2

LEMMA FieldsAtDelim ==
  ASSUME NEW t \in Seq(Byte), NEW start \in Nat, NEW q \in Nat,
         start <= q, q < Len(t), IsDelim(t, q + 1)
  PROVE  Fields(t, start, q + 1) = IF Count(t, start, q) < MaxColumns
                                   THEN Append(Fields(t, start, q), <<>>)
                                   ELSE Fields(t, start, q)
<1> DEFINE n == Count(t, start, q)
           F == Fields(t, start, q)
           G == Fields(t, start, q + 1)
<1>1. n \in Nat \ {0} /\ Count(t, start, q + 1) = n + 1
  BY DelimsType, PlacesAtDelim
<1>2. F \in Seq(Seq(Byte)) /\ Len(F) = Bounded(n)
  BY FieldsType
<1>3. G \in Seq(Seq(Byte)) /\ Len(G) = Bounded(n + 1)
  <2>1. q + 1 \in Nat /\ start <= q + 1 /\ q + 1 <= Len(t)
    OBVIOUS
  <2>2. G \in Seq(Seq(Byte)) /\ Len(G) = Bounded(Count(t, start, q + 1))
    BY <2>1, FieldsType
  <2> QED BY <1>1, <2>2
<1>4. /\ Bounded(n) \in Nat \ {0} /\ Bounded(n) <= n /\ Bounded(n) <= MaxColumns
      /\ n <= MaxColumns => Bounded(n) = n
      /\ n > MaxColumns => Bounded(n) = MaxColumns /\ Bounded(n + 1) = MaxColumns
      /\ n < MaxColumns => Bounded(n + 1) = n + 1
      /\ n = MaxColumns => Bounded(n + 1) = n
  BY <1>1, BoundedType
<1>5. ASSUME NEW f \in 1..Bounded(n) PROVE G[f] = F[f]
  <2>1. f \in 1..n /\ f \in 1..Bounded(n + 1)
    <3> HIDE DEF n
    <3> QED BY <1>1, <1>4, MaxColumnsType
  <2>2. F[f] = FieldText(t, FromOf(t, start, q, f), ToOf(t, start, q, f))
    BY FieldAt
  <2>3. f \in 1..Bounded(Count(t, start, q + 1)) /\ q + 1 \in Nat
    BY <2>1, <1>1
  <2>4. G[f] = FieldText(t, FromOf(t, start, q + 1, f), ToOf(t, start, q + 1, f))
    BY <2>3, FieldAt
  <2> QED BY <2>1, <2>2, <2>4, PlacesAtDelim
<1>6. CASE n < MaxColumns
  <2>1. G[n + 1] = <<>>
    <3>1. n + 1 \in 1..Bounded(Count(t, start, q + 1)) /\ q + 1 \in Nat
      <4> HIDE DEF n
      <4> QED BY <1>1, <1>4, <1>6
    <3>2. G[n + 1] = FieldText(t, FromOf(t, start, q + 1, n + 1), ToOf(t, start, q + 1, n + 1))
      BY <3>1, FieldAt
    <3>3. FieldText(t, q + 2, q + 1) = <<>>
      BY FieldTextEmpty
    <3> QED BY <3>2, <3>3, PlacesAtDelim
  <2>2. <<>> \in Seq(Byte)
    OBVIOUS
  <2>3. /\ Append(F, <<>>) \in Seq(Seq(Byte)) /\ Len(Append(F, <<>>)) = Len(F) + 1
        /\ \A i \in 1..Len(F) : Append(F, <<>>)[i] = F[i]
        /\ Append(F, <<>>)[Len(F) + 1] = <<>>
    <3> HIDE DEF F
    <3> QED BY <1>2, <2>2, AppendProperties
  <2> HIDE DEF F, G, n
  <2>4. Len(F) = n /\ Len(G) = n + 1
    BY <1>1, <1>2, <1>3, <1>4, <1>6, MaxColumnsType
  <2>5. ASSUME NEW i \in 1..(n + 1) PROVE G[i] = Append(F, <<>>)[i]
    <3>1. i \in 1..n \/ i = n + 1
      BY <1>1
    <3>2. CASE i \in 1..n
      <4>1. i \in 1..Bounded(n)
        BY <1>1, <1>4, <1>6, <3>2, MaxColumnsType
      <4>2. Append(F, <<>>)[i] = F[i]
        BY <2>3, <2>4, <3>2
      <4> QED BY <1>5, <4>1, <4>2
    <3>3. CASE i = n + 1
      BY <2>1, <2>3, <2>4, <3>3
    <3> QED BY <3>1, <3>2, <3>3
  <2>6. G = Append(F, <<>>)
    BY <1>3, <2>3, <2>4, <2>5, SeqEqual
  <2> QED BY <1>6, <2>6 DEF F, G, n
<1>7. CASE ~(n < MaxColumns)
  <2> HIDE DEF F, G, n
  <2>1. Len(G) = Bounded(n)
    BY <1>1, <1>3, <1>4, <1>7, MaxColumnsType
  <2>2. G = F
    BY <1>2, <1>3, <1>5, <2>1, SeqEqual
  <2> QED BY <1>7, <2>2 DEF F, G, n
<1> QED BY <1>6, <1>7

\* The last of the fields, as they are after q bytes.
LEMMA FieldsElsewhere ==
  ASSUME NEW t \in Seq(Byte), NEW start \in Nat, NEW q \in Nat,
         start <= q, q < Len(t), ~IsDelim(t, q + 1)
  PROVE  LET n == Count(t, start, q)
             F == Fields(t, start, q)
             G == Fields(t, start, q + 1)
         IN  /\ F \in Seq(Seq(Byte)) /\ G \in Seq(Seq(Byte)) /\ Len(F) = Bounded(n) /\ Len(G) = Len(F)
             /\ \A f \in 1..Len(F) : f # n => G[f] = F[f]
             /\ n <= MaxColumns =>
                  /\ F[n] = FieldText(t, FromOf(t, start, q, n), q)
                  /\ G[n] = FieldText(t, FromOf(t, start, q, n), q + 1)
             /\ FromOf(t, start, q, n) \in Nat \ {0} /\ FromOf(t, start, q, n) <= q + 1
             /\ n \in Nat \ {0}
<1> DEFINE n == Count(t, start, q)
           F == Fields(t, start, q)
           G == Fields(t, start, q + 1)
<1>1. n \in Nat \ {0} /\ Count(t, start, q + 1) = n
  <2>1. n \in Nat \ {0}
    BY DelimsType
  <2>2. Count(t, start, q + 1) = n
    BY PlacesElsewhere
  <2> QED BY <2>1, <2>2
<1>2. F \in Seq(Seq(Byte)) /\ Len(F) = Bounded(n)
  BY FieldsType
<1>3. G \in Seq(Seq(Byte)) /\ Len(G) = Bounded(n)
  <2>1. q + 1 \in Nat /\ start <= q + 1 /\ q + 1 <= Len(t)
    OBVIOUS
  <2>2. G \in Seq(Seq(Byte)) /\ Len(G) = Bounded(Count(t, start, q + 1))
    BY <2>1, FieldsType
  <2> QED BY <1>1, <2>2
<1>4. Bounded(n) \in Nat \ {0} /\ Bounded(n) <= n /\ (n <= MaxColumns => Bounded(n) = n)
  BY <1>1, BoundedType
<1>5. ASSUME NEW f \in 1..Bounded(n)
      PROVE  /\ F[f] = FieldText(t, FromOf(t, start, q, f), ToOf(t, start, q, f))
             /\ G[f] = FieldText(t, FromOf(t, start, q, f), ToOf(t, start, q + 1, f))
             /\ f \in 1..n
  <2>1. f \in 1..n
    <3> HIDE DEF n
    <3> QED BY <1>1, <1>4
  <2>2. F[f] = FieldText(t, FromOf(t, start, q, f), ToOf(t, start, q, f))
    BY FieldAt
  <2>3. f \in 1..Bounded(Count(t, start, q + 1)) /\ q + 1 \in Nat
    BY <1>1
  <2>4. G[f] = FieldText(t, FromOf(t, start, q + 1, f), ToOf(t, start, q + 1, f))
    BY <2>3, FieldAt
  <2>5. FromOf(t, start, q + 1, f) = FromOf(t, start, q, f)
    BY <2>1, PlacesElsewhere
  <2> HIDE DEF F, G, n
  <2> QED BY <2>1, <2>2, <2>4, <2>5
<1>6. ASSUME NEW f \in 1..Bounded(n), f # n PROVE G[f] = F[f]
  <2>1. ToOf(t, start, q + 1, f) = ToOf(t, start, q, f)
    BY <1>5, <1>6, PlacesElsewhere
  <2> HIDE DEF F, G, n
  <2> QED BY <1>5, <2>1
<1>7. ASSUME n <= MaxColumns
      PROVE  /\ F[n] = FieldText(t, FromOf(t, start, q, n), q)
             /\ G[n] = FieldText(t, FromOf(t, start, q, n), q + 1)
  <2>1. ToOf(t, start, q, n) = q
    BY DEF ToOf
  <2>2. ToOf(t, start, q + 1, n) = q + 1
    BY PlacesElsewhere
  <2> HIDE DEF F, G, n
  <2>3. n \in 1..Bounded(n)
    BY <1>1, <1>4, <1>7
  <2> QED BY <1>5, <2>1, <2>2, <2>3
<1>8. FromOf(t, start, q, n) \in Nat \ {0} /\ FromOf(t, start, q, n) <= q + 1
  <2>1. n \in 1..n
    <3> HIDE DEF n
    <3> QED BY <1>1
  <2> QED BY <2>1, FieldWithin
<1> HIDE DEF F, G, n
<1>9. \A f \in 1..Len(F) : f # n => G[f] = F[f]
  BY <1>2, <1>6
<1>10. /\ F \in Seq(Seq(Byte)) /\ G \in Seq(Seq(Byte)) /\ Len(F) = Bounded(n) /\ Len(G) = Len(F)
       /\ \A f \in 1..Len(F) : f # n => G[f] = F[f]
       /\ n <= MaxColumns =>
            /\ F[n] = FieldText(t, FromOf(t, start, q, n), q)
            /\ G[n] = FieldText(t, FromOf(t, start, q, n), q + 1)
       /\ FromOf(t, start, q, n) \in Nat \ {0} /\ FromOf(t, start, q, n) <= q + 1
       /\ n \in Nat \ {0}
  BY <1>1, <1>2, <1>3, <1>7, <1>8, <1>9
<1> QED BY <1>10 DEF F, G, n

LEMMA FieldsSkip ==
  ASSUME NEW t \in Seq(Byte), NEW start \in Nat, NEW q \in Nat,
         start <= q, q < Len(t), t[q + 1] = Quote, ~Literal(t, q + 1), ~IsDelim(t, q + 1)
  PROVE  Fields(t, start, q + 1) = Fields(t, start, q)
<1> DEFINE n == Count(t, start, q)
           F == Fields(t, start, q)
           G == Fields(t, start, q + 1)
           a == FromOf(t, start, q, n)
<1>1. /\ F \in Seq(Seq(Byte)) /\ G \in Seq(Seq(Byte)) /\ Len(F) = Bounded(n) /\ Len(G) = Len(F)
      /\ \A f \in 1..Len(F) : f # n => G[f] = F[f]
      /\ n <= MaxColumns => F[n] = FieldText(t, a, q) /\ G[n] = FieldText(t, a, q + 1)
      /\ a \in Nat \ {0} /\ a <= q + 1
      /\ n \in Nat \ {0}
  BY FieldsElsewhere
<1> HIDE DEF n, F, G, a
<1>2. FieldText(t, a, q + 1) = FieldText(t, a, q)
  BY <1>1, FieldTextSkip
<1>3. ASSUME NEW f \in 1..Len(F) PROVE G[f] = F[f]
  <2>1. n \in 1..Len(F) => n <= MaxColumns
    BY <1>1, BoundedType
  <2> QED BY <1>1, <1>2, <2>1
<1>4. G = F
  BY <1>1, <1>3, SeqEqual
<1> QED BY <1>4 DEF F, G

LEMMA FieldsFull ==
  ASSUME NEW t \in Seq(Byte), NEW start \in Nat, NEW q \in Nat,
         start <= q, q < Len(t), ~IsDelim(t, q + 1), Count(t, start, q) > MaxColumns
  PROVE  Fields(t, start, q + 1) = Fields(t, start, q)
<1> DEFINE n == Count(t, start, q)
           F == Fields(t, start, q)
           G == Fields(t, start, q + 1)
<1>1. /\ F \in Seq(Seq(Byte)) /\ G \in Seq(Seq(Byte)) /\ Len(F) = Bounded(n) /\ Len(G) = Len(F)
      /\ \A f \in 1..Len(F) : f # n => G[f] = F[f]
      /\ n \in Nat \ {0}
  BY FieldsElsewhere
<1>2. n > MaxColumns
  OBVIOUS
<1> HIDE DEF n, F, G
<1>3. ASSUME NEW f \in 1..Len(F) PROVE G[f] = F[f]
  <2>1. f # n
    BY <1>1, <1>2, BoundedType, MaxColumnsType
  <2> QED BY <1>1, <2>1
<1>4. G = F
  BY <1>1, <1>3, SeqEqual
<1> QED BY <1>4 DEF F, G

\* A byte that is kept comes to the end of the last field.
LEMMA FieldsKeep ==
  ASSUME NEW t \in Seq(Byte), NEW start \in Nat, NEW q \in Nat,
         NEW A \in Seq(Seq(Byte)), NEW c \in Seq(Byte),
         start <= q, q < Len(t), ~IsDelim(t, q + 1), Count(t, start, q) <= MaxColumns,
         t[q + 1] # Quote \/ Literal(t, q + 1),
         Fields(t, start, q) = Append(A, c)
  PROVE  Fields(t, start, q + 1) = Append(A, Append(c, t[q + 1]))
<1> DEFINE n == Count(t, start, q)
           F == Fields(t, start, q)
           G == Fields(t, start, q + 1)
           a == FromOf(t, start, q, n)
           d == Append(c, t[q + 1])
<1>1. /\ F \in Seq(Seq(Byte)) /\ G \in Seq(Seq(Byte)) /\ Len(F) = Bounded(n) /\ Len(G) = Len(F)
      /\ \A f \in 1..Len(F) : f # n => G[f] = F[f]
      /\ n <= MaxColumns => F[n] = FieldText(t, a, q) /\ G[n] = FieldText(t, a, q + 1)
      /\ a \in Nat \ {0} /\ a <= q + 1
      /\ n \in Nat \ {0}
  BY FieldsElsewhere
<1>2. n <= MaxColumns /\ F = Append(A, c)
  OBVIOUS
<1>3. t[q + 1] \in Byte /\ d \in Seq(Byte)
  <2>1. t[q + 1] \in Byte
    OBVIOUS
  <2> QED BY <2>1, AppendProperties
<1>4. /\ Append(A, c) \in Seq(Seq(Byte)) /\ Len(Append(A, c)) = Len(A) + 1
      /\ \A i \in 1..Len(A) : Append(A, c)[i] = A[i]
      /\ Append(A, c)[Len(A) + 1] = c
  BY AppendProperties
<1>5. /\ Append(A, d) \in Seq(Seq(Byte)) /\ Len(Append(A, d)) = Len(A) + 1
      /\ \A i \in 1..Len(A) : Append(A, d)[i] = A[i]
      /\ Append(A, d)[Len(A) + 1] = d
  <2> HIDE DEF d
  <2> QED BY <1>3, AppendProperties
<1>6. FieldText(t, a, q + 1) = Append(FieldText(t, a, q), t[q + 1])
  <2> HIDE DEF a
  <2> QED BY <1>1, FieldTextAppend
<1> HIDE DEF n, F, G, a
<1>7. Len(F) = n /\ Len(A) + 1 = n /\ Len(A) \in Nat
  BY <1>1, <1>2, <1>4, BoundedType
<1>8. F[n] = c
  BY <1>2, <1>4, <1>7
<1>9. G[n] = d
  BY <1>1, <1>2, <1>6, <1>8
<1> HIDE DEF d
<1>10. ASSUME NEW i \in 1..n PROVE G[i] = Append(A, d)[i]
  <2>1. CASE i = n
    BY <1>5, <1>7, <1>9, <2>1
  <2>2. CASE i # n
    <3>1. i \in 1..Len(A) /\ i \in 1..Len(F)
      BY <1>1, <1>7, <2>2
    <3>2. G[i] = F[i] /\ F[i] = A[i]
      BY <1>1, <1>2, <1>4, <2>2, <3>1
    <3> QED BY <1>5, <3>1, <3>2
  <2> QED BY <2>1, <2>2
<1>11. Len(G) = n /\ Len(Append(A, d)) = n
  BY <1>1, <1>5, <1>7
<1>12. G = Append(A, d)
  BY <1>1, <1>5, <1>10, <1>11, SeqEqual
<1> QED BY <1>12 DEF G, d

LEMMA FieldsNone ==
  ASSUME NEW t, NEW q \in Nat
  PROVE  Count(t, q, q) = 1 /\ Fields(t, q, q) = <<<<>>>>
<1>1. Delims(t, q, q) = {}
  BY DEF Delims
<1>2. Cardinality(Delims(t, q, q)) = 0
  BY <1>1, FS_EmptySet
<1>3. Count(t, q, q) = 1
  BY <1>2 DEF Count
<1>4. Bounded(1) = 1
  BY BoundedType, MaxColumnsType DEF Bounded
<1>5. FromOf(t, q, q, 1) = q + 1 /\ ToOf(t, q, q, 1) = q
  BY <1>3 DEF FromOf, ToOf
<1>6. FieldText(t, q + 1, q) = <<>>
  BY FieldTextEmpty
<1>7. Fields(t, q, q) = [f \in 1..1 |-> FieldText(t, FromOf(t, q, q, f), ToOf(t, q, q, f))]
  <2>1. Bounded(Count(t, q, q)) = 1
    BY <1>3, <1>4
  <2>2. Fields(t, q, q) =
          [f \in 1..Bounded(Count(t, q, q)) |-> FieldText(t, FromOf(t, q, q, f), ToOf(t, q, q, f))]
    BY FieldsAre
  <2> QED BY <2>1, <2>2
<1>8. Fields(t, q, q) = [f \in 1..1 |-> <<>>]
  BY <1>5, <1>6, <1>7
<1> QED BY <1>3, <1>8

-----------------------------------------------------------------------------
(* Line ends, and the records found.                                       *)

LEMMA AtMostThree ==
  ASSUME NEW a, NEW b, NEW c
  PROVE  Cardinality({a, b, c}) <= 3
<1>1. IsFiniteSet({c}) /\ Cardinality({c}) = 1
  BY FS_Singleton
<1>2. IsFiniteSet({b, c}) /\ Cardinality({b, c}) \in Nat /\ Cardinality({b, c}) <= 2
  <2>1. {b, c} = {c} \cup {b}
    OBVIOUS
  <2> QED BY <1>1, <2>1, FS_AddElement
<1>3. {a, b, c} = {b, c} \cup {a}
  OBVIOUS
<1>4. Cardinality({b, c} \cup {a}) =
        IF a \in {b, c} THEN Cardinality({b, c}) ELSE Cardinality({b, c}) + 1
  BY <1>2, FS_AddElement
<1> DEFINE m == Cardinality({b, c})
           k == Cardinality({b, c} \cup {a})
<1>5. k <= 3
  <2>1. m \in Nat /\ m <= 2
    BY <1>2
  <2>2. k = m \/ k = m + 1
    BY <1>4
  <2> HIDE DEF m, k
  <2> QED BY <2>1, <2>2
<1> QED BY <1>3, <1>5

LEMMA Distinct ==
  /\ Quote # Delimiter /\ Quote # CR /\ Quote # LF
  /\ Delimiter # CR /\ Delimiter # LF /\ CR # LF
  /\ Quote \in Byte /\ Delimiter \in Byte /\ CR \in Byte /\ LF \in Byte
<1> DEFINE S == {Quote, Delimiter, CR, LF}
<1>1. Cardinality(S) = 4 /\ S \subseteq Byte
  BY ScannerAssumption
<1>2. ASSUME NEW a, NEW b, NEW c, S = {a, b, c} PROVE FALSE
  <2>1. Cardinality(S) <= 3
    BY <1>2, AtMostThree
  <2> HIDE DEF S
  <2> QED BY <1>1, <2>1
<1>3. Quote # Delimiter
  <2>1. Quote = Delimiter => S = {Delimiter, CR, LF}
    OBVIOUS
  <2> QED BY <1>2, <2>1
<1>4. Quote # CR
  <2>1. Quote = CR => S = {Delimiter, CR, LF}
    OBVIOUS
  <2> QED BY <1>2, <2>1
<1>5. Quote # LF
  <2>1. Quote = LF => S = {Delimiter, CR, LF}
    OBVIOUS
  <2> QED BY <1>2, <2>1
<1>6. Delimiter # CR
  <2>1. Delimiter = CR => S = {Quote, CR, LF}
    OBVIOUS
  <2> QED BY <1>2, <2>1
<1>7. Delimiter # LF
  <2>1. Delimiter = LF => S = {Quote, CR, LF}
    OBVIOUS
  <2> QED BY <1>2, <2>1
<1>8. CR # LF
  <2>1. CR = LF => S = {Quote, Delimiter, LF}
    OBVIOUS
  <2> QED BY <1>2, <2>1
<1> QED BY <1>1, <1>3, <1>4, <1>5, <1>6, <1>7, <1>8

LEMMA EndsToType ==
  ASSUME NEW t, NEW o \in Nat, NEW q \in Nat
  PROVE  /\ EndsTo(t, o, q) \in SUBSET (1..q)
         /\ IsFiniteSet(EndsTo(t, o, q)) /\ Cardinality(EndsTo(t, o, q)) \in Nat
<1>1. EndsTo(t, o, q) \in SUBSET (1..q)
  BY DEF EndsTo, LineEnds
<1> QED BY <1>1, UpToFinite

LEMMA EndsToNext ==
  ASSUME NEW t \in Seq(Byte), NEW o \in Nat, NEW q \in Nat, o <= q
  PROVE  /\ EndsTo(t, o, q + 1) =
              IF q + 1 \in LineEnds(t) THEN EndsTo(t, o, q) \cup {q + 1} ELSE EndsTo(t, o, q)
         /\ Cardinality(EndsTo(t, o, q + 1)) =
              IF q + 1 \in LineEnds(t) THEN Cardinality(EndsTo(t, o, q)) + 1
              ELSE Cardinality(EndsTo(t, o, q))
<1>1. \A i \in LineEnds(t) : i \in Int
  BY DEF LineEnds
<1>2. \A i \in LineEnds(t) : (o < i /\ i <= q + 1) <=> (o < i /\ i <= q) \/ i = q + 1
  BY <1>1
<1>3. EndsTo(t, o, q + 1) =
        IF q + 1 \in LineEnds(t) THEN EndsTo(t, o, q) \cup {q + 1} ELSE EndsTo(t, o, q)
  BY <1>2 DEF EndsTo
<1>4. IsFiniteSet(EndsTo(t, o, q)) /\ q + 1 \notin EndsTo(t, o, q)
  <2>1. ~(q + 1 <= q)
    OBVIOUS
  <2>2. q + 1 \notin EndsTo(t, o, q)
    BY <2>1 DEF EndsTo
  <2> QED BY <2>2, EndsToType
<1>5. Cardinality(EndsTo(t, o, q) \cup {q + 1}) = Cardinality(EndsTo(t, o, q)) + 1
  BY <1>4, FS_AddElement
<1> QED BY <1>3, <1>5

LEMMA EndsToNone ==
  ASSUME NEW t, NEW q \in Nat
  PROVE  EndsTo(t, q, q) = {} /\ Cardinality(EndsTo(t, q, q)) = 0
<1>1. \A i \in LineEnds(t) : i \in Int
  BY DEF LineEnds
<1>2. EndsTo(t, q, q) = {}
  BY <1>1 DEF EndsTo
<1> QED BY <1>2, FS_EmptySet

LEMMA LineEndIs ==
  ASSUME NEW t \in Seq(Byte), NEW q \in Nat, q < Len(t)
  PROVE  q + 1 \in LineEnds(t) <=>
           /\ ~Quoted(t, q + 1)
           /\ t[q + 1] = CR \/ t[q + 1] = LF
           /\ ~(t[q + 1] = LF /\ q > 0 /\ t[q] = CR)
<1>1. q + 1 \in 1..Len(t) /\ (q + 1 > 1 <=> q > 0) /\ (q + 1) - 1 = q
  OBVIOUS
<1> QED BY <1>1 DEF LineEnds

LEMMA AfterEndType ==
  ASSUME NEW t \in Seq(Byte), NEW i \in Nat
  PROVE  /\ AfterEnd(t, i) \in {i, i + 1} /\ AfterEnd(t, i) \in Nat
         /\ t[i] = CR /\ i < Len(t) /\ t[i + 1] = LF => AfterEnd(t, i) = i + 1
         /\ ~(t[i] = CR /\ i < Len(t) /\ t[i + 1] = LF) => AfterEnd(t, i) = i
BY DEF AfterEnd, Follows

LEMMA RecordType ==
  ASSUME NEW r \in Record
  PROVE  r.start \in Nat /\ r.end \in Nat /\ r.fields \in Seq(Seq(Byte))
BY DEF Record

LEMMA FoundAppend ==
  ASSUME NEW t \in Seq(Byte), NEW o \in Nat, NEW rs \in Seq(Record), NEW r \in Record,
         Found(t, o, rs),
         r.end + 1 \in LineEnds(t), o <= r.end,
         Cardinality(EndsTo(t, o, r.end + 1)) = Len(rs) + 1,
         r.start = NextStart(t, o, rs), r.start <= r.end,
         EndsTo(t, r.start, r.end) = {},
         r.fields = Fields(t, r.start, r.end)
  PROVE  Found(t, o, Append(rs, r)) /\ NextStart(t, o, Append(rs, r)) = AfterEnd(t, r.end + 1)
<1> DEFINE n == Len(rs)
           a == Append(rs, r)
<1>1. /\ a \in Seq(Record) /\ a # <<>> /\ Len(a) = n + 1
      /\ \A i \in 1..n : a[i] = rs[i]
      /\ a[n + 1] = r
  BY AppendProperties
<1>2. n \in Nat /\ (rs = <<>> <=> n = 0) /\ DOMAIN rs = 1..n /\ DOMAIN a = 1..(n + 1)
  <2> HIDE DEF a
  <2> QED BY <1>1
<1> HIDE DEF a
<1>3. NextStart(t, o, a) = AfterEnd(t, r.end + 1)
  BY <1>1 DEF NextStart
<1>4. r.start = IF n = 0 THEN o ELSE AfterEnd(t, rs[n].end + 1)
  BY <1>2 DEF NextStart
<1>5. ASSUME NEW k \in 1..(n + 1)
      PROVE  /\ a[k].end + 1 \in LineEnds(t)
             /\ o <= a[k].end
             /\ Cardinality(EndsTo(t, o, a[k].end + 1)) = k
             /\ a[k].start = IF k = 1 THEN o ELSE AfterEnd(t, a[k - 1].end + 1)
             /\ a[k].start <= a[k].end
             /\ EndsTo(t, a[k].start, a[k].end) = {}
             /\ a[k].fields = Fields(t, a[k].start, a[k].end)
  <2>1. CASE k = n + 1
    <3>1. a[k] = r
      BY <1>1, <2>1
    <3>2. r.start = IF k = 1 THEN o ELSE AfterEnd(t, a[k - 1].end + 1)
      <4>1. k = 1 <=> n = 0
        BY <1>2, <2>1
      <4>2. n # 0 => a[k - 1] = rs[n]
        BY <1>1, <1>2, <2>1
      <4> QED BY <1>4, <4>1, <4>2
    <3> QED BY <2>1, <3>1, <3>2
  <2>2. CASE k # n + 1
    <3>1. k \in 1..n /\ (k # 1 => k - 1 \in 1..n)
      BY <1>2, <2>2
    <3>2. a[k] = rs[k] /\ (k # 1 => a[k - 1] = rs[k - 1])
      BY <1>1, <3>1
    <3>3. k \in DOMAIN rs
      BY <1>2, <3>1
    <3> QED BY <3>2, <3>3 DEF Found
  <2> QED BY <2>1, <2>2
<1>6. Found(t, o, a)
  BY <1>2, <1>5 DEF Found
<1> QED BY <1>3, <1>6 DEF a

-----------------------------------------------------------------------------
(* What reading a byte does to what has been collected.                    *)

LEMMA ScannerFields ==
  ASSUME NEW s \in Scanner
  PROVE  /\ s.inQuotes \in BOOLEAN /\ s.pendingQuote \in BOOLEAN /\ s.pendingCr \in BOOLEAN
         /\ s.bomChecked \in BOOLEAN /\ s.bomBuffer \in Seq(Byte) /\ s.start \in Nat
         /\ s.hasRecordStart \in BOOLEAN /\ s.sawData \in BOOLEAN /\ s.col \in Nat
         /\ s.span \in Seq(Byte) /\ s.skip \in BOOLEAN /\ s.cell \in Seq(Byte)
         /\ s.fields \in Seq(Seq(Byte)) /\ s.records \in Seq(Record)
BY DEF Scanner

LEMMA FieldsSoFarIs ==
  ASSUME NEW t, NEW s \in Scanner, NEW q \in Nat
  PROVE  FieldsSoFar(t, s, q) <=>
           /\ Count(t, s.start, q) = s.col + 1
           /\ s.col < MaxColumns => Append(s.fields, s.cell \o s.span) = Fields(t, s.start, q)
           /\ ~(s.col < MaxColumns) => s.cell = <<>> /\ s.fields = Fields(t, s.start, q)
<1>1. Cardinality(FieldEnds(t, s.start, q)) = Count(t, s.start, q)
  BY ScannerFields, FieldEndsAre
<1> QED BY <1>1 DEF FieldsSoFar

LEMMA KeepFields ==
  ASSUME NEW t \in Seq(Byte), NEW q \in Nat, NEW s \in Scanner, NEW r \in Scanner,
         q < Len(t), s.start <= q, FieldsSoFar(t, s, q),
         ~IsDelim(t, q + 1), t[q + 1] # Quote \/ Literal(t, q + 1),
         r.start = s.start, r.col = s.col, r.fields = s.fields,
         s.col < MaxColumns => r.cell \o r.span = Append(s.cell \o s.span, t[q + 1]),
         ~(s.col < MaxColumns) => r.cell = <<>>
  PROVE  FieldsSoFar(t, r, q + 1)
<1>1. /\ Count(t, s.start, q) = s.col + 1
      /\ s.col < MaxColumns => Append(s.fields, s.cell \o s.span) = Fields(t, s.start, q)
      /\ ~(s.col < MaxColumns) => s.cell = <<>> /\ s.fields = Fields(t, s.start, q)
  BY FieldsSoFarIs
<1>2. s.start \in Nat /\ s.col \in Nat /\ s.fields \in Seq(Seq(Byte)) /\ s.cell \o s.span \in Seq(Byte)
  BY ScannerFields, ConcatProperties
<1>3. Count(t, s.start, q + 1) = s.col + 1
  BY <1>1, <1>2, PlacesElsewhere
<1>4. s.col < MaxColumns => Append(r.fields, r.cell \o r.span) = Fields(t, s.start, q + 1)
  <2>1. SUFFICES ASSUME s.col < MaxColumns
                 PROVE  Append(r.fields, r.cell \o r.span) = Fields(t, s.start, q + 1)
    OBVIOUS
  <2>2. Count(t, s.start, q) <= MaxColumns
    BY <1>1, <1>2, <2>1, MaxColumnsType
  <2> DEFINE c == s.cell \o s.span
  <2>3. c \in Seq(Byte) /\ Append(s.fields, c) = Fields(t, s.start, q)
    BY <1>1, <1>2, <2>1
  <2>4. r.cell \o r.span = Append(c, t[q + 1])
    BY <2>1
  <2> DEFINE a == s.start
             A == s.fields
  <2>5. /\ a \in Nat /\ A \in Seq(Seq(Byte)) /\ c \in Seq(Byte)
        /\ a <= q /\ q < Len(t) /\ ~IsDelim(t, q + 1) /\ Count(t, a, q) <= MaxColumns
        /\ t[q + 1] # Quote \/ Literal(t, q + 1)
        /\ Fields(t, a, q) = Append(A, c)
    BY <1>2, <2>2, <2>3
  <2> HIDE DEF a, A, c
  <2>6. Fields(t, a, q + 1) = Append(A, Append(c, t[q + 1]))
    BY <2>5, FieldsKeep
  <2> QED BY <2>4, <2>6 DEF a, A
<1>5. ~(s.col < MaxColumns) => r.cell = <<>> /\ r.fields = Fields(t, s.start, q + 1)
  <2>1. SUFFICES ASSUME ~(s.col < MaxColumns)
                 PROVE  r.cell = <<>> /\ r.fields = Fields(t, s.start, q + 1)
    OBVIOUS
  <2>2. Count(t, s.start, q) > MaxColumns
    BY <1>1, <1>2, <2>1, MaxColumnsType
  <2> QED BY <1>1, <1>2, <2>1, <2>2, FieldsFull
<1>6. q + 1 \in Nat
  OBVIOUS
<1> QED BY <1>3, <1>4, <1>5, <1>6, FieldsSoFarIs

LEMMA SkipFields ==
  ASSUME NEW t \in Seq(Byte), NEW q \in Nat, NEW s \in Scanner, NEW r \in Scanner,
         q < Len(t), s.start <= q, FieldsSoFar(t, s, q),
         t[q + 1] = Quote, ~Literal(t, q + 1),
         r.start = s.start, r.col = s.col, r.fields = s.fields,
         s.col < MaxColumns => r.cell \o r.span = s.cell \o s.span,
         ~(s.col < MaxColumns) => r.cell = <<>>
  PROVE  FieldsSoFar(t, r, q + 1)
<1>1. /\ Count(t, s.start, q) = s.col + 1
      /\ s.col < MaxColumns => Append(s.fields, s.cell \o s.span) = Fields(t, s.start, q)
      /\ ~(s.col < MaxColumns) => s.cell = <<>> /\ s.fields = Fields(t, s.start, q)
  BY FieldsSoFarIs
<1>2. s.start \in Nat
  BY ScannerFields
<1>3. ~IsDelim(t, q + 1)
  BY Distinct DEF IsDelim
<1>4. Count(t, s.start, q + 1) = Count(t, s.start, q)
  BY <1>2, <1>3, PlacesElsewhere
<1>5. Fields(t, s.start, q + 1) = Fields(t, s.start, q)
  BY <1>2, <1>3, FieldsSkip
<1>6. q + 1 \in Nat
  OBVIOUS
<1> QED BY <1>1, <1>4, <1>5, <1>6, FieldsSoFarIs

LEMMA DelimFields ==
  ASSUME NEW t \in Seq(Byte), NEW q \in Nat, NEW s \in Scanner, NEW r \in Scanner,
         q < Len(t), s.start <= q, FieldsSoFar(t, s, q), IsDelim(t, q + 1),
         r.start = s.start, r.col = s.col + 1, r.cell = <<>>, r.span = <<>>,
         s.col < MaxColumns => r.fields = Append(s.fields, s.cell \o s.span),
         ~(s.col < MaxColumns) => r.fields = s.fields
  PROVE  FieldsSoFar(t, r, q + 1)
<1>1. /\ Count(t, s.start, q) = s.col + 1
      /\ s.col < MaxColumns => Append(s.fields, s.cell \o s.span) = Fields(t, s.start, q)
      /\ ~(s.col < MaxColumns) => s.cell = <<>> /\ s.fields = Fields(t, s.start, q)
  BY FieldsSoFarIs
<1>2. s.start \in Nat /\ s.col \in Nat
  BY ScannerFields
<1>3. r.fields = Fields(t, s.start, q)
  BY <1>1
<1>4. Count(t, s.start, q + 1) = s.col + 2
  <2>1. Count(t, s.start, q + 1) = Count(t, s.start, q) + 1
    BY <1>2, PlacesAtDelim
  <2> QED BY <1>1, <1>2, <2>1
<1>5. Fields(t, s.start, q + 1) = IF Count(t, s.start, q) < MaxColumns
                                  THEN Append(Fields(t, s.start, q), <<>>)
                                  ELSE Fields(t, s.start, q)
  BY <1>2, FieldsAtDelim
<1>6. Count(t, r.start, q + 1) = r.col + 1
  BY <1>2, <1>4
<1>7. r.cell \o r.span = <<>>
  OBVIOUS
<1>8. r.col = Count(t, s.start, q)
  BY <1>1
<1>9. r.col < MaxColumns => Append(r.fields, r.cell \o r.span) = Fields(t, r.start, q + 1)
  BY <1>3, <1>5, <1>7, <1>8
<1>10. ~(r.col < MaxColumns) => r.cell = <<>> /\ r.fields = Fields(t, r.start, q + 1)
  BY <1>3, <1>5, <1>8
<1>11. q + 1 \in Nat
  OBVIOUS
<1> QED BY <1>6, <1>9, <1>10, <1>11, FieldsSoFarIs

\* A byte that ends no line.
LEMMA OpenNext ==
  ASSUME NEW t \in Seq(Byte), NEW o \in Nat, NEW q \in Nat, NEW s \in Scanner, NEW r \in Scanner,
         Scan(t, o, s, q), s.hasRecordStart, q < Len(t), q + 1 \notin LineEnds(t),
         ~SplitsCrLf(t, q + 1), Quoting(t, r, q + 1), FieldsSoFar(t, r, q + 1),
         r.bomChecked, r.hasRecordStart, ~r.pendingCr, r.sawData,
         r.records = s.records, r.start = s.start
  PROVE  Scan(t, o, r, q + 1)
<1>1. s.start \in Nat /\ r.sawData \in BOOLEAN /\ q + 1 \in Nat
  BY ScannerFields
<1>2. /\ o <= q /\ Found(t, o, s.records) /\ Cardinality(EndsTo(t, o, q)) = Len(s.records)
      /\ Open(t, o, s, q)
  BY DEF Scan
<1>3. /\ s.start = NextStart(t, o, s.records) /\ o <= s.start /\ s.start <= q
      /\ EndsTo(t, s.start, q) = {}
  BY <1>2 DEF Open
<1>4. EndsTo(t, s.start, q + 1) = {}
  BY <1>1, <1>3, EndsToNext
<1>5. Cardinality(EndsTo(t, o, q + 1)) = Len(s.records)
  BY <1>2, EndsToNext
<1>6. s.start <= q + 1 /\ s.start < q + 1 /\ o <= q + 1 /\ q + 1 <= Len(t)
  BY <1>1, <1>2, <1>3
<1>7. r.sawData = (r.start < q + 1)
  BY <1>1, <1>6
<1>8. Open(t, o, r, q + 1)
  BY <1>3, <1>4, <1>6, <1>7 DEF Open
<1> QED BY <1>2, <1>5, <1>6, <1>8 DEF Scan

\* Between two records.
LEMMA OpenFresh ==
  ASSUME NEW t \in Seq(Byte), NEW o \in Nat, NEW p \in Nat, NEW r \in Scanner,
         o <= p, p <= Len(t), Quoting(t, r, p), ~SplitsCrLf(t, p),
         Found(t, o, r.records), Cardinality(EndsTo(t, o, p)) = Len(r.records),
         NextStart(t, o, r.records) = p,
         r.bomChecked, r.hasRecordStart, ~r.pendingCr, r.start = p, ~r.sawData, ~r.inQuotes,
         r.col = 0, r.fields = <<>>, r.cell = <<>>, r.span = <<>>
  PROVE  Scan(t, o, r, p)
<1>1. Count(t, p, p) = 1 /\ Fields(t, p, p) = <<<<>>>>
  BY FieldsNone
<1>2. Append(<<>>, <<>> \o <<>>) = <<<<>>>>
  OBVIOUS
<1>3. /\ Count(t, r.start, p) = r.col + 1
      /\ r.col < MaxColumns => Append(r.fields, r.cell \o r.span) = Fields(t, r.start, p)
      /\ ~(r.col < MaxColumns) => r.cell = <<>> /\ r.fields = Fields(t, r.start, p)
  BY <1>1, <1>2, MaxColumnsType
<1>4. FieldsSoFar(t, r, p)
  BY <1>3, FieldsSoFarIs
<1>5. EndsTo(t, p, p) = {}
  BY EndsToNone
<1>6. r.sawData = (r.start < p)
  BY ScannerFields
<1>7. Open(t, o, r, p)
  BY <1>4, <1>5, <1>6 DEF Open
<1> QED BY <1>7 DEF Scan

LEMMA QuotingAfterLine ==
  ASSUME NEW t \in Seq(Byte), NEW q \in Nat, NEW r \in Scanner,
         q < Len(t), t[q + 1] = CR \/ t[q + 1] = LF, ~Quoted(t, q + 1),
         ~r.inQuotes, ~r.pendingQuote
  PROVE  Quoting(t, r, q + 1) /\ ~Quoted(t, q + 2)
<1>1. t[q + 1] # Quote /\ q + 1 \in Nat \ {0} /\ (q + 2) - 1 = q + 1 /\ (q + 1) + 1 = q + 2
  BY Distinct
<1>2. ~Quoted(t, q + 2)
  BY <1>1, QuotedNext
<1>3. ~Literal(t, q + 2)
  BY <1>1 DEF Literal
<1>4. r.inQuotes = (Quoted(t, q + 2) \/ r.pendingQuote)
  BY <1>2, ScannerFields
<1> QED BY <1>1, <1>2, <1>3, <1>4 DEF Quoting

LEMMA LineFound ==
  ASSUME NEW t \in Seq(Byte), NEW o \in Nat, NEW q \in Nat, NEW s \in Scanner, NEW rs,
         Scan(t, o, s, q), s.hasRecordStart, q < Len(t), q + 1 \in LineEnds(t),
         rs = Append(s.records, [start |-> s.start, end |-> q, fields |-> Fields(t, s.start, q)])
  PROVE  /\ Found(t, o, rs) /\ NextStart(t, o, rs) = AfterEnd(t, q + 1)
         /\ Cardinality(EndsTo(t, o, q + 1)) = Len(rs)
         /\ rs \in Seq(Record) /\ rs # <<>> /\ rs[Len(rs)].end = q
<1> DEFINE c == [start |-> s.start, end |-> q, fields |-> Fields(t, s.start, q)]
<1>1. /\ o <= q /\ Found(t, o, s.records) /\ Cardinality(EndsTo(t, o, q)) = Len(s.records)
      /\ s.start = NextStart(t, o, s.records) /\ o <= s.start /\ s.start <= q
      /\ EndsTo(t, s.start, q) = {}
  BY DEF Scan, Open
<1>2. s.start \in Nat /\ s.records \in Seq(Record)
  BY ScannerFields
<1>3. Fields(t, s.start, q) \in Seq(Seq(Byte))
  BY <1>1, <1>2, FieldsType
<1>4. c \in Record /\ c.start = s.start /\ c.end = q /\ c.fields = Fields(t, s.start, q)
  BY <1>2, <1>3 DEF Record
<1> HIDE DEF c
<1>5. Cardinality(EndsTo(t, o, q + 1)) = Len(s.records) + 1
  BY <1>1, EndsToNext
<1>6. Found(t, o, Append(s.records, c)) /\ NextStart(t, o, Append(s.records, c)) = AfterEnd(t, q + 1)
  <2>1. /\ c.end + 1 \in LineEnds(t) /\ o <= c.end
        /\ Cardinality(EndsTo(t, o, c.end + 1)) = Len(s.records) + 1
        /\ c.start = NextStart(t, o, s.records) /\ c.start <= c.end
        /\ EndsTo(t, c.start, c.end) = {}
        /\ c.fields = Fields(t, c.start, c.end)
    BY <1>1, <1>4, <1>5
  <2>2. /\ Found(t, o, Append(s.records, c))
        /\ NextStart(t, o, Append(s.records, c)) = AfterEnd(t, c.end + 1)
    BY <1>1, <1>2, <1>4, <2>1, FoundAppend
  <2> QED BY <1>4, <2>2
<1>7. rs = Append(s.records, c)
  BY DEF c
<1>8. rs \in Seq(Record) /\ rs # <<>> /\ Len(rs) = Len(s.records) + 1 /\ rs[Len(rs)] = c
  BY <1>2, <1>4, <1>7, AppendProperties
<1> QED BY <1>4, <1>5, <1>6, <1>7, <1>8

-----------------------------------------------------------------------------
(* What the scanner's helpers change.                                      *)

\* All but the span, the cell and the fields.
Rest(s) == <<s.inQuotes, s.pendingQuote, s.pendingCr, s.bomChecked, s.bomBuffer, s.start,
             s.hasRecordStart, s.sawData, s.col, s.skip, s.records>>

LEMMA SameRest ==
  ASSUME NEW s, NEW r
  PROVE  Rest(r) = Rest(s) <=>
           /\ r.inQuotes = s.inQuotes /\ r.pendingQuote = s.pendingQuote
           /\ r.pendingCr = s.pendingCr /\ r.bomChecked = s.bomChecked
           /\ r.bomBuffer = s.bomBuffer /\ r.start = s.start
           /\ r.hasRecordStart = s.hasRecordStart /\ r.sawData = s.sawData
           /\ r.col = s.col /\ r.skip = s.skip /\ r.records = s.records
BY DEF Rest

LEMMA EmitFragmentDoes ==
  ASSUME NEW s \in Scanner, NEW fragment \in Seq(Byte), NEW isEnd \in BOOLEAN
  PROVE  LET r == EmitFragment(s, fragment, isEnd)
         IN  /\ r \in Scanner /\ Rest(r) = Rest(s) /\ r.span = s.span
             /\ ~(s.col < MaxColumns) => r = s
             /\ s.col < MaxColumns /\ isEnd =>
                  r.fields = Append(s.fields, s.cell \o fragment) /\ r.cell = <<>>
             /\ s.col < MaxColumns /\ ~isEnd => r.fields = s.fields /\ r.cell = s.cell \o fragment
<1> DEFINE c == s.cell \o fragment
           f == Append(s.fields, c)
<1>1. s.col \in Nat /\ s.cell \in Seq(Byte) /\ s.fields \in Seq(Seq(Byte))
  BY ScannerFields
<1>2. c \in Seq(Byte)
  BY <1>1, ConcatProperties
<1>3. f \in Seq(Seq(Byte))
  <2> HIDE DEF c
  <2> QED BY <1>1, <1>2, AppendProperties
<1>4. CASE ~(s.col < MaxColumns)
  <2>1. EmitFragment(s, fragment, isEnd) = s
    BY <1>1, <1>4, MaxColumnsType DEF EmitFragment
  <2> QED BY <1>4, <2>1
<1>5. CASE s.col < MaxColumns /\ isEnd
  <2>1. EmitFragment(s, fragment, isEnd) = [s EXCEPT !.fields = f, !.cell = <<>>]
    BY <1>1, <1>5, MaxColumnsType DEF EmitFragment
  <2> HIDE DEF f
  <2>2. [s EXCEPT !.fields = f, !.cell = <<>>] \in Scanner
    BY <1>3, EmptySeq DEF Scanner
  <2>3. Rest([s EXCEPT !.fields = f, !.cell = <<>>]) = Rest(s)
    BY DEF Rest, Scanner
  <2>4. /\ [s EXCEPT !.fields = f, !.cell = <<>>].span = s.span
        /\ [s EXCEPT !.fields = f, !.cell = <<>>].fields = f
        /\ [s EXCEPT !.fields = f, !.cell = <<>>].cell = <<>>
    BY DEF Scanner
  <2> QED BY <1>5, <2>1, <2>2, <2>3, <2>4 DEF f
<1>6. CASE s.col < MaxColumns /\ ~isEnd
  <2>1. EmitFragment(s, fragment, isEnd) = [s EXCEPT !.cell = c]
    BY <1>1, <1>6, MaxColumnsType DEF EmitFragment
  <2> HIDE DEF c
  <2>2. [s EXCEPT !.cell = c] \in Scanner
    BY <1>2 DEF Scanner
  <2>3. Rest([s EXCEPT !.cell = c]) = Rest(s)
    BY DEF Rest, Scanner
  <2>4. /\ [s EXCEPT !.cell = c].span = s.span
        /\ [s EXCEPT !.cell = c].fields = s.fields
        /\ [s EXCEPT !.cell = c].cell = c
    BY DEF Scanner
  <2> QED BY <1>6, <2>1, <2>2, <2>3, <2>4 DEF c
<1> QED BY <1>4, <1>5, <1>6

LEMMA EmitSpanDoes ==
  ASSUME NEW s \in Scanner, NEW isEnd \in BOOLEAN
  PROVE  LET r == EmitSpan(s, isEnd)
         IN  /\ r \in Scanner /\ Rest(r) = Rest(s) /\ r.span = <<>>
             /\ ~(s.col < MaxColumns) => r.fields = s.fields /\ r.cell = s.cell
             /\ s.col < MaxColumns /\ isEnd =>
                  r.fields = Append(s.fields, s.cell \o s.span) /\ r.cell = <<>>
             /\ s.col < MaxColumns /\ ~isEnd => r.fields = s.fields /\ r.cell = s.cell \o s.span
<1> DEFINE e == EmitFragment(s, s.span, isEnd)
<1>1. /\ e \in Scanner /\ Rest(e) = Rest(s)
      /\ ~(s.col < MaxColumns) => e = s
      /\ s.col < MaxColumns /\ isEnd =>
           e.fields = Append(s.fields, s.cell \o s.span) /\ e.cell = <<>>
      /\ s.col < MaxColumns /\ ~isEnd => e.fields = s.fields /\ e.cell = s.cell \o s.span
  BY EmitFragmentDoes, ScannerFields
<1>2. EmitSpan(s, isEnd) = [e EXCEPT !.span = <<>>]
  BY DEF EmitSpan
<1> HIDE DEF e
<1>3. [e EXCEPT !.span = <<>>] \in Scanner
  BY <1>1, EmptySeq DEF Scanner
<1>4. Rest([e EXCEPT !.span = <<>>]) = Rest(e)
  BY <1>1 DEF Rest, Scanner
<1>5. /\ [e EXCEPT !.span = <<>>].span = <<>>
      /\ [e EXCEPT !.span = <<>>].fields = e.fields
      /\ [e EXCEPT !.span = <<>>].cell = e.cell
  BY <1>1 DEF Scanner
<1> QED BY <1>1, <1>2, <1>3, <1>4, <1>5

-----------------------------------------------------------------------------
(* Bytes within quotes.                                                    *)

\* The same part of the same record, whatever was added to its last field.
SameRecord(s, r) ==
    /\ r.records = s.records /\ r.start = s.start /\ r.hasRecordStart = s.hasRecordStart
    /\ r.pendingCr = s.pendingCr /\ r.bomChecked = s.bomChecked
    /\ r.col = s.col /\ r.fields = s.fields

LEMMA ScanOpen ==
  ASSUME NEW t \in Seq(Byte), NEW o \in Nat, NEW q \in Nat, NEW s \in Scanner,
         Scan(t, o, s, q), s.hasRecordStart
  PROVE  /\ s.bomChecked /\ ~s.pendingCr /\ FieldsSoFar(t, s, q) /\ s.start <= q
         /\ o <= q /\ q <= Len(t)
         /\ Quoting(t, s, q) /\ (s.inQuotes => s.sawData) /\ ~SplitsCrLf(t, q)
BY DEF Scan, Open

\* Past the limit of columns nothing is collected.
LEMMA CellWhenFull ==
  ASSUME NEW t, NEW q \in Nat, NEW s \in Scanner, FieldsSoFar(t, s, q), ~(s.col < MaxColumns)
  PROVE  s.cell = <<>>
BY FieldsSoFarIs

LEMMA ByteKept ==
  ASSUME NEW t \in Seq(Byte), NEW o \in Nat, NEW q \in Nat, NEW s \in Scanner, NEW r \in Scanner,
         Scan(t, o, s, q), s.hasRecordStart, q < Len(t),
         SameRecord(s, r), r.sawData, q + 1 \notin LineEnds(t), ~IsDelim(t, q + 1),
         t[q + 1] # Quote \/ Literal(t, q + 1), ~SplitsCrLf(t, q + 1), Quoting(t, r, q + 1),
         s.col < MaxColumns => r.cell \o r.span = Append(s.cell \o s.span, t[q + 1]),
         ~(s.col < MaxColumns) => r.cell = s.cell
  PROVE  Scan(t, o, r, q + 1)
<1>1. /\ s.bomChecked /\ ~s.pendingCr /\ FieldsSoFar(t, s, q) /\ s.start <= q
  BY ScanOpen
<1>2. r.start = s.start /\ r.col = s.col /\ r.fields = s.fields
  BY DEF SameRecord
<1>3. ~(s.col < MaxColumns) => r.cell = <<>>
  BY <1>1, CellWhenFull
<1>4. FieldsSoFar(t, r, q + 1)
  BY <1>1, <1>2, <1>3, KeepFields
<1>5. r.bomChecked /\ r.hasRecordStart /\ ~r.pendingCr /\ r.records = s.records
  BY <1>1 DEF SameRecord
<1> QED BY <1>2, <1>4, <1>5, OpenNext

LEMMA QuoteSkipped ==
  ASSUME NEW t \in Seq(Byte), NEW o \in Nat, NEW q \in Nat, NEW s \in Scanner, NEW r \in Scanner,
         Scan(t, o, s, q), s.hasRecordStart, q < Len(t),
         SameRecord(s, r), r.sawData, t[q + 1] = Quote, ~Literal(t, q + 1), Quoting(t, r, q + 1),
         s.col < MaxColumns => r.cell \o r.span = s.cell \o s.span,
         ~(s.col < MaxColumns) => r.cell = s.cell
  PROVE  Scan(t, o, r, q + 1)
<1>1. /\ s.bomChecked /\ ~s.pendingCr /\ FieldsSoFar(t, s, q) /\ s.start <= q
  BY ScanOpen
<1>2. r.start = s.start /\ r.col = s.col /\ r.fields = s.fields
  BY DEF SameRecord
<1>3. ~(s.col < MaxColumns) => r.cell = <<>>
  BY <1>1, CellWhenFull
<1>4. FieldsSoFar(t, r, q + 1)
  BY <1>1, <1>2, <1>3, SkipFields
<1>5. r.bomChecked /\ r.hasRecordStart /\ ~r.pendingCr /\ r.records = s.records
  BY <1>1 DEF SameRecord
<1>6. q + 1 \notin LineEnds(t) /\ ~SplitsCrLf(t, q + 1)
  BY Distinct, LineEndIs DEF SplitsCrLf
<1> QED BY <1>2, <1>4, <1>5, <1>6, OpenNext

\* A quote within quotes: it is not known yet what it means.
LEMMA QuoteWaits ==
  ASSUME NEW t \in Seq(Byte), NEW o \in Nat, NEW q \in Nat, NEW s \in Scanner, NEW r \in Scanner,
         Scan(t, o, s, q), s.hasRecordStart, ~s.pendingQuote, s.inQuotes,
         q < Len(t), t[q + 1] = Quote,
         SameRecord(s, r), r.sawData = s.sawData, r.inQuotes, r.pendingQuote,
         s.col < MaxColumns => r.cell \o r.span = s.cell \o s.span,
         ~(s.col < MaxColumns) => r.cell = s.cell
  PROVE  Scan(t, o, r, q + 1)
<1>1. Quoting(t, s, q) /\ s.sawData
  BY ScanOpen
<1>2. Quoted(t, q + 1) /\ ~Literal(t, q + 1)
  BY <1>1 DEF Quoting
<1>3. q + 1 \in Nat \ {0} /\ (q + 2) - 1 = q + 1 /\ q + 2 > 1 /\ (q + 1) + 1 = q + 2
  OBVIOUS
<1>4. ~Quoted(t, q + 2) /\ Literal(t, q + 2)
  BY <1>2, <1>3, QuotedNext DEF Literal
<1>5. Quoting(t, r, q + 1)
  BY <1>3, <1>4, ScannerFields DEF Quoting
<1> QED BY <1>1, <1>2, <1>5, QuoteSkipped

\* It was the first of two.
LEMMA QuoteDoubled ==
  ASSUME NEW t \in Seq(Byte), NEW o \in Nat, NEW q \in Nat, NEW s \in Scanner, NEW r \in Scanner,
         Scan(t, o, s, q), s.hasRecordStart, s.pendingQuote, q < Len(t), t[q + 1] = Quote,
         SameRecord(s, r), r.sawData = s.sawData, r.inQuotes, ~r.pendingQuote,
         s.col < MaxColumns => r.cell \o r.span = Append(s.cell \o s.span, Quote),
         ~(s.col < MaxColumns) => r.cell = s.cell
  PROVE  Scan(t, o, r, q + 1)
<1>1. Quoting(t, s, q) /\ (s.inQuotes => s.sawData)
  BY ScanOpen
<1>2. Literal(t, q + 1) /\ s.inQuotes /\ s.sawData
  BY <1>1, ScannerFields DEF Quoting
<1>3. q + 1 \in Nat \ {0} /\ (q + 1) - 1 = q /\ (q + 1) + 1 = q + 2 /\ (q + 2) - 1 = q + 1
  OBVIOUS
<1>4. q \in Nat \ {0} /\ t[q] = Quote /\ Quoted(t, q)
  BY <1>2, <1>3 DEF Literal
<1>5. ~Quoted(t, q + 1)
  BY <1>4, QuotedNext
<1>6. Quoted(t, q + 2)
  BY <1>3, <1>5, QuotedNext
<1>7. ~Literal(t, q + 2)
  BY <1>3, <1>5 DEF Literal
<1>8. Quoting(t, r, q + 1)
  BY <1>3, <1>6, <1>7, ScannerFields DEF Quoting
<1>9. q + 1 \notin LineEnds(t) /\ ~SplitsCrLf(t, q + 1) /\ ~IsDelim(t, q + 1)
  BY Distinct, LineEndIs DEF SplitsCrLf, IsDelim
<1> QED BY <1>2, <1>8, <1>9, ByteKept

\* It ended the quotes.
LEMMA QuoteCloses ==
  ASSUME NEW t \in Seq(Byte), NEW o \in Nat, NEW q \in Nat, NEW s \in Scanner, NEW r \in Scanner,
         Scan(t, o, s, q), s.hasRecordStart, s.pendingQuote, q = Len(t) \/ t[q + 1] # Quote,
         SameRecord(s, r), r.sawData = s.sawData, ~r.inQuotes, ~r.pendingQuote,
         r.cell = s.cell, r.span = s.span
  PROVE  Scan(t, o, r, q)
<1>1. Quoting(t, s, q) /\ Open(t, o, s, q) /\ q <= Len(t)
  BY DEF Scan
<1>2. Literal(t, q + 1)
  BY <1>1 DEF Quoting
<1>3. (q + 1) - 1 = q /\ (q + 1 > 1 <=> q > 0)
  OBVIOUS
<1>4. q \in Nat \ {0} /\ t[q] = Quote /\ Quoted(t, q)
  BY <1>2, <1>3 DEF Literal
<1>5. ~Quoted(t, q + 1)
  BY <1>4, QuotedNext
<1>6. Quoting(t, r, q)
  BY <1>5, ScannerFields DEF Quoting
<1>7. FieldsSoFar(t, r, q)
  BY <1>1 DEF Open, FieldsSoFar, SameRecord
<1>8. Open(t, o, r, q)
  BY <1>1, <1>7 DEF Open, SameRecord
<1> QED BY <1>6, <1>8 DEF Scan, SameRecord

-----------------------------------------------------------------------------
(* One round of the loop.                                                  *)

\* bytes is the part of t behind base, and the last one if isEof.
IsSlice(t, base, bytes, isEof) ==
    /\ bytes \in Seq(Byte)
    /\ base + Len(bytes) <= Len(t)
    /\ \A i \in 1..Len(bytes) : bytes[i] = t[base + i]
    /\ isEof => base + Len(bytes) = Len(t)

LEMMA SliceNext ==
  ASSUME NEW t \in Seq(Byte), NEW base \in Nat, NEW bytes, NEW isEof \in BOOLEAN,
         IsSlice(t, base, bytes, isEof), NEW i \in 1..Len(bytes)
  PROVE  /\ bytes[i] = t[base + i] /\ base + i \in Nat \ {0} /\ base + i <= Len(t)
         /\ \A c : Follows(bytes, i, c) => base + i < Len(t) /\ t[base + i + 1] = c /\ i < Len(bytes)
         /\ \A c : ~Follows(bytes, i, c) /\ ~CutAfter(bytes, i, isEof)
                     => base + i = Len(t) \/ t[base + i + 1] # c
         /\ CutAfter(bytes, i, isEof) => i = Len(bytes) /\ ~isEof
<1>1. Len(bytes) \in Nat /\ Len(t) \in Nat /\ base + Len(bytes) <= Len(t)
  BY DEF IsSlice
<1>2. bytes[i] = t[base + i] /\ base + i \in Nat \ {0} /\ base + i <= Len(t)
  BY <1>1 DEF IsSlice
<1>3. i < Len(bytes) => base + i < Len(t) /\ bytes[i + 1] = t[base + i + 1]
  <2>1. SUFFICES ASSUME i < Len(bytes) PROVE base + i < Len(t) /\ bytes[i + 1] = t[base + i + 1]
    OBVIOUS
  <2>2. i + 1 \in 1..Len(bytes) /\ base + (i + 1) = base + i + 1
    BY <1>1, <2>1
  <2>3. bytes[i + 1] = t[base + (i + 1)]
    BY <2>2 DEF IsSlice
  <2> QED BY <1>1, <2>1, <2>2, <2>3
<1>4. ~(i < Len(bytes)) => i = Len(bytes)
  BY <1>1
<1>5. i = Len(bytes) /\ isEof => base + i = Len(t)
  BY DEF IsSlice
<1>6. CutAfter(bytes, i, isEof) <=> i = Len(bytes) /\ ~isEof
  BY DEF CutAfter
<1>7. \A c : Follows(bytes, i, c) <=> i < Len(bytes) /\ bytes[i + 1] = c
  BY DEF Follows
<1> QED BY <1>2, <1>3, <1>4, <1>5, <1>6, <1>7

\* What a byte within a slice is read from and to.
Ready(t, o, s, q) ==
    /\ Scan(t, o, s, q)
    /\ s.hasRecordStart /\ ~s.pendingQuote /\ ~s.skip

\* Where the scanner is when i bytes of a slice have been looked at: a byte that
\* was read together with the one before is still to be looked at.
LoopAt(t, o, s, base, bytes, i, isEof) ==
    /\ Scan(t, o, s, IF s.skip THEN base + i + 1 ELSE base + i)
    /\ s.skip => i < Len(bytes)
    /\ s.pendingCr \/ s.pendingQuote \/ ~s.hasRecordStart => i = Len(bytes)
    /\ isEof => ~s.pendingCr /\ ~s.pendingQuote

\* A result that needs no more care.
LEMMA LoopPlain ==
  ASSUME NEW t, NEW o, NEW r \in Scanner, NEW base \in Nat, NEW bytes, NEW i \in Nat, NEW isEof,
         Scan(t, o, r, base + i), ~r.skip, ~r.pendingCr, ~r.pendingQuote, r.hasRecordStart
  PROVE  LoopAt(t, o, r, base, bytes, i, isEof)
BY DEF LoopAt

LEMMA SpanGrows ==
  ASSUME NEW c \in Seq(Byte), NEW p \in Seq(Byte), NEW b \in Byte
  PROVE  c \o Append(p, b) = Append(c \o p, b) /\ Append(p, b) \in Seq(Byte)
<1>1. Append(p, b) = p \o <<b>> /\ Append(p, b) \in Seq(Byte)
  BY AppendIsConcat, AppendProperties
<1>2. c \o p \in Seq(Byte) /\ <<b>> \in Seq(Byte)
  BY ConcatProperties
<1>3. Append(c \o p, b) = (c \o p) \o <<b>>
  BY <1>2, AppendIsConcat
<1>4. (c \o p) \o <<b>> = c \o (p \o <<b>>)
  BY <1>2, ConcatAssociative
<1> QED BY <1>1, <1>3, <1>4

LEMMA InsideOther ==
  ASSUME NEW t \in Seq(Byte), NEW o \in Nat, NEW q \in Nat, NEW s \in Scanner, NEW r,
         Ready(t, o, s, q), s.inQuotes, q < Len(t), t[q + 1] # Quote,
         r = [s EXCEPT !.span = Append(s.span, t[q + 1])]
  PROVE  r \in Scanner /\ Scan(t, o, r, q + 1) /\ Rest(r) = Rest(s)
<1>1. t[q + 1] \in Byte /\ s.span \in Seq(Byte) /\ s.cell \in Seq(Byte)
  BY ScannerFields
<1>2. /\ Append(s.span, t[q + 1]) \in Seq(Byte)
      /\ s.cell \o Append(s.span, t[q + 1]) = Append(s.cell \o s.span, t[q + 1])
  BY <1>1, SpanGrows
<1> DEFINE p == Append(s.span, t[q + 1])
<1>3. p \in Seq(Byte) /\ s.cell \o p = Append(s.cell \o s.span, t[q + 1]) /\ r = [s EXCEPT !.span = p]
  BY <1>2
<1> HIDE DEF p
<1>4. /\ r \in Scanner /\ Rest(r) = Rest(s)
      /\ r.cell = s.cell /\ r.fields = s.fields /\ r.span = p
  BY <1>3 DEF Scanner, Rest
<1>5. SameRecord(s, r) /\ r.sawData = s.sawData /\ r.inQuotes = s.inQuotes /\ r.pendingQuote = s.pendingQuote
  BY <1>4, SameRest DEF SameRecord
<1>6. Scan(t, o, s, q) /\ s.hasRecordStart /\ ~s.pendingQuote
  BY DEF Ready
<1>7. Quoting(t, s, q) /\ s.sawData
  BY <1>6, ScanOpen
<1>8. Quoted(t, q + 1)
  BY <1>6, <1>7 DEF Quoting
<1>9. q + 1 \in Nat \ {0} /\ (q + 1) + 1 = q + 2 /\ (q + 2) - 1 = q + 1
  OBVIOUS
<1>10. Quoted(t, q + 2) /\ ~Literal(t, q + 2)
  BY <1>8, <1>9, QuotedNext DEF Literal
<1>11. Quoting(t, r, q + 1)
  BY <1>5, <1>6, <1>9, <1>10, ScannerFields DEF Quoting
<1>12. q + 1 \notin LineEnds(t) /\ ~SplitsCrLf(t, q + 1) /\ ~IsDelim(t, q + 1)
  BY <1>8, <1>9, <1>10, LineEndIs DEF SplitsCrLf, IsDelim
<1>13. r.cell \o r.span = Append(s.cell \o s.span, t[q + 1])
  BY <1>3, <1>4
<1> QED BY <1>4, <1>5, <1>6, <1>7, <1>11, <1>12, <1>13, ByteKept

LEMMA EmptyEnd ==
  ASSUME NEW c \in Seq(Byte), NEW b \in Byte
  PROVE  c \o <<>> = c /\ (c \o <<b>>) \o <<>> = Append(c \o <<>>, b) /\ <<b>> \in Seq(Byte)
<1>1. Append(c, b) = c \o <<b>> /\ Append(c, b) \in Seq(Byte)
  BY AppendIsConcat, AppendProperties
<1>2. c \o <<>> = c /\ (c \o <<b>>) \o <<>> = c \o <<b>>
  BY <1>1, ConcatEmptySeq
<1> QED BY <1>1, <1>2

LEMMA SpanEmitted ==
  ASSUME NEW s \in Scanner, NEW e, e = EmitSpan(s, FALSE)
  PROVE  /\ e \in Scanner /\ Rest(e) = Rest(s) /\ e.span = <<>> /\ e.fields = s.fields
         /\ s.col < MaxColumns => e.cell = s.cell \o s.span /\ e.cell \o e.span = s.cell \o s.span
         /\ ~(s.col < MaxColumns) => e.cell = s.cell
<1>1. /\ e \in Scanner /\ Rest(e) = Rest(s) /\ e.span = <<>> /\ e.fields = s.fields
      /\ s.col < MaxColumns => e.cell = s.cell \o s.span
      /\ ~(s.col < MaxColumns) => e.cell = s.cell
  BY EmitSpanDoes
<1>2. e.cell \in Seq(Byte)
  BY <1>1, ScannerFields
<1>3. e.cell \o e.span = e.cell
  BY <1>1, <1>2, ConcatEmptySeq
<1> QED BY <1>1, <1>3

LEMMA RestSame ==
  ASSUME NEW s, NEW e, Rest(e) = Rest(s)
  PROVE  /\ e.fields = s.fields => SameRecord(s, e)
         /\ e.sawData = s.sawData /\ e.inQuotes = s.inQuotes
         /\ e.pendingQuote = s.pendingQuote /\ e.skip = s.skip
BY SameRest DEF SameRecord

LEMMA SameRecordTrans ==
  ASSUME NEW s, NEW e, NEW w, SameRecord(s, e), SameRecord(e, w)
  PROVE  SameRecord(s, w)
BY DEF SameRecord

LEMMA SameRecordSym ==
  ASSUME NEW s, NEW e, SameRecord(s, e)
  PROVE  SameRecord(e, s)
BY DEF SameRecord

\* A quote that may be doubled.
Waits(s) == [EmitSpan(s, FALSE) EXCEPT !.pendingQuote = TRUE]

WaitsAt(t, o, e, w, q) ==
    /\ w \in Scanner /\ Scan(t, o, w, q)
    /\ w.inQuotes /\ w.pendingQuote /\ w.hasRecordStart /\ ~w.pendingCr /\ ~w.skip
    /\ SameRecord(e, w) /\ e.sawData = w.sawData
    /\ e.span = <<>> /\ w.span = <<>> /\ w.cell = e.cell

LEMMA InsideQuote ==
  ASSUME NEW t \in Seq(Byte), NEW o \in Nat, NEW q \in Nat, NEW s \in Scanner,
         Ready(t, o, s, q), s.inQuotes, q < Len(t), t[q + 1] = Quote
  PROVE  /\ EmitSpan(s, FALSE) \in Scanner /\ Rest(EmitSpan(s, FALSE)) = Rest(s)
         /\ WaitsAt(t, o, EmitSpan(s, FALSE), Waits(s), q + 1)
<1> DEFINE e == EmitSpan(s, FALSE)
           w == Waits(s)
<1>0. e = EmitSpan(s, FALSE) /\ w = [e EXCEPT !.pendingQuote = TRUE]
  BY DEF Waits
<1> HIDE DEF e, w
<1>1. /\ e \in Scanner /\ Rest(e) = Rest(s) /\ e.span = <<>> /\ e.fields = s.fields
      /\ s.col < MaxColumns => e.cell = s.cell \o s.span /\ e.cell \o e.span = s.cell \o s.span
      /\ ~(s.col < MaxColumns) => e.cell = s.cell
  BY <1>0, SpanEmitted
<1>2. /\ w \in Scanner /\ w.pendingQuote /\ w.inQuotes = e.inQuotes /\ w.sawData = e.sawData
      /\ w.skip = e.skip /\ w.span = e.span /\ w.cell = e.cell
      /\ SameRecord(e, w)
  BY <1>0, <1>1 DEF Scanner, SameRecord
<1>3. SameRecord(s, w) /\ w.sawData = s.sawData /\ w.inQuotes = s.inQuotes /\ w.skip = s.skip
  <2>1. /\ SameRecord(s, e) /\ e.sawData = s.sawData /\ e.inQuotes = s.inQuotes /\ e.skip = s.skip
    BY <1>1, RestSame
  <2>2. SameRecord(s, w)
    BY <1>2, <2>1, SameRecordTrans
  <2>3. w.sawData = s.sawData
    BY <1>2, <2>1
  <2>4. w.inQuotes = s.inQuotes
    BY <1>2, <2>1
  <2>5. w.skip = s.skip
    BY <1>2, <2>1
  <2> QED BY <2>2, <2>3, <2>4, <2>5
<1>4. Scan(t, o, s, q) /\ s.hasRecordStart /\ ~s.pendingQuote /\ ~s.skip
  BY DEF Ready
<1>5. ~s.pendingCr
  BY <1>4, ScanOpen
<1>6. Scan(t, o, w, q + 1)
  BY <1>1, <1>2, <1>3, <1>4, QuoteWaits
<1> QED BY <1>1, <1>2, <1>3, <1>4, <1>5, <1>6 DEF SameRecord, e, w, WaitsAt

LEMMA QuoteAdded ==
  ASSUME NEW e \in Scanner, NEW w \in Scanner, NEW r \in Scanner, NEW f,
         f = EmitFragment(e, <<Quote>>, FALSE), w.cell = e.cell, w.span = <<>>, e.span = <<>>, w.col = e.col,
         r.cell = f.cell, r.span = f.span
  PROVE  /\ w.col < MaxColumns => r.cell \o r.span = Append(w.cell \o w.span, Quote)
         /\ ~(w.col < MaxColumns) => r.cell = w.cell
<1>1. Quote \in Byte /\ <<Quote>> \in Seq(Byte)
  BY Distinct
<1>2. e.cell \in Seq(Byte)
  BY ScannerFields
<1>3. /\ f.span = <<>>
      /\ ~(e.col < MaxColumns) => f = e
      /\ e.col < MaxColumns => f.cell = e.cell \o <<Quote>>
  BY <1>1, EmitFragmentDoes
<1>4. (e.cell \o <<Quote>>) \o <<>> = Append(e.cell \o <<>>, Quote)
  BY <1>1, <1>2, EmptyEnd
<1> QED BY <1>3, <1>4

LEMMA InsideDoes ==
  ASSUME NEW t \in Seq(Byte), NEW o \in Nat, NEW q \in Nat, NEW s \in Scanner,
         NEW base \in Nat, NEW bytes, NEW isEof \in BOOLEAN, NEW i \in 1..Len(bytes),
         IsSlice(t, base, bytes, isEof), base + i = q + 1,
         Ready(t, o, s, q), s.inQuotes
  PROVE  /\ InsideQuotes(s, bytes, i, isEof) \in Scanner
         /\ LoopAt(t, o, InsideQuotes(s, bytes, i, isEof), base, bytes, i, isEof)
<1>1. /\ bytes[i] = t[q + 1] /\ q + 1 <= Len(t) /\ i \in Nat /\ q < Len(t)
      /\ base + i + 1 = q + 2 /\ (q + 1) + 1 = q + 2
  BY SliceNext
<1>2. Scan(t, o, s, q) /\ s.hasRecordStart /\ ~s.pendingQuote /\ ~s.skip /\ ~s.pendingCr
  BY ScanOpen DEF Ready
<1>3. CASE bytes[i] # Quote
  <2> DEFINE r == [s EXCEPT !.span = Append(s.span, t[q + 1])]
  <2>1. InsideQuotes(s, bytes, i, isEof) = r
    BY <1>1, <1>3 DEF InsideQuotes, Scanner
  <2>2. r \in Scanner /\ Scan(t, o, r, q + 1) /\ Rest(r) = Rest(s)
    <3>1. r = [s EXCEPT !.span = Append(s.span, t[q + 1])] /\ q < Len(t) /\ t[q + 1] # Quote
      BY <1>1, <1>3
    <3> HIDE DEF r
    <3> QED BY <3>1, InsideOther
  <2> HIDE DEF r
  <2>3. ~r.skip /\ ~r.pendingCr /\ ~r.pendingQuote /\ r.hasRecordStart
    BY <1>2, <2>2, SameRest
  <2> QED BY <1>1, <2>1, <2>2, <2>3, LoopPlain
<1>4. CASE bytes[i] = Quote
  <2> DEFINE e == EmitSpan(s, FALSE)
             w == Waits(s)
  <2>1. /\ e \in Scanner /\ w \in Scanner /\ Rest(e) = Rest(s)
        /\ Scan(t, o, w, q + 1)
        /\ w.inQuotes /\ w.pendingQuote /\ w.hasRecordStart /\ ~w.pendingCr /\ ~w.skip
        /\ SameRecord(e, w) /\ e.sawData = w.sawData
        /\ e.span = <<>> /\ w.span = <<>> /\ w.cell = e.cell
    <3>1. q < Len(t) /\ t[q + 1] = Quote
      BY <1>1, <1>4
    <3>2. /\ EmitSpan(s, FALSE) \in Scanner /\ Rest(EmitSpan(s, FALSE)) = Rest(s)
          /\ WaitsAt(t, o, EmitSpan(s, FALSE), Waits(s), q + 1)
      BY <3>1, InsideQuote
    <3> QED BY <3>2 DEF WaitsAt
  <2>2. CASE Follows(bytes, i, Quote)
    <3> DEFINE f == EmitFragment(e, <<Quote>>, FALSE)
               r == [f EXCEPT !.skip = TRUE]
    <3>1. InsideQuotes(s, bytes, i, isEof) = r
      BY <1>4, <2>2 DEF InsideQuotes
    <3> HIDE DEF e, w
    <3>2. f \in Scanner /\ Rest(f) = Rest(e) /\ f.fields = e.fields
      <4>1. <<Quote>> \in Seq(Byte)
        BY Distinct
      <4> QED BY <2>1, <4>1, EmitFragmentDoes
    <3> HIDE DEF f
    <3>3. /\ r \in Scanner /\ r.skip /\ r.cell = f.cell /\ r.span = f.span
          /\ SameRecord(f, r) /\ r.sawData = f.sawData
          /\ r.inQuotes = f.inQuotes /\ r.pendingQuote = f.pendingQuote
      BY <3>2 DEF Scanner, SameRecord
    <3> HIDE DEF r
    <3>4. SameRecord(w, r) /\ r.sawData = w.sawData /\ r.inQuotes /\ ~r.pendingQuote
      <4>1. /\ SameRecord(e, f) /\ f.sawData = e.sawData /\ f.inQuotes = e.inQuotes
            /\ f.pendingQuote = e.pendingQuote
        BY <3>2, RestSame
      <4>2. e.inQuotes = s.inQuotes /\ e.pendingQuote = s.pendingQuote
        BY <2>1, RestSame
      <4>3. SameRecord(w, r)
        BY <2>1, <3>3, <4>1, SameRecordTrans, SameRecordSym
      <4>4. r.sawData = w.sawData
        BY <2>1, <3>3, <4>1
      <4>5. r.inQuotes
        BY <3>3, <4>1, <4>2
      <4>6. ~r.pendingQuote
        BY <1>2, <3>3, <4>1, <4>2
      <4> QED BY <4>3, <4>4, <4>5, <4>6
    <3>5. /\ w.col < MaxColumns => r.cell \o r.span = Append(w.cell \o w.span, Quote)
          /\ ~(w.col < MaxColumns) => r.cell = w.cell
      BY <2>1, <3>3, QuoteAdded DEF SameRecord, f
    <3>6. q + 1 < Len(t) /\ t[q + 2] = Quote /\ i < Len(bytes)
      BY <1>1, <2>2, SliceNext
    <3>7. q + 1 \in Nat /\ t[(q + 1) + 1] = Quote
      BY <1>1, <3>6
    <3>8. Scan(t, o, r, (q + 1) + 1)
      BY <2>1, <3>3, <3>4, <3>5, <3>6, <3>7, QuoteDoubled
    <3>9. ~r.pendingCr /\ r.hasRecordStart
      BY <2>1, <3>4 DEF SameRecord
    <3>10. LoopAt(t, o, r, base, bytes, i, isEof)
      BY <1>1, <3>3, <3>4, <3>6, <3>8, <3>9 DEF LoopAt
    <3> QED BY <3>1, <3>3, <3>10
  <2>3. CASE ~Follows(bytes, i, Quote) /\ CutAfter(bytes, i, isEof)
    <3>1. InsideQuotes(s, bytes, i, isEof) = w
      BY <1>4, <2>3 DEF InsideQuotes, Waits
    <3> HIDE DEF e, w
    <3>2. i = Len(bytes) /\ ~isEof
      BY <2>3, SliceNext
    <3>3. LoopAt(t, o, w, base, bytes, i, isEof)
      BY <1>1, <2>1, <3>2 DEF LoopAt
    <3> QED BY <2>1, <3>1, <3>3
  <2>4. CASE ~Follows(bytes, i, Quote) /\ ~CutAfter(bytes, i, isEof)
    <3> DEFINE r == [e EXCEPT !.inQuotes = FALSE]
    <3>1. InsideQuotes(s, bytes, i, isEof) = r
      BY <1>4, <2>4 DEF InsideQuotes
    <3> HIDE DEF e, w
    <3>2. /\ r \in Scanner /\ r.cell = e.cell /\ r.span = e.span
          /\ SameRecord(e, r) /\ r.sawData = e.sawData /\ r.skip = e.skip
          /\ ~r.inQuotes /\ r.pendingQuote = e.pendingQuote
      BY <2>1 DEF Scanner, SameRecord
    <3> HIDE DEF r
    <3>3. SameRecord(w, r) /\ r.sawData = w.sawData /\ ~r.pendingQuote /\ ~r.skip
      BY <1>2, <2>1, <3>2, SameRest DEF SameRecord
    <3>4. q + 1 = Len(t) \/ t[(q + 1) + 1] # Quote
      BY <1>1, <2>4, SliceNext
    <3>5. q + 1 \in Nat
      OBVIOUS
    <3>6. Scan(t, o, r, q + 1)
      BY <2>1, <3>2, <3>3, <3>4, <3>5, QuoteCloses
    <3>7. ~r.pendingCr /\ r.hasRecordStart
      BY <2>1, <3>3 DEF SameRecord
    <3> QED BY <1>1, <3>1, <3>2, <3>3, <3>6, <3>7, LoopPlain
  <2> QED BY <2>2, <2>3, <2>4
<1> QED BY <1>3, <1>4

-----------------------------------------------------------------------------
(* Bytes outside quotes.                                                   *)

LEMMA OutsideQuoting ==
  ASSUME NEW t \in Seq(Byte), NEW q \in Nat, NEW s \in Scanner,
         Quoting(t, s, q), ~s.inQuotes
  PROVE  ~Quoted(t, q + 1) /\ ~s.pendingQuote
BY ScannerFields DEF Quoting

LEMMA OutsideOther ==
  ASSUME NEW t \in Seq(Byte), NEW o \in Nat, NEW q \in Nat, NEW s \in Scanner, NEW r,
         Ready(t, o, s, q), ~s.inQuotes, q < Len(t), t[q + 1] \notin {Quote, Delimiter, CR, LF},
         r = [s EXCEPT !.sawData = TRUE, !.span = Append(s.span, t[q + 1])]
  PROVE  /\ r \in Scanner /\ Scan(t, o, r, q + 1)
         /\ ~r.skip /\ ~r.pendingCr /\ ~r.pendingQuote /\ r.hasRecordStart
<1>1. t[q + 1] \in Byte /\ s.span \in Seq(Byte) /\ s.cell \in Seq(Byte)
  BY ScannerFields
<1>2. /\ Append(s.span, t[q + 1]) \in Seq(Byte)
      /\ s.cell \o Append(s.span, t[q + 1]) = Append(s.cell \o s.span, t[q + 1])
  BY <1>1, SpanGrows
<1> DEFINE p == Append(s.span, t[q + 1])
<1>3. /\ p \in Seq(Byte) /\ s.cell \o p = Append(s.cell \o s.span, t[q + 1])
      /\ r = [s EXCEPT !.sawData = TRUE, !.span = p]
  BY <1>2
<1> HIDE DEF p
<1>4. /\ r \in Scanner /\ SameRecord(s, r)
      /\ r.cell = s.cell /\ r.span = p /\ r.sawData
      /\ r.inQuotes = s.inQuotes /\ r.pendingQuote = s.pendingQuote /\ r.skip = s.skip
  BY <1>3 DEF Scanner, SameRecord
<1>5. Scan(t, o, s, q) /\ s.hasRecordStart /\ ~s.pendingQuote /\ ~s.skip
  BY DEF Ready
<1>6. Quoting(t, s, q) /\ ~s.pendingCr
  BY <1>5, ScanOpen
<1>7. ~Quoted(t, q + 1)
  BY <1>6, OutsideQuoting
<1>8. q + 1 \in Nat \ {0} /\ (q + 1) + 1 = q + 2 /\ (q + 2) - 1 = q + 1
  OBVIOUS
<1>9. ~Quoted(t, q + 2) /\ ~Literal(t, q + 2)
  BY <1>7, <1>8, QuotedNext DEF Literal
<1>10. Quoting(t, r, q + 1)
  BY <1>4, <1>5, <1>8, <1>9, ScannerFields DEF Quoting
<1>11. q + 1 \notin LineEnds(t) /\ ~SplitsCrLf(t, q + 1) /\ ~IsDelim(t, q + 1)
  BY <1>8, LineEndIs DEF SplitsCrLf, IsDelim
<1>12. r.cell \o r.span = Append(s.cell \o s.span, t[q + 1])
  BY <1>3, <1>4
<1>13. Scan(t, o, r, q + 1)
  BY <1>4, <1>5, <1>10, <1>11, <1>12, ByteKept
<1> QED BY <1>4, <1>5, <1>6, <1>13 DEF SameRecord

LEMMA OutsideQuote ==
  ASSUME NEW t \in Seq(Byte), NEW o \in Nat, NEW q \in Nat, NEW s \in Scanner, NEW r,
         Ready(t, o, s, q), ~s.inQuotes, q < Len(t), t[q + 1] = Quote,
         r = [EmitSpan(s, FALSE) EXCEPT !.sawData = TRUE, !.inQuotes = TRUE]
  PROVE  /\ r \in Scanner /\ Scan(t, o, r, q + 1)
         /\ ~r.skip /\ ~r.pendingCr /\ ~r.pendingQuote /\ r.hasRecordStart
<1> DEFINE e == EmitSpan(s, FALSE)
<1>1. /\ e \in Scanner /\ Rest(e) = Rest(s) /\ e.span = <<>> /\ e.fields = s.fields
      /\ s.col < MaxColumns => e.cell = s.cell \o s.span /\ e.cell \o e.span = s.cell \o s.span
      /\ ~(s.col < MaxColumns) => e.cell = s.cell
  BY SpanEmitted
<1>2. r = [e EXCEPT !.sawData = TRUE, !.inQuotes = TRUE]
  OBVIOUS
<1> HIDE DEF e
<1>3. /\ r \in Scanner /\ SameRecord(e, r)
      /\ r.cell = e.cell /\ r.span = e.span /\ r.sawData
      /\ r.inQuotes /\ r.pendingQuote = e.pendingQuote /\ r.skip = e.skip
  BY <1>1, <1>2 DEF Scanner, SameRecord
<1>4. Scan(t, o, s, q) /\ s.hasRecordStart /\ ~s.pendingQuote /\ ~s.skip
  BY DEF Ready
<1>5. Quoting(t, s, q) /\ ~s.pendingCr
  BY <1>4, ScanOpen
<1>6. ~Quoted(t, q + 1) /\ ~Literal(t, q + 1)
  BY <1>4, <1>5, OutsideQuoting DEF Quoting
<1>7. q + 1 \in Nat \ {0} /\ (q + 1) + 1 = q + 2 /\ (q + 2) - 1 = q + 1
  OBVIOUS
<1>8. Quoted(t, q + 2) /\ ~Literal(t, q + 2)
  BY <1>6, <1>7, QuotedNext DEF Literal
<1>9. SameRecord(s, e) /\ e.pendingQuote = s.pendingQuote /\ e.skip = s.skip
  BY <1>1, RestSame
<1>10. SameRecord(s, r)
  BY <1>3, <1>9, SameRecordTrans
<1>11. ~r.pendingQuote
  BY <1>3, <1>4, <1>9
<1>12. ~r.skip
  BY <1>3, <1>4, <1>9
<1>13. Quoting(t, r, q + 1)
  BY <1>3, <1>7, <1>8, <1>11, ScannerFields DEF Quoting
<1>14. /\ s.col < MaxColumns => r.cell \o r.span = s.cell \o s.span
       /\ ~(s.col < MaxColumns) => r.cell = s.cell
  BY <1>1, <1>3
<1>15. Scan(t, o, r, q + 1)
  BY <1>3, <1>4, <1>6, <1>10, <1>13, <1>14, QuoteSkipped
<1> QED BY <1>3, <1>4, <1>5, <1>10, <1>11, <1>12, <1>15 DEF SameRecord

\* What a field's end leaves: the fields of the file.
SpanEnds(t, s, q, e) ==
    /\ e \in Scanner /\ Rest(e) = Rest(s) /\ e.span = <<>> /\ e.cell = <<>>
    /\ e.fields = Fields(t, s.start, q)
    /\ s.col < MaxColumns => e.fields = Append(s.fields, s.cell \o s.span)
    /\ ~(s.col < MaxColumns) => e.fields = s.fields

LEMMA SpanEnded ==
  ASSUME NEW t \in Seq(Byte), NEW q \in Nat, NEW s \in Scanner,
         FieldsSoFar(t, s, q)
  PROVE  SpanEnds(t, s, q, EmitSpan(s, TRUE))
<1> DEFINE e == EmitSpan(s, TRUE)
<1>1. /\ e \in Scanner /\ Rest(e) = Rest(s) /\ e.span = <<>>
      /\ ~(s.col < MaxColumns) => e.fields = s.fields /\ e.cell = s.cell
      /\ s.col < MaxColumns =>
           e.fields = Append(s.fields, s.cell \o s.span) /\ e.cell = <<>>
  BY EmitSpanDoes
<1> HIDE DEF e
<1>2. /\ s.col < MaxColumns => Append(s.fields, s.cell \o s.span) = Fields(t, s.start, q)
      /\ ~(s.col < MaxColumns) => s.cell = <<>> /\ s.fields = Fields(t, s.start, q)
  BY FieldsSoFarIs
<1> QED BY <1>1, <1>2 DEF e, SpanEnds

LEMMA OutsideDelim ==
  ASSUME NEW t \in Seq(Byte), NEW o \in Nat, NEW q \in Nat, NEW s \in Scanner, NEW r,
         Ready(t, o, s, q), ~s.inQuotes, q < Len(t), t[q + 1] = Delimiter,
         r = [EmitSpan(s, TRUE) EXCEPT !.sawData = TRUE, !.col = @ + 1]
  PROVE  /\ r \in Scanner /\ Scan(t, o, r, q + 1)
         /\ ~r.skip /\ ~r.pendingCr /\ ~r.pendingQuote /\ r.hasRecordStart
<1> DEFINE e == EmitSpan(s, TRUE)
<1>0. e = EmitSpan(s, TRUE)
  OBVIOUS
<1> HIDE DEF e
<1>1. Scan(t, o, s, q) /\ s.hasRecordStart /\ ~s.pendingQuote /\ ~s.skip
  BY DEF Ready
<1>2. Quoting(t, s, q) /\ ~s.pendingCr /\ FieldsSoFar(t, s, q) /\ s.start <= q /\ s.bomChecked
  BY <1>1, ScanOpen
<1>3. /\ e \in Scanner /\ Rest(e) = Rest(s) /\ e.span = <<>> /\ e.cell = <<>>
      /\ s.col < MaxColumns => e.fields = Append(s.fields, s.cell \o s.span)
      /\ ~(s.col < MaxColumns) => e.fields = s.fields
  <2>1. SpanEnds(t, s, q, EmitSpan(s, TRUE))
    BY <1>2, SpanEnded
  <2> QED BY <1>0, <2>1 DEF SpanEnds
<1> DEFINE n == e.col + 1
<1>4. n \in Nat /\ r = [e EXCEPT !.sawData = TRUE, !.col = n]
  <2>1. e.col \in Nat
    BY <1>3, ScannerFields
  <2>2. r = [e EXCEPT !.sawData = TRUE, !.col = @ + 1]
    BY <1>0
  <2> QED BY <2>1, <2>2
<1> HIDE DEF n
<1>5. /\ r \in Scanner /\ r.sawData /\ r.col = n
      /\ r.start = e.start /\ r.records = e.records /\ r.hasRecordStart = e.hasRecordStart
      /\ r.cell = e.cell /\ r.span = e.span /\ r.fields = e.fields /\ r.bomChecked = e.bomChecked
      /\ r.inQuotes = e.inQuotes /\ r.pendingQuote = e.pendingQuote /\ r.skip = e.skip
      /\ r.pendingCr = e.pendingCr
  BY <1>3, <1>4 DEF Scanner
<1>6. /\ e.start = s.start /\ e.records = s.records /\ e.hasRecordStart = s.hasRecordStart
      /\ e.inQuotes = s.inQuotes /\ e.pendingQuote = s.pendingQuote /\ e.skip = s.skip
      /\ e.pendingCr = s.pendingCr /\ e.bomChecked = s.bomChecked /\ e.col = s.col
  BY <1>3, SameRest
<1>7. ~Quoted(t, q + 1)
  BY <1>2, OutsideQuoting
<1>8. q + 1 \in Nat \ {0} /\ (q + 1) + 1 = q + 2 /\ (q + 2) - 1 = q + 1
  OBVIOUS
<1>9. t[q + 1] # Quote /\ t[q + 1] # CR /\ t[q + 1] # LF
  BY Distinct
<1>10. ~Quoted(t, q + 2) /\ ~Literal(t, q + 2)
  BY <1>7, <1>8, <1>9, QuotedNext DEF Literal
<1>11. ~r.inQuotes
  BY <1>5, <1>6
<1>12. ~r.pendingQuote
  BY <1>1, <1>5, <1>6
<1>13. Quoting(t, r, q + 1)
  BY <1>5, <1>8, <1>10, <1>11, <1>12, ScannerFields DEF Quoting
<1>14. q + 1 \notin LineEnds(t) /\ ~SplitsCrLf(t, q + 1) /\ IsDelim(t, q + 1)
  BY <1>7, <1>8, <1>9, LineEndIs DEF SplitsCrLf, IsDelim
<1>15. /\ r.start = s.start /\ r.col = s.col + 1 /\ r.cell = <<>> /\ r.span = <<>>
       /\ s.col < MaxColumns => r.fields = Append(s.fields, s.cell \o s.span)
       /\ ~(s.col < MaxColumns) => r.fields = s.fields
  BY <1>3, <1>5, <1>6 DEF n
<1>16. FieldsSoFar(t, r, q + 1)
  BY <1>2, <1>5, <1>14, <1>15, DelimFields
<1>17. r.bomChecked
  BY <1>2, <1>5, <1>6
<1>18. r.hasRecordStart
  BY <1>1, <1>5, <1>6
<1>19. ~r.pendingCr
  BY <1>2, <1>5, <1>6
<1>20. ~r.skip
  BY <1>1, <1>5, <1>6
<1>21. r.records = s.records
  BY <1>5, <1>6
<1>22. Scan(t, o, r, q + 1)
  BY <1>1, <1>5, <1>13, <1>14, <1>15, <1>16, <1>17, <1>18, <1>19, <1>21, OpenNext
<1> QED BY <1>5, <1>12, <1>18, <1>19, <1>20, <1>22

-----------------------------------------------------------------------------
(* The end of a line.                                                      *)

\* A line has ended at p, and the next record has no start yet.
LineDone(t, o, d, p) ==
    /\ d \in Scanner
    /\ d.bomChecked /\ ~d.hasRecordStart /\ ~d.sawData /\ ~d.inQuotes /\ ~d.pendingQuote
    /\ d.col = 0 /\ d.fields = <<>> /\ d.cell = <<>> /\ d.span = <<>>
    /\ o <= p /\ p <= Len(t) /\ p \in Nat \ {0}
    /\ Found(t, o, d.records)
    /\ Cardinality(EndsTo(t, o, p)) = Len(d.records)
    /\ NextStart(t, o, d.records) = AfterEnd(t, p)
    /\ d.records # <<>> /\ d.records[Len(d.records)].end + 1 = p
    /\ Quoting(t, d, p) /\ ~Quoted(t, p + 1)
    /\ t[p] \in {CR, LF}

Started(d, r, p) ==
    /\ r.start = p /\ r.hasRecordStart /\ ~r.pendingCr
    /\ r.inQuotes = d.inQuotes /\ r.pendingQuote = d.pendingQuote
    /\ r.bomChecked = d.bomChecked /\ r.sawData = d.sawData /\ r.col = d.col
    /\ r.fields = d.fields /\ r.cell = d.cell /\ r.span = d.span /\ r.records = d.records

LEMMA StartedIs ==
  ASSUME NEW t, NEW o, NEW d, NEW r, NEW p, NEW x, LineDone(t, o, d, p), Started(d, r, x)
  PROVE  /\ r.start = x /\ r.hasRecordStart /\ ~r.pendingCr
         /\ r.bomChecked /\ ~r.sawData /\ ~r.inQuotes /\ ~r.pendingQuote
         /\ r.col = 0 /\ r.fields = <<>> /\ r.cell = <<>> /\ r.span = <<>>
         /\ r.records = d.records
<1>1. r.start = x /\ r.hasRecordStart /\ ~r.pendingCr /\ r.records = d.records
  BY DEF Started
<1>2. r.bomChecked
  BY DEF Started, LineDone
<1>3. ~r.sawData
  BY DEF Started, LineDone
<1>4. ~r.inQuotes
  BY DEF Started, LineDone
<1>5. ~r.pendingQuote
  BY DEF Started, LineDone
<1>6. r.col = 0 /\ r.fields = <<>> /\ r.cell = <<>> /\ r.span = <<>>
  BY DEF Started, LineDone
<1> QED BY <1>1, <1>2, <1>3, <1>4, <1>5, <1>6

\* The record after a CRLF.
LEMMA StartAfterCrLf ==
  ASSUME NEW t \in Seq(Byte), NEW o \in Nat, NEW p \in Nat, NEW d, NEW r \in Scanner,
         LineDone(t, o, d, p), p < Len(t), t[p] = CR, t[p + 1] = LF, Started(d, r, p + 1)
  PROVE  Scan(t, o, r, p + 1)
<1>1. /\ r.start = p + 1 /\ r.hasRecordStart /\ ~r.pendingCr
      /\ r.bomChecked /\ ~r.sawData /\ ~r.inQuotes /\ ~r.pendingQuote
      /\ r.col = 0 /\ r.fields = <<>> /\ r.cell = <<>> /\ r.span = <<>>
      /\ r.records = d.records
  BY StartedIs
<1>2. /\ o <= p /\ p \in Nat \ {0} /\ Found(t, o, r.records)
      /\ Cardinality(EndsTo(t, o, p)) = Len(r.records)
      /\ NextStart(t, o, r.records) = AfterEnd(t, p) /\ ~Quoted(t, p + 1)
  BY <1>1 DEF LineDone
<1>3. Quoting(t, r, p + 1)
  BY <1>1, <1>2, QuotingAfterLine
<1>4. t[p + 1] # CR
  BY Distinct
<1>5. p + 1 \notin LineEnds(t) /\ ~SplitsCrLf(t, p + 1)
  BY <1>2, <1>4, LineEndIs DEF SplitsCrLf
<1>6. EndsTo(t, o, p + 1) = EndsTo(t, o, p)
  BY <1>2, <1>5, EndsToNext
<1>7. NextStart(t, o, r.records) = p + 1
  BY <1>2 DEF AfterEnd, Follows
<1>8. p + 1 \in Nat /\ o <= p + 1 /\ p + 1 <= Len(t)
  BY <1>2
<1>9. Cardinality(EndsTo(t, o, p + 1)) = Len(r.records)
  BY <1>2, <1>6
<1> QED BY <1>1, <1>2, <1>3, <1>5, <1>7, <1>8, <1>9, OpenFresh

\* The record after another line end.
LEMMA StartAfterLine ==
  ASSUME NEW t \in Seq(Byte), NEW o \in Nat, NEW p \in Nat, NEW d, NEW r \in Scanner,
         LineDone(t, o, d, p), ~(p < Len(t) /\ t[p] = CR /\ t[p + 1] = LF), Started(d, r, p)
  PROVE  Scan(t, o, r, p)
<1>1. /\ r.start = p /\ r.hasRecordStart /\ ~r.pendingCr
      /\ r.bomChecked /\ ~r.sawData /\ ~r.inQuotes /\ ~r.pendingQuote
      /\ r.col = 0 /\ r.fields = <<>> /\ r.cell = <<>> /\ r.span = <<>>
      /\ r.records = d.records
  BY StartedIs
<1>2. /\ o <= p /\ p <= Len(t) /\ Found(t, o, r.records)
      /\ Cardinality(EndsTo(t, o, p)) = Len(r.records)
      /\ NextStart(t, o, r.records) = AfterEnd(t, p)
  BY <1>1 DEF LineDone
<1>3. Quoting(t, d, p)
  BY DEF LineDone
<1>4. r.inQuotes = d.inQuotes /\ r.pendingQuote = d.pendingQuote
  BY DEF Started
<1>5. Quoting(t, r, p)
  BY <1>3, <1>4 DEF Quoting
<1>6. ~SplitsCrLf(t, p)
  BY DEF SplitsCrLf
<1>7. NextStart(t, o, r.records) = p
  BY <1>2 DEF AfterEnd, Follows
<1> QED BY <1>1, <1>2, <1>5, <1>6, <1>7, OpenFresh

\* A CR that may be the first byte of a CRLF.
LEMMA WaitAfterCr ==
  ASSUME NEW t \in Seq(Byte), NEW o \in Nat, NEW p \in Nat, NEW d, NEW r \in Scanner,
         LineDone(t, o, d, p), t[p] = CR, r.pendingCr \/ p = Len(t),
         Rest(r) = Rest([d EXCEPT !.pendingCr = r.pendingCr]),
         r.span = d.span, r.cell = d.cell, r.fields = d.fields
  PROVE  Scan(t, o, r, p) /\ ~r.hasRecordStart
<1>1. /\ d \in Scanner /\ d.bomChecked /\ ~d.hasRecordStart /\ ~d.sawData /\ ~d.inQuotes /\ ~d.pendingQuote
      /\ d.col = 0 /\ d.fields = <<>> /\ d.cell = <<>> /\ d.span = <<>>
      /\ o <= p /\ p <= Len(t) /\ p \in Nat \ {0}
      /\ Found(t, o, d.records)
      /\ Cardinality(EndsTo(t, o, p)) = Len(d.records)
      /\ d.records # <<>> /\ d.records[Len(d.records)].end + 1 = p
      /\ Quoting(t, d, p)
  BY DEF LineDone
<1> DEFINE b == r.pendingCr
           x == [d EXCEPT !.pendingCr = b]
<1>2. Rest(r) = Rest(x)
  OBVIOUS
<1> HIDE DEF b
<1>3. /\ x.inQuotes = d.inQuotes /\ x.pendingQuote = d.pendingQuote /\ x.bomChecked = d.bomChecked
      /\ x.hasRecordStart = d.hasRecordStart /\ x.sawData = d.sawData /\ x.col = d.col
      /\ x.records = d.records
  BY <1>1 DEF Scanner
<1> HIDE DEF x
<1>4. /\ r.inQuotes = x.inQuotes /\ r.pendingQuote = x.pendingQuote /\ r.bomChecked = x.bomChecked
      /\ r.hasRecordStart = x.hasRecordStart /\ r.sawData = x.sawData /\ r.col = x.col
      /\ r.records = x.records
  BY <1>2, SameRest
<1>5. /\ r.inQuotes = d.inQuotes /\ r.pendingQuote = d.pendingQuote /\ r.col = 0
      /\ r.records = d.records
  BY <1>1, <1>3, <1>4
<1>6. r.bomChecked
  BY <1>1, <1>3, <1>4
<1>7. ~r.hasRecordStart
  BY <1>1, <1>3, <1>4
<1>8. ~r.sawData
  BY <1>1, <1>3, <1>4
<1>9. ~r.inQuotes
  BY <1>1, <1>5
<1>10. Quoting(t, r, p)
  BY <1>1, <1>5 DEF Quoting
<1>11. Between(t, o, r, p)
  BY <1>1, <1>5, <1>8, <1>9 DEF Between
<1> QED BY <1>1, <1>5, <1>6, <1>7, <1>10, <1>11 DEF Scan

RecordEnds(s, d, end) ==
    /\ d \in Scanner
    /\ d.records = Append(s.records, [start |-> s.start, end |-> end, fields |-> s.fields])
    /\ ~d.hasRecordStart /\ ~d.sawData
    /\ d.col = 0 /\ d.fields = <<>> /\ d.cell = <<>> /\ d.span = s.span
    /\ d.inQuotes = s.inQuotes /\ d.pendingQuote = s.pendingQuote /\ d.pendingCr = s.pendingCr
    /\ d.bomChecked = s.bomChecked /\ d.skip = s.skip

LEMMA EndRecordDoes ==
  ASSUME NEW s \in Scanner, NEW end \in Nat
  PROVE  RecordEnds(s, EndRecord(s, end), end)
<1> DEFINE c == [start |-> s.start, end |-> end, fields |-> s.fields]
           rs == Append(s.records, c)
           d == EndRecord(s, end)
<1>1. c \in Record
  BY ScannerFields DEF Record
<1> HIDE DEF c
<1>2. rs \in Seq(Record)
  BY <1>1, ScannerFields, AppendProperties
<1>3. d = [s EXCEPT !.records = rs, !.fields = <<>>, !.cell = <<>>, !.col = 0, !.sawData = FALSE,
                    !.hasRecordStart = FALSE]
  BY DEF EndRecord, c, Scanner
<1>4. <<>> \in Seq(Byte) /\ <<>> \in Seq(Seq(Byte)) /\ 0 \in Nat
  BY EmptySeq
<1> HIDE DEF rs, d
<1>5. /\ d \in Scanner
      /\ d.records = rs /\ ~d.hasRecordStart /\ ~d.sawData
      /\ d.col = 0 /\ d.fields = <<>> /\ d.cell = <<>> /\ d.span = s.span
      /\ d.inQuotes = s.inQuotes /\ d.pendingQuote = s.pendingQuote /\ d.pendingCr = s.pendingCr
      /\ d.bomChecked = s.bomChecked /\ d.skip = s.skip
  BY <1>2, <1>3, <1>4 DEF Scanner
<1> QED BY <1>5 DEF RecordEnds, rs, c, d

LEMMA StartRecordDoes ==
  ASSUME NEW s \in Scanner, NEW offset \in Nat, ~s.pendingCr
  PROVE  /\ StartRecord(s, offset) \in Scanner /\ Started(s, StartRecord(s, offset), offset)
         /\ StartRecord(s, offset).skip = s.skip
<1> DEFINE r == StartRecord(s, offset)
<1>1. r = [s EXCEPT !.start = offset, !.hasRecordStart = TRUE]
  BY DEF StartRecord
<1> HIDE DEF r
<1>2. r \in Scanner /\ r.skip = s.skip
  BY <1>1 DEF Scanner
<1>3. /\ r.start = offset /\ r.hasRecordStart /\ r.pendingCr = s.pendingCr
      /\ r.inQuotes = s.inQuotes /\ r.pendingQuote = s.pendingQuote
      /\ r.bomChecked = s.bomChecked /\ r.sawData = s.sawData /\ r.col = s.col
      /\ r.fields = s.fields /\ r.cell = s.cell /\ r.span = s.span /\ r.records = s.records
  BY <1>1 DEF Scanner
<1>4. ~r.pendingCr
  BY <1>3
<1>5. Started(s, r, offset)
  BY <1>3, <1>4 DEF Started
<1> QED BY <1>2, <1>5 DEF r

LEMMA LineEnded ==
  ASSUME NEW t \in Seq(Byte), NEW o \in Nat, NEW q \in Nat, NEW s \in Scanner, NEW d,
         Ready(t, o, s, q), ~s.inQuotes, q < Len(t), t[q + 1] \in {CR, LF},
         d = EndRecord(EmitSpan(s, TRUE), q)
  PROVE  LineDone(t, o, d, q + 1) /\ ~d.skip /\ ~d.pendingCr
<1> DEFINE e == EmitSpan(s, TRUE)
<1>1. Scan(t, o, s, q) /\ s.hasRecordStart /\ ~s.pendingQuote /\ ~s.skip
  BY DEF Ready
<1>2. /\ Quoting(t, s, q) /\ ~s.pendingCr /\ FieldsSoFar(t, s, q) /\ s.bomChecked
      /\ ~SplitsCrLf(t, q) /\ o <= q
  BY <1>1, ScanOpen
<1>3. /\ e \in Scanner /\ Rest(e) = Rest(s) /\ e.span = <<>>
      /\ e.fields = Fields(t, s.start, q)
  <2>1. SpanEnds(t, s, q, EmitSpan(s, TRUE))
    BY <1>2, SpanEnded
  <2> QED BY <2>1 DEF SpanEnds
<1>4. RecordEnds(e, d, q)
  <2>1. d = EndRecord(e, q)
    OBVIOUS
  <2> HIDE DEF e
  <2> QED BY <1>3, <2>1, EndRecordDoes
<1> HIDE DEF e
<1>5. /\ e.start = s.start /\ e.records = s.records /\ e.hasRecordStart = s.hasRecordStart
      /\ e.inQuotes = s.inQuotes /\ e.pendingQuote = s.pendingQuote /\ e.skip = s.skip
      /\ e.pendingCr = s.pendingCr /\ e.bomChecked = s.bomChecked
  BY <1>3, SameRest
<1>6. /\ d \in Scanner /\ ~d.hasRecordStart /\ ~d.sawData
      /\ d.col = 0 /\ d.fields = <<>> /\ d.cell = <<>> /\ d.span = <<>>
      /\ d.records = Append(s.records, [start |-> s.start, end |-> q, fields |-> Fields(t, s.start, q)])
  BY <1>3, <1>4, <1>5 DEF RecordEnds
<1>7. /\ d.inQuotes = s.inQuotes /\ d.pendingQuote = s.pendingQuote /\ d.skip = s.skip
      /\ d.pendingCr = s.pendingCr /\ d.bomChecked = s.bomChecked
  BY <1>4, <1>5 DEF RecordEnds
<1>8. ~d.inQuotes
  BY <1>7
<1>9. ~d.pendingQuote
  BY <1>1, <1>7
<1>10. ~d.skip
  BY <1>1, <1>7
<1>11. ~d.pendingCr
  BY <1>2, <1>7
<1>12. d.bomChecked
  BY <1>2, <1>7
<1>13. ~Quoted(t, q + 1)
  BY <1>2, OutsideQuoting
<1>14. t[q + 1] = CR \/ t[q + 1] = LF
  OBVIOUS
<1>15. q + 1 \in LineEnds(t)
  BY <1>2, <1>13, <1>14, LineEndIs DEF SplitsCrLf
<1>16. Quoting(t, d, q + 1) /\ ~Quoted(t, q + 2)
  BY <1>6, <1>8, <1>9, <1>13, <1>14, QuotingAfterLine
<1> DEFINE rs == d.records
<1>17. /\ Found(t, o, rs) /\ NextStart(t, o, rs) = AfterEnd(t, q + 1)
       /\ Cardinality(EndsTo(t, o, q + 1)) = Len(rs)
       /\ rs # <<>> /\ rs[Len(rs)].end = q
  <2>1. rs = Append(s.records, [start |-> s.start, end |-> q, fields |-> Fields(t, s.start, q)])
    BY <1>6
  <2> HIDE DEF rs
  <2> QED BY <1>1, <1>15, <2>1, LineFound
<1>18. /\ o <= q + 1 /\ q + 1 <= Len(t) /\ q + 1 \in Nat \ {0} /\ (q + 1) + 1 = q + 2
  BY <1>2
<1>19. rs[Len(rs)].end + 1 = q + 1
  BY <1>17
<1>20. LineDone(t, o, d, q + 1)
  BY <1>6, <1>8, <1>9, <1>12, <1>14, <1>16, <1>17, <1>18, <1>19 DEF LineDone
<1> QED BY <1>10, <1>11, <1>20

LEMMA OutsideLine ==
  ASSUME NEW t \in Seq(Byte), NEW o \in Nat, NEW q \in Nat, NEW s \in Scanner,
         NEW base \in Nat, NEW bytes, NEW isEof \in BOOLEAN, NEW i \in 1..Len(bytes),
         IsSlice(t, base, bytes, isEof), base + i = q + 1,
         Ready(t, o, s, q), ~s.inQuotes, bytes[i] \in {CR, LF}
  PROVE  /\ EndOfLine(s, bytes, i, base, isEof) \in Scanner
         /\ LoopAt(t, o, EndOfLine(s, bytes, i, base, isEof), base, bytes, i, isEof)
<1>1. /\ bytes[i] = t[q + 1] /\ q + 1 <= Len(t) /\ i \in Nat /\ q < Len(t)
      /\ base + i + 1 = q + 2 /\ (q + 1) + 1 = q + 2 /\ base + i - 1 = q /\ q + 1 \in Nat
  <2>1. /\ bytes[i] = t[q + 1] /\ q + 1 <= Len(t) /\ i \in Nat /\ q < Len(t)
    BY SliceNext
  <2> QED BY <2>1
<1> DEFINE d == EndRecord(EmitSpan(s, TRUE), q)
<1>2. EndOfLine(s, bytes, i, base, isEof) =
        IF bytes[i] = CR /\ Follows(bytes, i, LF)
        THEN [StartRecord(d, base + i + 1) EXCEPT !.skip = TRUE]
        ELSE IF bytes[i] = CR /\ CutAfter(bytes, i, isEof)
        THEN [d EXCEPT !.pendingCr = TRUE]
        ELSE StartRecord(d, base + i)
  BY <1>1 DEF EndOfLine
<1>3. LineDone(t, o, d, q + 1) /\ ~d.skip /\ ~d.pendingCr
  <2>1. d = EndRecord(EmitSpan(s, TRUE), q)
    OBVIOUS
  <2> HIDE DEF d
  <2> QED BY <1>1, <2>1, LineEnded
<1> HIDE DEF d
<1>4. d \in Scanner
  BY <1>3 DEF LineDone
<1>5. CASE bytes[i] = CR /\ Follows(bytes, i, LF)
  <2>1. q + 1 < Len(t) /\ t[(q + 1) + 1] = LF /\ t[q + 1] = CR /\ i < Len(bytes)
    BY <1>1, <1>5, SliceNext
  <2> DEFINE u == StartRecord(d, q + 2)
             r == [u EXCEPT !.skip = TRUE]
  <2>2. u \in Scanner /\ Started(d, u, q + 2)
    BY <1>3, <1>4, StartRecordDoes
  <2>3. EndOfLine(s, bytes, i, base, isEof) = r
    BY <1>1, <1>2, <1>5
  <2> HIDE DEF u
  <2>4. r \in Scanner /\ r.skip /\ Started(d, r, q + 2)
    BY <2>2 DEF Scanner, Started
  <2> HIDE DEF r
  <2>5. Scan(t, o, r, (q + 1) + 1)
    BY <1>1, <1>3, <2>1, <2>4, StartAfterCrLf
  <2>6. r.hasRecordStart /\ ~r.pendingCr /\ ~r.pendingQuote
    BY <1>3, <2>4, StartedIs
  <2>7. LoopAt(t, o, r, base, bytes, i, isEof)
    BY <1>1, <2>1, <2>4, <2>5, <2>6 DEF LoopAt
  <2> QED BY <2>3, <2>4, <2>7
<1>6. CASE ~(bytes[i] = CR /\ Follows(bytes, i, LF)) /\ bytes[i] = CR /\ CutAfter(bytes, i, isEof)
  <2>1. i = Len(bytes) /\ ~isEof /\ t[q + 1] = CR
    BY <1>1, <1>6, SliceNext
  <2> DEFINE r == [d EXCEPT !.pendingCr = TRUE]
  <2>2. EndOfLine(s, bytes, i, base, isEof) = r
    BY <1>2, <1>6
  <2>3. /\ r \in Scanner /\ r.pendingCr /\ Rest(r) = Rest([d EXCEPT !.pendingCr = r.pendingCr])
        /\ r.span = d.span /\ r.cell = d.cell /\ r.fields = d.fields /\ r.skip = d.skip
    BY <1>4 DEF Scanner
  <2> HIDE DEF r
  <2>4. Scan(t, o, r, q + 1)
    BY <1>1, <1>3, <2>1, <2>3, WaitAfterCr
  <2>5. LoopAt(t, o, r, base, bytes, i, isEof)
    BY <1>1, <1>3, <2>1, <2>3, <2>4 DEF LoopAt
  <2> QED BY <2>2, <2>3, <2>5
<1>7. CASE /\ ~(bytes[i] = CR /\ Follows(bytes, i, LF))
           /\ ~(bytes[i] = CR /\ CutAfter(bytes, i, isEof))
  <2> DEFINE r == StartRecord(d, q + 1)
  <2>1. EndOfLine(s, bytes, i, base, isEof) = r
    BY <1>1, <1>2, <1>7
  <2>2. r \in Scanner /\ Started(d, r, q + 1) /\ r.skip = d.skip
    BY <1>1, <1>3, <1>4, StartRecordDoes
  <2> HIDE DEF r
  <2>3. ~(q + 1 < Len(t) /\ t[q + 1] = CR /\ t[(q + 1) + 1] = LF)
    <3>1. ~Follows(bytes, i, LF) /\ ~CutAfter(bytes, i, isEof) => base + i = Len(t) \/ t[base + i + 1] # LF
      BY SliceNext
    <3> QED BY <1>1, <1>7, <3>1
  <2>4. Scan(t, o, r, q + 1)
    BY <1>1, <1>3, <2>2, <2>3, StartAfterLine
  <2>5. r.hasRecordStart /\ ~r.pendingCr /\ ~r.pendingQuote
    BY <1>3, <2>2, StartedIs
  <2>6. LoopAt(t, o, r, base, bytes, i, isEof)
    BY <1>1, <1>3, <2>2, <2>4, <2>5, LoopPlain
  <2> QED BY <2>1, <2>2, <2>6
<1> QED BY <1>5, <1>6, <1>7

LEMMA OutsideDoes ==
  ASSUME NEW t \in Seq(Byte), NEW o \in Nat, NEW q \in Nat, NEW s \in Scanner,
         NEW base \in Nat, NEW bytes, NEW isEof \in BOOLEAN, NEW i \in 1..Len(bytes),
         IsSlice(t, base, bytes, isEof), base + i = q + 1,
         Ready(t, o, s, q), ~s.inQuotes
  PROVE  /\ OutsideQuotes(s, bytes, i, base, isEof) \in Scanner
         /\ LoopAt(t, o, OutsideQuotes(s, bytes, i, base, isEof), base, bytes, i, isEof)
<1>1. bytes[i] = t[q + 1] /\ i \in Nat /\ q < Len(t)
  BY SliceNext
<1>2. s.hasRecordStart
  BY DEF Ready
<1>3. OutsideQuotes(s, bytes, i, base, isEof) =
        IF t[q + 1] = Quote THEN [EmitSpan(s, FALSE) EXCEPT !.sawData = TRUE, !.inQuotes = TRUE]
        ELSE IF t[q + 1] = Delimiter THEN [EmitSpan(s, TRUE) EXCEPT !.sawData = TRUE, !.col = @ + 1]
        ELSE IF t[q + 1] \in {CR, LF} THEN EndOfLine(s, bytes, i, base, isEof)
        ELSE [s EXCEPT !.sawData = TRUE, !.span = Append(s.span, t[q + 1])]
  BY <1>1, <1>2, Distinct DEF OutsideQuotes, Scanner
<1>4. CASE t[q + 1] = Quote
  <2> DEFINE r == [EmitSpan(s, FALSE) EXCEPT !.sawData = TRUE, !.inQuotes = TRUE]
  <2>1. r = [EmitSpan(s, FALSE) EXCEPT !.sawData = TRUE, !.inQuotes = TRUE]
    OBVIOUS
  <2>2. OutsideQuotes(s, bytes, i, base, isEof) = r
    BY <1>3, <1>4
  <2> HIDE DEF r
  <2>3. /\ r \in Scanner /\ Scan(t, o, r, q + 1)
        /\ ~r.skip /\ ~r.pendingCr /\ ~r.pendingQuote /\ r.hasRecordStart
    BY <1>1, <1>4, <2>1, OutsideQuote
  <2> QED BY <1>1, <2>2, <2>3, LoopPlain
<1>5. CASE t[q + 1] # Quote /\ t[q + 1] = Delimiter
  <2> DEFINE r == [EmitSpan(s, TRUE) EXCEPT !.sawData = TRUE, !.col = @ + 1]
  <2>1. r = [EmitSpan(s, TRUE) EXCEPT !.sawData = TRUE, !.col = @ + 1]
    OBVIOUS
  <2>2. OutsideQuotes(s, bytes, i, base, isEof) = r
    BY <1>3, <1>5
  <2> HIDE DEF r
  <2>3. /\ r \in Scanner /\ Scan(t, o, r, q + 1)
        /\ ~r.skip /\ ~r.pendingCr /\ ~r.pendingQuote /\ r.hasRecordStart
    BY <1>1, <1>5, <2>1, OutsideDelim
  <2> QED BY <1>1, <2>2, <2>3, LoopPlain
<1>6. CASE t[q + 1] # Quote /\ t[q + 1] # Delimiter /\ t[q + 1] \in {CR, LF}
  BY <1>1, <1>3, <1>6, OutsideLine
<1>7. CASE t[q + 1] \notin {Quote, Delimiter, CR, LF}
  <2> DEFINE r == [s EXCEPT !.sawData = TRUE, !.span = Append(s.span, t[q + 1])]
  <2>1. r = [s EXCEPT !.sawData = TRUE, !.span = Append(s.span, t[q + 1])]
    OBVIOUS
  <2>2. OutsideQuotes(s, bytes, i, base, isEof) = r
    BY <1>3, <1>7
  <2> HIDE DEF r
  <2>3. /\ r \in Scanner /\ Scan(t, o, r, q + 1)
        /\ ~r.skip /\ ~r.pendingCr /\ ~r.pendingQuote /\ r.hasRecordStart
    BY <1>1, <1>7, <2>1, OutsideOther
  <2> QED BY <1>1, <2>2, <2>3, LoopPlain
<1> QED BY <1>4, <1>5, <1>6, <1>7

LEMMA ReadByteDoes ==
  ASSUME NEW t \in Seq(Byte), NEW o \in Nat, NEW s \in Scanner,
         NEW base \in Nat, NEW bytes, NEW isEof \in BOOLEAN, NEW i \in 1..Len(bytes),
         IsSlice(t, base, bytes, isEof), LoopAt(t, o, s, base, bytes, i - 1, isEof)
  PROVE  /\ ReadByte(s, bytes, i, base, isEof) \in Scanner
         /\ LoopAt(t, o, ReadByte(s, bytes, i, base, isEof), base, bytes, i, isEof)
<1> DEFINE q == base + (i - 1)
<1>1. /\ i \in Nat /\ q \in Nat /\ q + 1 = base + i /\ i - 1 < Len(bytes) /\ i - 1 # Len(bytes)
      /\ Len(bytes) \in Nat
  BY DEF IsSlice
<1>2. ~s.pendingCr /\ ~s.pendingQuote /\ s.hasRecordStart
  BY <1>1 DEF LoopAt
<1>3. CASE s.skip
  <2> DEFINE r == [s EXCEPT !.skip = FALSE]
  <2>1. ReadByte(s, bytes, i, base, isEof) = r
    BY <1>3 DEF ReadByte
  <2>2. /\ r \in Scanner /\ ~r.skip /\ SameRecord(s, r) /\ r.cell = s.cell /\ r.span = s.span
        /\ r.inQuotes = s.inQuotes /\ r.pendingQuote = s.pendingQuote /\ r.sawData = s.sawData
    BY DEF Scanner, SameRecord
  <2> HIDE DEF r
  <2>3. base + (i - 1) + 1 = base + i
    BY <1>1
  <2>4. Scan(t, o, s, base + i)
    BY <1>3, <2>3 DEF LoopAt
  <2>5. Scan(t, o, r, base + i)
    <3>1. Quoting(t, r, base + i)
      BY <2>2, <2>4 DEF Scan, Quoting
    <3>2. Open(t, o, s, base + i)
      BY <1>2, <2>4 DEF Scan
    <3>3. FieldsSoFar(t, r, base + i)
      BY <2>2, <3>2 DEF Open, FieldsSoFar, SameRecord
    <3>4. Open(t, o, r, base + i)
      BY <2>2, <3>2, <3>3 DEF Open, SameRecord
    <3> QED BY <1>2, <2>2, <2>4, <3>1, <3>4 DEF Scan, SameRecord
  <2>6. ~r.pendingCr /\ ~r.pendingQuote /\ r.hasRecordStart
    BY <1>2, <2>2 DEF SameRecord
  <2> QED BY <1>1, <2>1, <2>2, <2>5, <2>6, LoopPlain
<1>4. CASE ~s.skip
  <2>1. Ready(t, o, s, q)
    BY <1>2, <1>4 DEF Ready, LoopAt
  <2>2. base + i = q + 1
    BY <1>1
  <2> HIDE DEF q
  <2>3. CASE s.inQuotes
    <3>1. ReadByte(s, bytes, i, base, isEof) = InsideQuotes(s, bytes, i, isEof)
      BY <1>4, <2>3 DEF ReadByte
    <3>2. /\ InsideQuotes(s, bytes, i, isEof) \in Scanner
          /\ LoopAt(t, o, InsideQuotes(s, bytes, i, isEof), base, bytes, i, isEof)
      BY <1>1, <2>1, <2>2, <2>3, InsideDoes
    <3> QED BY <3>1, <3>2
  <2>4. CASE ~s.inQuotes
    <3>1. ReadByte(s, bytes, i, base, isEof) = OutsideQuotes(s, bytes, i, base, isEof)
      BY <1>4, <2>4 DEF ReadByte
    <3>2. /\ OutsideQuotes(s, bytes, i, base, isEof) \in Scanner
          /\ LoopAt(t, o, OutsideQuotes(s, bytes, i, base, isEof), base, bytes, i, isEof)
      BY <1>1, <2>1, <2>2, <2>4, OutsideDoes
    <3> QED BY <3>1, <3>2
  <2> QED BY <2>3, <2>4
<1> QED BY <1>3, <1>4

-----------------------------------------------------------------------------
(* The loop over a slice.                                                  *)

\* f holds what the scanner is after each of the first n bytes.
Reads(f, s, bytes, base, isEof, n) ==
    f = [i \in 0..n |-> IF i = 0 THEN s ELSE ReadByte(f[i - 1], bytes, i, base, isEof)]

LEMMA ReadsExists ==
  ASSUME NEW s, NEW bytes, NEW base, NEW isEof, NEW n \in Nat
  PROVE  \E f : Reads(f, s, bytes, base, isEof, n)
<1> DEFINE S == {m \in 0..n : \E f : Reads(f, s, bytes, base, isEof, m)}
<1>1. 0 \in S
  <2> DEFINE f == [i \in 0..0 |-> s]
  <2>1. f = [i \in 0..0 |-> IF i = 0 THEN s ELSE ReadByte(f[i - 1], bytes, i, base, isEof)]
    OBVIOUS
  <2>2. Reads(f, s, bytes, base, isEof, 0)
    BY <2>1 DEF Reads
  <2> QED BY <2>2
<1>2. \A m \in 0..(n - 1) : m \in S => m + 1 \in S
  <2> SUFFICES ASSUME NEW m \in 0..(n - 1), m \in S PROVE m + 1 \in S
    OBVIOUS
  <2>1. PICK f : Reads(f, s, bytes, base, isEof, m)
    OBVIOUS
  <2> DEFINE b == ReadByte(f[m], bytes, m + 1, base, isEof)
             g == [i \in 0..(m + 1) |-> IF i = m + 1 THEN b ELSE f[i]]
  <2>2. f = [i \in 0..m |-> IF i = 0 THEN s ELSE ReadByte(f[i - 1], bytes, i, base, isEof)]
    BY <2>1 DEF Reads
  <2>3. \A i \in 0..m : f[i] = IF i = 0 THEN s ELSE ReadByte(f[i - 1], bytes, i, base, isEof)
    BY <2>2
  <2>4. \A i \in 0..(m + 1) : g[i] = IF i = m + 1 THEN b ELSE f[i]
    OBVIOUS
  <2>5. g[m + 1] = b /\ (\A i \in 0..m : g[i] = f[i])
    BY <2>4
  <2>6. ASSUME NEW i \in 0..(m + 1)
        PROVE  g[i] = IF i = 0 THEN s ELSE ReadByte(g[i - 1], bytes, i, base, isEof)
    <3>1. CASE i = m + 1
      <4>1. i # 0 /\ i - 1 = m /\ m \in 0..m
        BY <3>1
      <4>2. g[i - 1] = f[m] /\ g[i] = b
        BY <2>5, <3>1, <4>1
      <4> QED BY <3>1, <4>1, <4>2
    <3>2. CASE i = 0
      <4>1. i \in 0..m
        BY <3>2
      <4> QED BY <2>3, <2>5, <3>2, <4>1
    <3>3. CASE i # m + 1 /\ i # 0
      <4>1. i \in 0..m /\ i - 1 \in 0..m
        BY <3>3
      <4>2. f[i] = ReadByte(f[i - 1], bytes, i, base, isEof)
        BY <2>3, <3>3, <4>1
      <4>3. g[i] = f[i] /\ g[i - 1] = f[i - 1]
        BY <2>5, <4>1
      <4> QED BY <3>3, <4>2, <4>3
    <3> QED BY <3>1, <3>2, <3>3
  <2> HIDE DEF b
  <2>7. g = [i \in 0..(m + 1) |-> g[i]]
    OBVIOUS
  <2> HIDE DEF g
  <2>8. g = [i \in 0..(m + 1) |-> IF i = 0 THEN s ELSE ReadByte(g[i - 1], bytes, i, base, isEof)]
    BY <2>6, <2>7
  <2>9. Reads(g, s, bytes, base, isEof, m + 1)
    BY <2>8 DEF Reads
  <2> QED BY <2>9
<1>3. n \in S
  <2> HIDE DEF S
  <2>1. \A i \in 0..n : i \in S
    BY <1>1, <1>2, IndTo
  <2> QED BY <2>1
<1> QED BY <1>3

LEMMA ReadBytesIs ==
  ASSUME NEW s, NEW bytes, NEW base, NEW isEof, Len(bytes) \in Nat
  PROVE  \E f : Reads(f, s, bytes, base, isEof, Len(bytes)) /\ ReadBytes(s, bytes, base, isEof) = f[Len(bytes)]
<1> DEFINE f == CHOOSE f : Reads(f, s, bytes, base, isEof, Len(bytes))
<1>1. Reads(f, s, bytes, base, isEof, Len(bytes))
  BY ReadsExists
<1>2. ReadBytes(s, bytes, base, isEof) = f[Len(bytes)]
  BY DEF ReadBytes, Reads
<1> QED BY <1>1, <1>2

LEMMA LoopEnds ==
  ASSUME NEW t \in Seq(Byte), NEW o \in Nat, NEW s \in Scanner,
         NEW base \in Nat, NEW bytes, NEW isEof \in BOOLEAN,
         IsSlice(t, base, bytes, isEof), LoopAt(t, o, s, base, bytes, 0, isEof)
  PROVE  /\ ReadBytes(s, bytes, base, isEof) \in Scanner
         /\ LoopAt(t, o, ReadBytes(s, bytes, base, isEof), base, bytes, Len(bytes), isEof)
<1> DEFINE n == Len(bytes)
<1>1. n \in Nat
  BY DEF IsSlice
<1>2. PICK f : Reads(f, s, bytes, base, isEof, n) /\ ReadBytes(s, bytes, base, isEof) = f[n]
  BY <1>1, ReadBytesIs
<1>3. \A i \in 0..n : f[i] = IF i = 0 THEN s ELSE ReadByte(f[i - 1], bytes, i, base, isEof)
  BY <1>2 DEF Reads
<1> DEFINE S == {i \in 0..n : f[i] \in Scanner /\ LoopAt(t, o, f[i], base, bytes, i, isEof)}
<1>4. 0 \in S
  BY <1>1, <1>3
<1>5. \A i \in 0..(n - 1) : i \in S => i + 1 \in S
  <2> SUFFICES ASSUME NEW i \in 0..(n - 1), i \in S PROVE i + 1 \in S
    OBVIOUS
  <2>1. i + 1 \in 1..n /\ i + 1 \in 0..n /\ (i + 1) - 1 = i /\ i + 1 # 0
    BY <1>1
  <2>2. f[i + 1] = ReadByte(f[i], bytes, i + 1, base, isEof)
    BY <1>3, <2>1
  <2> DEFINE x == f[i]
             j == i + 1
  <2>3. x \in Scanner /\ LoopAt(t, o, x, base, bytes, j - 1, isEof) /\ j \in 1..n
    BY <2>1
  <2> HIDE DEF x, j
  <2>4. /\ ReadByte(x, bytes, j, base, isEof) \in Scanner
        /\ LoopAt(t, o, ReadByte(x, bytes, j, base, isEof), base, bytes, j, isEof)
    BY <2>3, ReadByteDoes
  <2> QED BY <2>1, <2>2, <2>4 DEF x, j
<1>6. n \in S
  <2> HIDE DEF S
  <2>1. \A i \in 0..n : i \in S
    BY <1>1, <1>4, <1>5, IndTo
  <2> QED BY <1>1, <2>1
<1> QED BY <1>2, <1>6

-----------------------------------------------------------------------------
(* What the slice before has left open.                                    *)

LEMMA BetweenDone ==
  ASSUME NEW t \in Seq(Byte), NEW o \in Nat, NEW q \in Nat, NEW s \in Scanner,
         Scan(t, o, s, q), ~s.hasRecordStart
  PROVE  LineDone(t, o, s, q) /\ t[q] = CR /\ (s.pendingCr \/ q = Len(t))
<1>1. /\ s.bomChecked /\ o <= q /\ q <= Len(t) /\ Quoting(t, s, q) /\ Found(t, o, s.records)
      /\ Cardinality(EndsTo(t, o, q)) = Len(s.records) /\ Between(t, o, s, q)
  BY DEF Scan
<1>2. /\ s.pendingCr \/ q = Len(t)
      /\ s.records # <<>> /\ s.records[Len(s.records)].end + 1 = q /\ t[q] = CR
      /\ ~s.inQuotes /\ ~s.sawData
      /\ s.col = 0 /\ s.fields = <<>> /\ s.cell = <<>> /\ s.span = <<>>
  BY <1>1 DEF Between
<1>3. ~Quoted(t, q + 1) /\ ~s.pendingQuote
  BY <1>1, <1>2, OutsideQuoting
<1>4. q \in Nat \ {0}
  <2>1. s.records \in Seq(Record) /\ Len(s.records) \in 1..Len(s.records)
    BY <1>2, ScannerFields, EmptySeq
  <2>2. s.records[Len(s.records)] \in Record
    BY <2>1
  <2>3. s.records[Len(s.records)].end \in Nat
    BY <2>2 DEF Record
  <2> QED BY <1>2, <2>3
<1>5. NextStart(t, o, s.records) = AfterEnd(t, q)
  BY <1>2 DEF NextStart
<1> QED BY <1>1, <1>2, <1>3, <1>4, <1>5 DEF LineDone

LEMMA OpenQuote ==
  ASSUME NEW t \in Seq(Byte), NEW o \in Nat, NEW q \in Nat, NEW s \in Scanner,
         Scan(t, o, s, q), s.pendingQuote
  PROVE  s.hasRecordStart /\ s.inQuotes /\ ~s.pendingCr
<1>1. Quoting(t, s, q)
  BY DEF Scan
<1>2. s.inQuotes
  BY <1>1, ScannerFields DEF Quoting
<1>3. s.hasRecordStart
  BY <1>2 DEF Scan, Between
<1>4. ~s.pendingCr
  BY <1>3, ScanOpen
<1> QED BY <1>2, <1>3, <1>4

LEMMA SliceBegins ==
  ASSUME NEW t \in Seq(Byte), NEW base \in Nat, NEW bytes, NEW isEof \in BOOLEAN,
         IsSlice(t, base, bytes, isEof)
  PROVE  /\ bytes \in Seq(Byte) /\ Len(bytes) \in Nat /\ base <= Len(t)
         /\ bytes = <<>> <=> Len(bytes) = 0
         /\ bytes # <<>> => base < Len(t) /\ bytes[1] = t[base + 1] /\ 0 < Len(bytes)
         /\ bytes = <<>> /\ isEof => base = Len(t)
         /\ base = Len(t) => bytes = <<>>
<1>1. bytes \in Seq(Byte) /\ Len(bytes) \in Nat /\ base + Len(bytes) <= Len(t) /\ Len(t) \in Nat
  BY DEF IsSlice
<1>2. bytes = <<>> <=> Len(bytes) = 0
  BY <1>1, EmptySeq
<1>3. Len(bytes) > 0 => bytes[1] = t[base + 1]
  BY <1>1 DEF IsSlice
<1>4. isEof => base + Len(bytes) = Len(t)
  BY DEF IsSlice
<1> QED BY <1>1, <1>2, <1>3, <1>4

\* A waiting CR is settled by the next byte, or by the end of the file.
LEMMA CrResolved ==
  ASSUME NEW t \in Seq(Byte), NEW o \in Nat, NEW s \in Scanner,
         NEW base \in Nat, NEW bytes, NEW isEof \in BOOLEAN, NEW r,
         IsSlice(t, base, bytes, isEof), Scan(t, o, s, base), Settled(s), s.pendingCr,
         r = ResolveCr(s, bytes, base, isEof)
  PROVE  r \in Scanner /\ LoopAt(t, o, r, base, bytes, 0, isEof) /\ ~r.pendingQuote /\ r.span = <<>>
<1>1. ~s.hasRecordStart
  BY ScanOpen
<1>2. LineDone(t, o, s, base) /\ t[base] = CR
  BY <1>1, BetweenDone
<1>3. ~s.pendingQuote /\ s.span = <<>> /\ ~s.hasRecordStart
  BY <1>2 DEF LineDone
<1>4. ~s.skip
  BY DEF Settled
<1>5. CASE bytes = <<>>
  <2> DEFINE b == ~isEof
  <2>1. b \in BOOLEAN /\ r = [s EXCEPT !.pendingCr = b]
    BY <1>5 DEF ResolveCr
  <2>2. b \/ base = Len(t)
    BY <1>5, SliceBegins
  <2>3. isEof => ~b
    OBVIOUS
  <2> HIDE DEF b
  <2>4. /\ r \in Scanner /\ r.pendingCr = b
        /\ r.span = s.span /\ r.cell = s.cell /\ r.fields = s.fields
        /\ r.skip = s.skip /\ r.pendingQuote = s.pendingQuote
    BY <2>1 DEF Scanner
  <2>5. Rest(r) = Rest([s EXCEPT !.pendingCr = r.pendingCr])
    BY <2>1, <2>4
  <2>6. Scan(t, o, r, base)
    BY <1>2, <2>2, <2>4, <2>5, WaitAfterCr
  <2>7. Len(bytes) = 0
    BY <1>5, EmptySeq
  <2>8. ~r.skip
    BY <1>4, <2>4
  <2>9. ~r.pendingQuote
    BY <1>3, <2>4
  <2>10. isEof => ~r.pendingCr
    BY <2>3, <2>4
  <2>11. base + 0 = base
    OBVIOUS
  <2>12. LoopAt(t, o, r, base, bytes, 0, isEof)
    BY <2>6, <2>7, <2>8, <2>9, <2>10, <2>11 DEF LoopAt
  <2> QED BY <1>3, <2>4, <2>9, <2>12
<1>6. CASE bytes # <<>>
  <2> DEFINE lf == bytes[1] = LF
             x == IF lf THEN base + 1 ELSE base
  <2>1. r = [StartRecord(s, x) EXCEPT !.pendingCr = FALSE, !.skip = lf]
    BY <1>6 DEF ResolveCr
  <2>2. x \in Nat /\ lf \in BOOLEAN
    OBVIOUS
  <2>3. /\ base < Len(t) /\ 0 < Len(bytes) /\ Len(bytes) \in Nat
        /\ lf <=> t[base + 1] = LF
    BY <1>6, SliceBegins
  <2>4. x = IF lf THEN base + 1 ELSE base
    OBVIOUS
  <2> HIDE DEF lf, x
  <2> DEFINE u == [s EXCEPT !.start = x, !.hasRecordStart = TRUE]
  <2>5. /\ u \in Scanner /\ u.start = x /\ u.hasRecordStart = TRUE
        /\ u.inQuotes = s.inQuotes /\ u.pendingQuote = s.pendingQuote
        /\ u.bomChecked = s.bomChecked /\ u.sawData = s.sawData /\ u.col = s.col
        /\ u.fields = s.fields /\ u.cell = s.cell /\ u.span = s.span /\ u.records = s.records
    BY <2>2 DEF Scanner
  <2>50. r = [u EXCEPT !.pendingCr = FALSE, !.skip = lf]
    BY <2>1 DEF StartRecord
  <2> HIDE DEF u
  <2>6. /\ r \in Scanner /\ r.skip = lf /\ ~r.pendingCr /\ r.start = x /\ r.hasRecordStart
        /\ r.inQuotes = s.inQuotes /\ r.pendingQuote = s.pendingQuote
        /\ r.bomChecked = s.bomChecked /\ r.sawData = s.sawData /\ r.col = s.col
        /\ r.fields = s.fields /\ r.cell = s.cell /\ r.span = s.span /\ r.records = s.records
    <3>1. r \in Scanner
      BY <2>2, <2>5, <2>50 DEF Scanner
    <3>2. /\ r.skip = lf /\ r.pendingCr = FALSE /\ r.start = u.start
          /\ r.hasRecordStart = u.hasRecordStart
          /\ r.inQuotes = u.inQuotes /\ r.pendingQuote = u.pendingQuote
          /\ r.bomChecked = u.bomChecked /\ r.sawData = u.sawData /\ r.col = u.col
          /\ r.fields = u.fields /\ r.cell = u.cell /\ r.span = u.span /\ r.records = u.records
      BY <2>5, <2>50 DEF Scanner
    <3> QED BY <2>5, <3>1, <3>2
  <2>7. Started(s, r, x)
    BY <2>6 DEF Started
  <2>8. ~r.pendingQuote
    BY <1>3, <2>6
  <2>9. CASE lf
    <3>1. Scan(t, o, r, base + 1)
      BY <1>2, <2>3, <2>4, <2>6, <2>7, <2>9, StartAfterCrLf
    <3>2. r.skip /\ base + 0 + 1 = base + 1
      BY <2>6, <2>9
    <3>3. LoopAt(t, o, r, base, bytes, 0, isEof)
      BY <2>3, <2>6, <2>8, <3>1, <3>2 DEF LoopAt
    <3> QED BY <1>3, <2>6, <2>8, <3>3
  <2>10. CASE ~lf
    <3>1. ~(base < Len(t) /\ t[base] = CR /\ t[base + 1] = LF)
      BY <2>3, <2>10
    <3>2. Scan(t, o, r, base)
      BY <1>2, <2>4, <2>6, <2>7, <2>10, <3>1, StartAfterLine
    <3>3. ~r.skip /\ base + 0 = base
      BY <2>6, <2>10
    <3>4. LoopAt(t, o, r, base, bytes, 0, isEof)
      BY <2>3, <2>6, <2>8, <3>2, <3>3 DEF LoopAt
    <3> QED BY <1>3, <2>6, <2>8, <3>4
  <2> QED BY <2>9, <2>10
<1> QED BY <1>5, <1>6

\* A waiting quote is settled by the next byte, or by the end of the file.
LEMMA QuoteResolved ==
  ASSUME NEW t \in Seq(Byte), NEW o \in Nat, NEW s \in Scanner,
         NEW base \in Nat, NEW bytes, NEW isEof \in BOOLEAN, NEW r,
         IsSlice(t, base, bytes, isEof), Scan(t, o, s, base), Settled(s), s.pendingQuote,
         r = ResolveQuote(s, bytes, isEof)
  PROVE  r \in Scanner /\ LoopAt(t, o, r, base, bytes, 0, isEof)
<1>1. s.hasRecordStart /\ s.inQuotes /\ ~s.pendingCr
  BY OpenQuote
<1>2. s.span = <<>> /\ ~s.skip
  BY DEF Settled
<1>3. CASE bytes = <<>> /\ ~isEof
  <2>1. r = [s EXCEPT !.pendingQuote = TRUE, !.inQuotes = TRUE]
    BY <1>3 DEF ResolveQuote
  <2>2. s = [s EXCEPT !.pendingQuote = TRUE, !.inQuotes = TRUE]
    <3>1. s.pendingQuote = TRUE /\ s.inQuotes = TRUE
      BY <1>1, ScannerFields
    <3> QED BY <3>1 DEF Scanner
  <2>3. r = s /\ Len(bytes) = 0 /\ base + 0 = base
    BY <1>3, <2>1, <2>2, EmptySeq
  <2>4. LoopAt(t, o, s, base, bytes, 0, isEof)
    BY <1>1, <1>2, <1>3, <2>3 DEF LoopAt
  <2> QED BY <2>3, <2>4
<1>4. CASE bytes # <<>> /\ bytes[1] = Quote
  <2> DEFINE f == EmitFragment(s, <<Quote>>, FALSE)
  <2>1. r = [f EXCEPT !.pendingQuote = FALSE, !.skip = TRUE]
    BY <1>4 DEF ResolveQuote
  <2>2. f \in Scanner /\ Rest(f) = Rest(s) /\ f.fields = s.fields
    <3>1. <<Quote>> \in Seq(Byte)
      BY Distinct
    <3> QED BY <3>1, EmitFragmentDoes
  <2>3. f = EmitFragment(s, <<Quote>>, FALSE)
    OBVIOUS
  <2> HIDE DEF f
  <2>4. /\ r \in Scanner /\ r.skip /\ ~r.pendingQuote /\ SameRecord(f, r)
        /\ r.sawData = f.sawData /\ r.inQuotes = f.inQuotes /\ r.cell = f.cell /\ r.span = f.span
    BY <2>1, <2>2 DEF Scanner, SameRecord
  <2>5. SameRecord(s, f) /\ f.sawData = s.sawData /\ f.inQuotes = s.inQuotes
    BY <2>2, RestSame
  <2>6. SameRecord(s, r)
    BY <2>4, <2>5, SameRecordTrans
  <2>7. r.sawData = s.sawData /\ r.inQuotes = s.inQuotes
    BY <2>4, <2>5
  <2>8. r.inQuotes
    BY <1>1, <2>7
  <2>9. /\ s.col < MaxColumns => r.cell \o r.span = Append(s.cell \o s.span, Quote)
        /\ ~(s.col < MaxColumns) => r.cell = s.cell
    <3>1. Quote \in Byte /\ <<Quote>> \in Seq(Byte) /\ s.cell \in Seq(Byte)
      BY Distinct, ScannerFields
    <3>2. /\ f.span = s.span
          /\ ~(s.col < MaxColumns) => f = s
          /\ s.col < MaxColumns => f.cell = s.cell \o <<Quote>>
      BY <2>3, <3>1, EmitFragmentDoes
    <3>3. (s.cell \o <<Quote>>) \o <<>> = Append(s.cell \o <<>>, Quote)
      BY <3>1, EmptyEnd
    <3> QED BY <1>2, <2>4, <3>2, <3>3
  <2>10. base < Len(t) /\ t[base + 1] = Quote /\ 0 < Len(bytes) /\ base + 0 + 1 = base + 1
    BY <1>4, SliceBegins
  <2>11. Scan(t, o, r, base + 1)
    BY <1>1, <2>4, <2>6, <2>7, <2>8, <2>9, <2>10, QuoteDoubled
  <2>12. ~r.pendingCr /\ r.hasRecordStart
    BY <1>1, <2>6 DEF SameRecord
  <2>13. LoopAt(t, o, r, base, bytes, 0, isEof)
    BY <2>4, <2>10, <2>11, <2>12 DEF LoopAt
  <2> QED BY <2>4, <2>13
<1>5. CASE ~(bytes = <<>> /\ ~isEof) /\ ~(bytes # <<>> /\ bytes[1] = Quote)
  <2>1. r = [s EXCEPT !.pendingQuote = FALSE, !.inQuotes = FALSE]
    BY <1>5 DEF ResolveQuote
  <2>2. /\ r \in Scanner /\ ~r.pendingQuote /\ ~r.inQuotes /\ SameRecord(s, r)
        /\ r.sawData = s.sawData /\ r.cell = s.cell /\ r.span = s.span /\ r.skip = s.skip
    BY <2>1 DEF Scanner, SameRecord
  <2>3. base = Len(t) \/ t[base + 1] # Quote
    BY <1>5, SliceBegins
  <2>4. Scan(t, o, r, base)
    BY <1>1, <2>2, <2>3, QuoteCloses
  <2>5. ~r.pendingCr /\ r.hasRecordStart
    BY <1>1, <2>2 DEF SameRecord
  <2>6. ~r.skip /\ base + 0 = base
    BY <1>2, <2>2
  <2>7. LoopAt(t, o, r, base, bytes, 0, isEof)
    BY <2>2, <2>4, <2>5, <2>6 DEF LoopAt
  <2> QED BY <2>2, <2>7
<1> QED BY <1>3, <1>4, <1>5

\* What the loop begins with.
LEMMA SliceReady ==
  ASSUME NEW t \in Seq(Byte), NEW o \in Nat, NEW s \in Scanner,
         NEW base \in Nat, NEW bytes, NEW isEof \in BOOLEAN, NEW r,
         IsSlice(t, base, bytes, isEof), Scan(t, o, s, base), Settled(s),
         r = ResolveQuote(ResolveCr(s, bytes, base, isEof), bytes, isEof)
  PROVE  r \in Scanner /\ LoopAt(t, o, r, base, bytes, 0, isEof)
<1> DEFINE c == ResolveCr(s, bytes, base, isEof)
<1>1. c = ResolveCr(s, bytes, base, isEof) /\ r = ResolveQuote(c, bytes, isEof)
  OBVIOUS
<1> HIDE DEF c
<1>2. CASE s.pendingCr
  <2>1. c \in Scanner /\ LoopAt(t, o, c, base, bytes, 0, isEof) /\ ~c.pendingQuote
    BY <1>1, <1>2, CrResolved
  <2>2. r = c
    BY <1>1, <2>1 DEF ResolveQuote
  <2> QED BY <2>1, <2>2
<1>3. CASE ~s.pendingCr /\ s.pendingQuote
  <2>1. c = s
    BY <1>1, <1>3 DEF ResolveCr
  <2> QED BY <1>1, <1>3, <2>1, QuoteResolved
<1>4. CASE ~s.pendingCr /\ ~s.pendingQuote
  <2>1. c = s
    BY <1>1, <1>4 DEF ResolveCr
  <2>2. r = s
    BY <1>1, <1>4, <2>1 DEF ResolveQuote
  <2>3. ~s.skip /\ base + 0 = base
    BY DEF Settled
  <2>4. ~s.hasRecordStart => Len(bytes) = 0
    <3>1. SUFFICES ASSUME ~s.hasRecordStart PROVE Len(bytes) = 0
      OBVIOUS
    <3>2. base = Len(t)
      BY <1>4, <3>1, BetweenDone
    <3> QED BY <3>2, SliceBegins
  <2>5. LoopAt(t, o, s, base, bytes, 0, isEof)
    BY <1>4, <2>3, <2>4 DEF LoopAt
  <2> QED BY <2>2, <2>5
<1> QED BY <1>2, <1>3, <1>4

\* Emitting the span at the end of a slice changes nothing that is collected.
SpanLeaves(t, o, s, e, q) == e \in Scanner /\ Scan(t, o, e, q) /\ Rest(e) = Rest(s) /\ e.span = <<>>

LEMMA SpanKept ==
  ASSUME NEW t \in Seq(Byte), NEW o \in Nat, NEW q \in Nat, NEW s \in Scanner, Scan(t, o, s, q)
  PROVE  SpanLeaves(t, o, s, EmitSpan(s, FALSE), q)
<1> DEFINE e == EmitSpan(s, FALSE)
<1> SUFFICES e \in Scanner /\ Scan(t, o, e, q) /\ Rest(e) = Rest(s) /\ e.span = <<>>
  BY DEF SpanLeaves
<1>1. /\ e \in Scanner /\ Rest(e) = Rest(s) /\ e.span = <<>> /\ e.fields = s.fields
      /\ s.col < MaxColumns => e.cell = s.cell \o s.span /\ e.cell \o e.span = s.cell \o s.span
      /\ ~(s.col < MaxColumns) => e.cell = s.cell
  BY SpanEmitted
<1> HIDE DEF e
<1>2. /\ SameRecord(s, e) /\ e.sawData = s.sawData /\ e.inQuotes = s.inQuotes
      /\ e.pendingQuote = s.pendingQuote
  BY <1>1, RestSame
<1>3. Quoting(t, e, q)
  BY <1>2 DEF Scan, Quoting
<1>4. CASE s.hasRecordStart
  <2>1. Open(t, o, s, q)
    BY <1>4 DEF Scan
  <2>2. FieldsSoFar(t, e, q)
    BY <1>1, <1>2, <2>1 DEF Open, FieldsSoFar, SameRecord
  <2>3. Open(t, o, e, q)
    BY <1>2, <2>1, <2>2 DEF Open, SameRecord
  <2>4. Scan(t, o, e, q)
    BY <1>1, <1>2, <1>3, <1>4, <2>3 DEF Scan, SameRecord
  <2> QED BY <1>1, <2>4
<1>5. CASE ~s.hasRecordStart
  <2>1. Between(t, o, s, q)
    BY <1>5 DEF Scan
  <2>2. s.col = 0 /\ s.cell = <<>> /\ s.span = <<>> /\ s.fields = <<>>
    BY <2>1 DEF Between
  <2>3. s.col < MaxColumns /\ <<>> \o <<>> = <<>>
    BY <2>2, MaxColumnsType
  <2>4. e.cell = <<>> /\ e.fields = <<>> /\ e.col = 0
    BY <1>1, <1>2, <2>2, <2>3 DEF SameRecord
  <2>5. Between(t, o, e, q)
    BY <1>1, <1>2, <2>1, <2>4 DEF Between, SameRecord
  <2>6. Scan(t, o, e, q)
    BY <1>1, <1>2, <1>3, <1>5, <2>5 DEF Scan, SameRecord
  <2> QED BY <1>1, <2>6
<1> QED BY <1>4, <1>5

\* The end of the file: what follows the last line is a record of its own.
LEMMA EndFound ==
  ASSUME NEW t \in Seq(Byte), NEW o \in Nat, NEW s \in Scanner, NEW r,
         Scan(t, o, s, Len(t)), Settled(s), ~s.pendingCr, ~s.pendingQuote,
         r = AtEof(s, Len(t))
  PROVE  Finished(t, o, r) /\ Settled(r)
<1>1. s.bomChecked /\ Found(t, o, s.records) /\ Cardinality(EndsTo(t, o, Len(t))) = Len(s.records)
  BY DEF Scan
<1>2. Len(t) \in Nat /\ s.records \in Seq(Record) /\ s.start \in Nat /\ s.fields \in Seq(Seq(Byte))
  BY ScannerFields
<1>3. s.span = <<>> /\ ~s.skip
  BY DEF Settled
<1>4. CASE s.sawData
  <2> DEFINE e == EmitFragment(s, <<>>, TRUE)
             rs == s.records
  <2>1. s.hasRecordStart
    BY <1>4 DEF Scan, Between
  <2>2. Open(t, o, s, Len(t))
    BY <2>1 DEF Scan
  <2>3. /\ s.start = NextStart(t, o, s.records) /\ EndsTo(t, s.start, Len(t)) = {}
        /\ s.start < Len(t) /\ FieldsSoFar(t, s, Len(t))
    BY <1>4, <2>2 DEF Open
  <2>4. /\ e \in Scanner /\ Rest(e) = Rest(s) /\ e.span = s.span
        /\ ~(s.col < MaxColumns) => e = s
        /\ s.col < MaxColumns => e.fields = Append(s.fields, s.cell \o <<>>)
    BY EmptySeq, EmitFragmentDoes
  <2>5. RecordEnds(e, EndRecord(e, Len(t)), Len(t))
    BY <1>2, <2>4, EndRecordDoes
  <2>6. r = EndRecord(e, Len(t))
    BY <1>4 DEF AtEof
  <2> HIDE DEF e
  <2>7. e.fields = Fields(t, s.start, Len(t))
    <3>1. /\ s.col < MaxColumns => Append(s.fields, s.cell \o s.span) = Fields(t, s.start, Len(t))
          /\ ~(s.col < MaxColumns) => s.fields = Fields(t, s.start, Len(t))
      BY <1>2, <2>3, FieldsSoFarIs
    <3> QED BY <1>3, <2>4, <3>1
  <2>8. /\ e.start = s.start /\ e.records = s.records /\ e.skip = s.skip
        /\ e.pendingCr = s.pendingCr /\ e.pendingQuote = s.pendingQuote /\ e.bomChecked = s.bomChecked
    BY <2>4, SameRest
  <2>9. /\ r \in Scanner
        /\ r.records = Append(rs, [start |-> s.start, end |-> Len(t), fields |-> Fields(t, s.start, Len(t))])
        /\ r.pendingCr = s.pendingCr /\ r.pendingQuote = s.pendingQuote
        /\ r.bomChecked = s.bomChecked /\ r.skip = s.skip /\ r.span = <<>>
    BY <1>3, <2>4, <2>5, <2>6, <2>7, <2>8 DEF RecordEnds
  <2>10. ~r.pendingCr
    BY <2>9
  <2>11. ~r.pendingQuote
    BY <2>9
  <2>12. r.bomChecked
    BY <1>1, <2>9
  <2>13. ~r.skip
    BY <1>3, <2>9
  <2>14. r.records = IF NextStart(t, o, rs) < Len(t)
                     THEN Append(rs, LastRecord(t, NextStart(t, o, rs))) ELSE rs
    BY <2>3, <2>9 DEF LastRecord
  <2>15. EndsTo(t, NextStart(t, o, rs), Len(t)) = {}
    BY <2>3
  <2>16. rs \in Seq(Record) /\ Found(t, o, rs) /\ Cardinality(EndsTo(t, o, Len(t))) = Len(rs)
    BY <1>1, <1>2
  <2> HIDE DEF rs
  <2>17. Finished(t, o, r)
    BY <2>9, <2>10, <2>11, <2>12, <2>14, <2>15, <2>16 DEF Finished
  <2> QED BY <2>9, <2>13, <2>17 DEF Settled
<1>5. CASE ~s.sawData
  <2> DEFINE rs == s.records
  <2>1. ~s.inQuotes
    <3>1. s.hasRecordStart => ~s.inQuotes
      BY <1>5, ScanOpen
    <3>2. ~s.hasRecordStart => ~s.inQuotes
      BY DEF Scan, Between
    <3> QED BY <3>1, <3>2
  <2>2. r = s
    BY <1>5, <2>1 DEF AtEof
  <2>3. NextStart(t, o, rs) = Len(t)
    <3>1. CASE s.hasRecordStart
      <4>1. Open(t, o, s, Len(t))
        BY <3>1 DEF Scan
      <4>2. s.start = NextStart(t, o, rs) /\ s.start <= Len(t) /\ (s.start < Len(t) => s.sawData)
        BY <4>1 DEF Open
      <4> QED BY <1>2, <1>5, <4>2
    <3>2. CASE ~s.hasRecordStart
      <4>1. NextStart(t, o, rs) = AfterEnd(t, Len(t))
        BY <1>2, <3>2, BetweenDone DEF LineDone
      <4> QED BY <1>2, <4>1 DEF AfterEnd, Follows
    <3> QED BY <3>1, <3>2
  <2>4. EndsTo(t, NextStart(t, o, rs), Len(t)) = {}
    BY <1>2, <2>3, EndsToNone
  <2>5. rs \in Seq(Record) /\ Found(t, o, rs) /\ Cardinality(EndsTo(t, o, Len(t))) = Len(rs)
    BY <1>1, <1>2
  <2>6. ~(NextStart(t, o, rs) < Len(t))
    BY <1>2, <2>3
  <2>7. s.records = IF NextStart(t, o, rs) < Len(t)
                    THEN Append(rs, LastRecord(t, NextStart(t, o, rs))) ELSE rs
    BY <2>6
  <2> HIDE DEF rs
  <2>8. Finished(t, o, s)
    BY <1>1, <2>4, <2>5, <2>7 DEF Finished
  <2> QED BY <2>2, <2>8
<1> QED BY <1>4, <1>5

\* A slice read from where the one before ended.
LEMMA FeedRestDoes ==
  ASSUME NEW t \in Seq(Byte), NEW o \in Nat, NEW s \in Scanner,
         NEW base \in Nat, NEW bytes, NEW isEof \in BOOLEAN, NEW r,
         IsSlice(t, base, bytes, isEof), Scan(t, o, s, base), Settled(s),
         r = FeedRest(s, bytes, base, isEof)
  PROVE  /\ Settled(r)
         /\ ~isEof => Scan(t, o, r, base + Len(bytes))
         /\ isEof => Finished(t, o, r)
<1> DEFINE ready == ResolveQuote(ResolveCr(s, bytes, base, isEof), bytes, isEof)
           last == ReadBytes(ready, bytes, base, isEof)
           read == EmitSpan(last, FALSE)
<1>1. ~(~s.hasRecordStart /\ s.records = <<>>)
  BY DEF Scan, Between
<1>2. r = IF isEof THEN AtEof(read, base + Len(bytes)) ELSE read
  BY <1>1 DEF FeedRest
<1>3. ready \in Scanner /\ LoopAt(t, o, ready, base, bytes, 0, isEof)
  BY SliceReady
<1> HIDE DEF ready
<1>4. last \in Scanner /\ LoopAt(t, o, last, base, bytes, Len(bytes), isEof)
  BY <1>3, LoopEnds
<1> HIDE DEF last
<1>5. Len(bytes) \in Nat /\ base + Len(bytes) \in Nat
  BY SliceBegins
<1>6. ~last.skip /\ Scan(t, o, last, base + Len(bytes))
  BY <1>4, <1>5 DEF LoopAt
<1>7. isEof => ~last.pendingCr /\ ~last.pendingQuote /\ base + Len(bytes) = Len(t)
  BY <1>4 DEF LoopAt, IsSlice
<1> DEFINE q == base + Len(bytes)
<1>8. read \in Scanner /\ Scan(t, o, read, q) /\ Rest(read) = Rest(last) /\ read.span = <<>>
  <2>1. q \in Nat /\ Scan(t, o, last, q) /\ last \in Scanner
    BY <1>4, <1>5, <1>6
  <2> HIDE DEF q
  <2>2. SpanLeaves(t, o, last, EmitSpan(last, FALSE), q)
    BY <2>1, SpanKept
  <2> QED BY <2>2 DEF SpanLeaves
<1> HIDE DEF read
<1>9. read.skip = last.skip /\ read.pendingCr = last.pendingCr /\ read.pendingQuote = last.pendingQuote
  BY <1>8, SameRest
<1>10. Settled(read)
  <2>1. ~read.skip
    BY <1>6, <1>9
  <2> QED BY <1>8, <2>1 DEF Settled
<1>11. CASE ~isEof
  <2>1. r = read
    BY <1>2, <1>11
  <2> QED BY <1>8, <1>10, <1>11, <2>1
<1>12. CASE isEof
  <2>1. q = Len(t) /\ r = AtEof(read, Len(t))
    BY <1>2, <1>7, <1>12
  <2>2. Scan(t, o, read, Len(t))
    BY <1>8, <2>1
  <2>3. ~read.pendingCr
    BY <1>7, <1>9, <1>12
  <2>4. ~read.pendingQuote
    BY <1>7, <1>9, <1>12
  <2>5. Finished(t, o, r) /\ Settled(r)
    BY <1>8, <1>10, <2>1, <2>2, <2>3, <2>4, EndFound
  <2> QED BY <1>12, <2>5
<1> QED BY <1>11, <1>12

-----------------------------------------------------------------------------
(* Parts of a file.                                                        *)

LEMMA PartIs ==
  ASSUME NEW t \in Seq(Byte), NEW a \in Nat, NEW b \in Nat, a <= b, b <= Len(t)
  PROVE  /\ SubSeq(t, a + 1, b) \in Seq(Byte) /\ Len(SubSeq(t, a + 1, b)) = b - a
         /\ \A i \in 1..(b - a) : SubSeq(t, a + 1, b)[i] = t[a + i]
<1>1. \A i \in (a + 1)..b : t[i] \in Byte
  OBVIOUS
<1>2. a + 1 \in Int /\ b \in Int
  OBVIOUS
<1>3. /\ SubSeq(t, a + 1, b) \in Seq(Byte)
      /\ Len(SubSeq(t, a + 1, b)) = IF a + 1 <= b THEN b - (a + 1) + 1 ELSE 0
      /\ \A i \in 1..(b - (a + 1) + 1) : SubSeq(t, a + 1, b)[i] = t[(a + 1) + i - 1]
  BY <1>1, <1>2, SubSeqProperties
<1>4. b - (a + 1) + 1 = b - a
  OBVIOUS
<1>5. \A i \in 1..(b - a) : (a + 1) + i - 1 = a + i
  OBVIOUS
<1>6. (IF a + 1 <= b THEN b - (a + 1) + 1 ELSE 0) = b - a
  OBVIOUS
<1> QED BY <1>3, <1>4, <1>5, <1>6

LEMMA PartIsSlice ==
  ASSUME NEW t \in Seq(Byte), NEW a \in Nat, NEW b \in Nat, NEW isEof \in BOOLEAN,
         a <= b, b <= Len(t), isEof => b = Len(t)
  PROVE  /\ IsSlice(t, a, SubSeq(t, a + 1, b), isEof) /\ Len(SubSeq(t, a + 1, b)) = b - a
<1>1. /\ SubSeq(t, a + 1, b) \in Seq(Byte) /\ Len(SubSeq(t, a + 1, b)) = b - a
      /\ \A i \in 1..(b - a) : SubSeq(t, a + 1, b)[i] = t[a + i]
  BY PartIs
<1>2. a + (b - a) = b
  OBVIOUS
<1> QED BY <1>1, <1>2 DEF IsSlice

LEMMA SliceAfter ==
  ASSUME NEW t \in Seq(Byte), NEW base \in Nat, NEW bytes, NEW isEof \in BOOLEAN,
         NEW k \in 0..Len(bytes), IsSlice(t, base, bytes, isEof)
  PROVE  /\ IsSlice(t, base + k, After(bytes, k), isEof) /\ Len(After(bytes, k)) = Len(bytes) - k
<1>1. /\ bytes \in Seq(Byte) /\ Len(bytes) \in Nat /\ base + Len(bytes) <= Len(t)
      /\ \A i \in 1..Len(bytes) : bytes[i] = t[base + i]
      /\ isEof => base + Len(bytes) = Len(t)
  BY DEF IsSlice
<1> DEFINE n == Len(bytes)
           r == After(bytes, k)
<1>2. r \in Seq(Byte) /\ Len(r) = n - k /\ \A i \in 1..(n - k) : r[i] = bytes[k + i]
  BY <1>1, PartIs DEF After
<1>3. \A i \in 1..(n - k) : k + i \in 1..n /\ base + (k + i) = (base + k) + i
  BY <1>1
<1> HIDE DEF r
<1>4. \A i \in 1..(n - k) : r[i] = t[(base + k) + i]
  BY <1>1, <1>2, <1>3
<1>5. (base + k) + (n - k) = base + n
  BY <1>1
<1>6. IsSlice(t, base + k, r, isEof)
  BY <1>1, <1>2, <1>4, <1>5 DEF IsSlice
<1> QED BY <1>2, <1>6 DEF r

Before(bytes, n) == SubSeq(bytes, 1, n)

\* bytes is some part of t behind base.
IsPart(t, base, bytes) == IsSlice(t, base, bytes, FALSE)

LEMMA SliceFirst ==
  ASSUME NEW t \in Seq(Byte), NEW base \in Nat, NEW bytes,
         NEW k \in 0..Len(bytes), IsPart(t, base, bytes)
  PROVE  /\ IsPart(t, base, Before(bytes, k)) /\ Len(Before(bytes, k)) = k
<1>1. /\ bytes \in Seq(Byte) /\ Len(bytes) \in Nat /\ base + Len(bytes) <= Len(t)
      /\ \A i \in 1..Len(bytes) : bytes[i] = t[base + i]
  BY DEF IsSlice, IsPart
<1> DEFINE r == SubSeq(bytes, 0 + 1, k)
<1>2. r \in Seq(Byte) /\ Len(r) = k - 0 /\ \A i \in 1..(k - 0) : r[i] = bytes[0 + i]
  BY <1>1, PartIs
<1>3. k - 0 = k /\ r = SubSeq(bytes, 1, k) /\ k \in Nat /\ base + k <= Len(t)
  BY <1>1
<1> HIDE DEF r
<1>4. \A i \in 1..k : r[i] = t[base + i]
  BY <1>1, <1>2, <1>3
<1>5. IsSlice(t, base, r, FALSE)
  BY <1>2, <1>3, <1>4 DEF IsSlice
<1> QED BY <1>2, <1>3, <1>5 DEF Before, IsPart

LEMMA SliceJoin ==
  ASSUME NEW t \in Seq(Byte), NEW a, NEW b, NEW isEof \in BOOLEAN,
         IsPart(t, 0, a), IsSlice(t, Len(a), b, isEof)
  PROVE  /\ IsSlice(t, 0, a \o b, isEof) /\ Len(a \o b) = Len(a) + Len(b)
<1>1. /\ a \in Seq(Byte) /\ Len(a) \in Nat /\ b \in Seq(Byte) /\ Len(b) \in Nat
      /\ Len(a) + Len(b) <= Len(t) /\ (isEof => Len(a) + Len(b) = Len(t))
      /\ \A i \in 1..Len(a) : a[i] = t[0 + i]
      /\ \A i \in 1..Len(b) : b[i] = t[Len(a) + i]
  BY DEF IsSlice, IsPart
<1> DEFINE r == a \o b
<1>2. /\ r \in Seq(Byte) /\ Len(r) = Len(a) + Len(b)
      /\ \A i \in 1..(Len(a) + Len(b)) : r[i] = IF i <= Len(a) THEN a[i] ELSE b[i - Len(a)]
  BY <1>1, ConcatProperties
<1> HIDE DEF r
<1>3. ASSUME NEW i \in 1..(Len(a) + Len(b))
      PROVE  r[i] = t[0 + i]
  <2>1. CASE i <= Len(a)
    <3>1. i \in 1..Len(a)
      BY <2>1
    <3> QED BY <1>1, <1>2, <2>1, <3>1
  <2>2. CASE ~(i <= Len(a))
    <3>1. i - Len(a) \in 1..Len(b) /\ Len(a) + (i - Len(a)) = 0 + i
      BY <1>1, <2>2
    <3>2. b[i - Len(a)] = t[Len(a) + (i - Len(a))]
      BY <1>1, <3>1
    <3> QED BY <1>2, <2>2, <3>1, <3>2
  <2> QED BY <2>1, <2>2
<1>4. 0 + (Len(a) + Len(b)) = Len(a) + Len(b)
  BY <1>1
<1>5. IsSlice(t, 0, r, isEof)
  BY <1>1, <1>2, <1>3, <1>4 DEF IsSlice
<1> QED BY <1>2, <1>5 DEF r

LEMMA PartJoin ==
  ASSUME NEW t \in Seq(Byte), NEW a, NEW b, IsPart(t, 0, a), IsPart(t, Len(a), b)
  PROVE  IsPart(t, 0, a \o b) /\ Len(a \o b) = Len(a) + Len(b)
<1> DEFINE isEof == FALSE
<1>1. isEof \in BOOLEAN /\ IsSlice(t, Len(a), b, isEof)
  BY DEF IsPart
<1>2. IsSlice(t, 0, a \o b, isEof) => IsPart(t, 0, a \o b)
  BY DEF IsPart
<1> HIDE DEF isEof
<1> QED BY <1>1, <1>2, SliceJoin

LEMMA SliceIsPart ==
  ASSUME NEW t \in Seq(Byte), NEW a, NEW isEof \in BOOLEAN, IsSlice(t, 0, a, isEof)
  PROVE  a = SubSeq(t, 1, Len(a))
<1> DEFINE n == Len(a)
           r == SubSeq(t, 0 + 1, n)
<1>1. a \in Seq(Byte) /\ n \in Nat /\ 0 <= n /\ n <= Len(t) /\ \A i \in 1..n : a[i] = t[0 + i]
  BY DEF IsSlice
<1>2. r \in Seq(Byte) /\ Len(r) = n - 0 /\ \A i \in 1..(n - 0) : r[i] = t[0 + i]
  BY <1>1, PartIs
<1>3. n - 0 = n /\ r = SubSeq(t, 1, n)
  BY <1>1
<1> HIDE DEF r
<1>4. \A i \in 1..n : a[i] = r[i]
  BY <1>1, <1>2, <1>3
<1>5. Len(a) = Len(r)
  BY <1>2, <1>3
<1>6. a = r
  BY <1>1, <1>2, <1>4, <1>5, SeqEqual
<1> QED BY <1>3, <1>6

LEMMA PrefixIs ==
  ASSUME NEW a \in Seq(Byte), NEW b \in Seq(Byte)
  PROVE  IsPrefix(a, b) <=> Len(a) <= Len(b) /\ \A i \in 1..Len(a) : a[i] = b[i]
<1> DEFINE n == Len(a)
           x == SubSeq(a, 0 + 1, n)
           y == SubSeq(b, 0 + 1, n)
<1>1. n \in Nat /\ x = SubSeq(a, 1, n) /\ y = SubSeq(b, 1, n) /\ n - 0 = n
  OBVIOUS
<1>2. IsPrefix(a, b) <=> n <= Len(b) /\ x = y
  BY <1>1 DEF IsPrefix
<1>3. SUFFICES ASSUME n <= Len(b)
               PROVE  x = y <=> \A i \in 1..n : a[i] = b[i]
  BY <1>2
<1>4. x \in Seq(Byte) /\ Len(x) = n /\ \A i \in 1..n : x[i] = a[0 + i]
  BY <1>1, PartIs
<1>5. y \in Seq(Byte) /\ Len(y) = n /\ \A i \in 1..n : y[i] = b[0 + i]
  BY <1>1, <1>3, PartIs
<1>6. \A i \in 1..n : 0 + i = i
  OBVIOUS
<1> HIDE DEF x, y
<1>7. (\A i \in 1..n : x[i] = y[i]) => x = y
  BY <1>4, <1>5, SeqEqual
<1> QED BY <1>4, <1>5, <1>6, <1>7

LEMMA BomType ==
  /\ Bom \in Seq(Byte) /\ Len(Bom) = 3
  /\ \A i \in 1..3 : Bom[i] \notin {Quote, Delimiter, CR, LF}
<1>1. Bom \in Seq(Byte \ {Quote, Delimiter, CR, LF}) /\ Len(Bom) = 3
  BY ScannerAssumption
<1>2. \A i \in 1..3 : Bom[i] \in Byte \ {Quote, Delimiter, CR, LF}
  <2> DEFINE B == Byte \ {Quote, Delimiter, CR, LF}
  <2>1. Bom \in Seq(B) /\ Len(Bom) = 3
    BY <1>1
  <2> HIDE DEF B
  <2>2. \A i \in 1..3 : Bom[i] \in B
    BY <2>1
  <2> QED BY <2>2 DEF B
<1>3. Bom \in Seq(Byte)
  BY <1>1
<1> QED BY <1>1, <1>2, <1>3

\* Three bytes, or the end of the file, decide whether there is a mark.
LEMMA BomDecided ==
  ASSUME NEW t \in Seq(Byte), NEW held, NEW isEof \in BOOLEAN,
         IsSlice(t, 0, held, isEof), ~(Len(held) < 3 /\ ~isEof)
  PROVE  IsPrefix(Bom, held) <=> IsPrefix(Bom, t)
<1>1. /\ held \in Seq(Byte) /\ Len(held) \in Nat /\ Len(held) <= Len(t)
      /\ \A i \in 1..Len(held) : held[i] = t[0 + i]
      /\ isEof => Len(held) = Len(t)
  BY DEF IsSlice
<1>2. IsPrefix(Bom, held) <=> 3 <= Len(held) /\ \A i \in 1..3 : Bom[i] = held[i]
  <2>1. Bom \in Seq(Byte) /\ Len(Bom) = 3 /\ held \in Seq(Byte)
    BY <1>1, BomType
  <2>2. IsPrefix(Bom, held) <=> Len(Bom) <= Len(held) /\ \A i \in 1..Len(Bom) : Bom[i] = held[i]
    BY <2>1, PrefixIs
  <2> QED BY <2>1, <2>2
<1>3. IsPrefix(Bom, t) <=> 3 <= Len(t) /\ \A i \in 1..3 : Bom[i] = t[i]
  BY BomType, PrefixIs
<1>4. 3 <= Len(held) => \A i \in 1..3 : held[i] = t[i]
  BY <1>1
<1>5. 3 <= Len(held) <=> 3 <= Len(t)
  BY <1>1
<1> QED BY <1>2, <1>3, <1>4, <1>5

-----------------------------------------------------------------------------
(* Feeding a slice.                                                        *)

\* What is read up to q, from o.
Fed(t, o, r, q, isEof) ==
    /\ Settled(r)
    /\ ~isEof => Scan(t, o, r, q)
    /\ isEof => Finished(t, o, r)

LEMMA FeedRestFeeds ==
  ASSUME NEW t \in Seq(Byte), NEW o \in Nat, NEW s \in Scanner,
         NEW base \in Nat, NEW bytes, NEW isEof \in BOOLEAN, NEW q,
         IsSlice(t, base, bytes, isEof), Scan(t, o, s, base), Settled(s), q = base + Len(bytes)
  PROVE  Fed(t, o, FeedRest(s, bytes, base, isEof), q, isEof)
<1> DEFINE r == FeedRest(s, bytes, base, isEof)
<1>1. r = FeedRest(s, bytes, base, isEof)
  OBVIOUS
<1> HIDE DEF r
<1>2. /\ Settled(r)
      /\ ~isEof => Scan(t, o, r, base + Len(bytes))
      /\ isEof => Finished(t, o, r)
  BY <1>1, FeedRestDoes
<1> QED BY <1>1, <1>2 DEF Fed

FeedPart(s, bytes, base) == FeedRest(s, bytes, base, FALSE)

LEMMA FeedPartFeeds ==
  ASSUME NEW t \in Seq(Byte), NEW o \in Nat, NEW s \in Scanner,
         NEW base \in Nat, NEW bytes, NEW q,
         IsPart(t, base, bytes), Scan(t, o, s, base), Settled(s), q = base + Len(bytes)
  PROVE  Scan(t, o, FeedPart(s, bytes, base), q) /\ Settled(FeedPart(s, bytes, base))
<1> DEFINE isEof == FALSE
           r == FeedRest(s, bytes, base, isEof)
<1>1. isEof \in BOOLEAN /\ IsSlice(t, base, bytes, isEof)
  BY DEF IsPart
<1>2. FeedPart(s, bytes, base) = r /\ ~isEof
  BY DEF FeedPart
<1> HIDE DEF isEof
<1>3. Fed(t, o, r, q, isEof)
  BY <1>1, FeedRestFeeds
<1> HIDE DEF r
<1> QED BY <1>2, <1>3 DEF Fed

\* Where a scanner may begin: between two records.
GoodOrigin(t, o) ==
    /\ o \in Nat /\ o <= Len(t)
    /\ ~Quoted(t, o + 1)
    /\ o < Len(t) /\ t[o + 1] = Quote => ~Literal(t, o + 1)
    /\ ~SplitsCrLf(t, o)

LEMMA OriginScan ==
  ASSUME NEW t \in Seq(Byte), NEW o, NEW b \in Seq(Byte), NEW s,
         GoodOrigin(t, o), s = [Reset EXCEPT !.bomBuffer = b]
  PROVE  Checked(s, o) \in Scanner /\ Scan(t, o, Checked(s, o), o) /\ Settled(Checked(s, o))
<1>1. o \in Nat /\ o <= Len(t)
  BY DEF GoodOrigin
<1> DEFINE r == Checked(s, o)
<1>2. r = [inQuotes |-> FALSE, pendingQuote |-> FALSE, pendingCr |-> FALSE,
           bomChecked |-> TRUE, bomBuffer |-> <<>>, start |-> o,
           hasRecordStart |-> TRUE, sawData |-> FALSE, col |-> 0,
           span |-> <<>>, skip |-> FALSE,
           cell |-> <<>>, fields |-> <<>>, records |-> <<>>]
  <2> DEFINE u == StartRecord(s, o)
  <2>1. s = [inQuotes |-> FALSE, pendingQuote |-> FALSE, pendingCr |-> FALSE,
             bomChecked |-> FALSE, bomBuffer |-> b, start |-> 0,
             hasRecordStart |-> FALSE, sawData |-> FALSE, col |-> 0,
             span |-> <<>>, skip |-> FALSE,
             cell |-> <<>>, fields |-> <<>>, records |-> <<>>]
    BY DEF Reset
  <2>2. u = [inQuotes |-> FALSE, pendingQuote |-> FALSE, pendingCr |-> FALSE,
             bomChecked |-> FALSE, bomBuffer |-> b, start |-> o,
             hasRecordStart |-> TRUE, sawData |-> FALSE, col |-> 0,
             span |-> <<>>, skip |-> FALSE,
             cell |-> <<>>, fields |-> <<>>, records |-> <<>>]
    <3>1. u = [s EXCEPT !.start = o, !.hasRecordStart = TRUE]
      BY DEF StartRecord
    <3> DEFINE v == [inQuotes |-> FALSE, pendingQuote |-> FALSE, pendingCr |-> FALSE,
                     bomChecked |-> FALSE, bomBuffer |-> b, start |-> 0,
                     hasRecordStart |-> FALSE, sawData |-> FALSE, col |-> 0,
                     span |-> <<>>, skip |-> FALSE,
                     cell |-> <<>>, fields |-> <<>>, records |-> <<>>]
    <3>2. u = [v EXCEPT !.start = o, !.hasRecordStart = TRUE]
      BY <2>1, <3>1
    <3> HIDE DEF u
    <3> QED BY ONLY <3>2
  <2>3. r = [u EXCEPT !.bomChecked = TRUE, !.bomBuffer = <<>>]
    BY DEF Checked
  <2> HIDE DEF u, r
  <2> QED BY <2>2, <2>3
<1> HIDE DEF r
<1>3. <<>> \in Seq(Byte) /\ <<>> \in Seq(Seq(Byte)) /\ <<>> \in Seq(Record) /\ 0 \in Nat
  BY EmptySeq
<1>4. r \in Scanner
  BY <1>1, <1>2, <1>3 DEF Scanner
<1>5. /\ r.bomChecked /\ r.hasRecordStart /\ ~r.pendingCr /\ r.start = o /\ ~r.sawData /\ ~r.inQuotes
      /\ ~r.pendingQuote /\ ~r.skip
      /\ r.col = 0 /\ r.fields = <<>> /\ r.cell = <<>> /\ r.span = <<>> /\ r.records = <<>>
  BY <1>2
<1>6. r.inQuotes = FALSE /\ r.pendingQuote = FALSE
  BY <1>2
<1>7. Quoting(t, r, o)
  BY <1>6 DEF Quoting, GoodOrigin
<1>8. Found(t, o, r.records) /\ NextStart(t, o, r.records) = o /\ Len(r.records) = 0
  BY <1>5 DEF Found, NextStart
<1>9. Cardinality(EndsTo(t, o, o)) = Len(r.records)
  BY <1>1, <1>8, EndsToNone
<1>10. ~SplitsCrLf(t, o) /\ o <= o
  BY <1>1 DEF GoodOrigin
<1>11. Scan(t, o, r, o)
  BY <1>1, <1>4, <1>5, <1>7, <1>8, <1>9, <1>10, OpenFresh
<1> QED BY <1>4, <1>5, <1>11 DEF Settled, r

LEMMA StartOrigin ==
  ASSUME NEW t \in Seq(Byte)
  PROVE  GoodOrigin(t, 0)
<1>1. ~Quoted(t, 1) /\ ~Literal(t, 1) /\ 0 + 1 = 1 /\ 0 <= Len(t)
  BY QuotedFirst DEF Literal
<1> QED BY <1>1 DEF GoodOrigin, SplitsCrLf

LEMMA BomOrigin ==
  ASSUME NEW t \in Seq(Byte), IsPrefix(Bom, t)
  PROVE  GoodOrigin(t, 3)
<1>1. 3 <= Len(t) /\ \A i \in 1..3 : Bom[i] = t[i]
  <2>1. Bom \in Seq(Byte) /\ Len(Bom) = 3
    BY BomType
  <2>2. Len(Bom) <= Len(t) /\ \A i \in 1..Len(Bom) : Bom[i] = t[i]
    BY <2>1, PrefixIs
  <2> QED BY <2>1, <2>2
<1>2. t[1] # Quote /\ t[2] # Quote /\ t[3] # Quote /\ t[3] # CR
  BY <1>1, BomType
<1>3. ~Quoted(t, 1 + 1)
  BY <1>2, QuotedFirst, QuotedNext
<1>4. ~Quoted(t, 2 + 1)
  BY <1>2, <1>3, QuotedNext
<1>5. ~Quoted(t, 3 + 1)
  BY <1>2, <1>4, QuotedNext
<1>6. ~Literal(t, 3 + 1)
  BY <1>2 DEF Literal
<1>7. ~SplitsCrLf(t, 3)
  BY <1>2 DEF SplitsCrLf
<1> QED BY <1>1, <1>5, <1>6, <1>7 DEF GoodOrigin

LEMMA FileOrigin ==
  ASSUME NEW t \in Seq(Byte)
  PROVE  BomLength(t) \in Nat /\ GoodOrigin(t, BomLength(t))
BY StartOrigin, BomOrigin DEF BomLength

\* What Feed reads before it knows of a mark.
WithBuffer(s, b) == [s EXCEPT !.bomBuffer = b]
Held(s, chunk) == s.bomBuffer \o chunk
Taken(s, chunk) == IF Len(Held(s, chunk)) < 3 THEN Len(chunk) ELSE 3 - Len(s.bomBuffer)
Buffered(s, chunk) == s.bomBuffer \o Before(chunk, Taken(s, chunk))
Undecided(s, chunk, isEof) == Len(Held(s, chunk)) < 3 /\ ~isEof
Untouched(s, chunk) == s.bomBuffer = <<>> /\ Len(chunk) >= 3
FeedBuffered(s, chunk) ==
    IF Buffered(s, chunk) = <<>> THEN Checked(s, 0)
    ELSE FeedPart(Checked(s, 0), Buffered(s, chunk), 0)

LEMMA FeedIs ==
  ASSUME NEW s, NEW chunk, NEW isEof \in BOOLEAN, NEW base \in Nat,
         ~s.bomChecked, ~(s.bomBuffer = <<>> /\ base > 0)
  PROVE  LET taken == Taken(s, chunk)
         IN  /\ Undecided(s, chunk, isEof) =>
                  Feed(s, chunk, base, isEof) = WithBuffer(s, Held(s, chunk))
             /\ ~Undecided(s, chunk, isEof) /\ IsPrefix(Bom, Held(s, chunk)) =>
                  Feed(s, chunk, base, isEof) =
                    FeedRest(Checked(s, 3), After(chunk, taken), base + taken, isEof)
             /\ ~Undecided(s, chunk, isEof) /\ ~IsPrefix(Bom, Held(s, chunk)) /\ Untouched(s, chunk) =>
                  Feed(s, chunk, base, isEof) = FeedRest(Checked(s, 0), chunk, base, isEof)
             /\ ~Undecided(s, chunk, isEof) /\ ~IsPrefix(Bom, Held(s, chunk)) /\ ~Untouched(s, chunk) =>
                  Feed(s, chunk, base, isEof) =
                    FeedRest(FeedBuffered(s, chunk), After(chunk, taken), base + taken, isEof)
BY DEF Feed, Before, FeedPart, FeedBuffered, Untouched, Undecided, Buffered, Taken, Held, WithBuffer

\* The first bytes of a file.
LEMMA FeedBegins ==
  ASSUME NEW t \in Seq(Byte), NEW b, NEW chunk, NEW isEof \in BOOLEAN, NEW s, NEW r, NEW q,
         IsPart(t, 0, b), IsSlice(t, Len(b), chunk, isEof), Len(b) < 3,
         s = [Reset EXCEPT !.bomBuffer = b], r = Feed(s, chunk, Len(b), isEof),
         q = Len(b) + Len(chunk)
  PROVE  \/ ~isEof /\ q < 3 /\ r = [Reset EXCEPT !.bomBuffer = SubSeq(t, 1, q)]
         \/ Fed(t, BomLength(t), r, q, isEof)
<1> DEFINE held == Held(s, chunk)
           taken == Taken(s, chunk)
           m == Len(b) + taken
           rest == After(chunk, taken)
           buffer == Buffered(s, chunk)
<1>1. b \in Seq(Byte) /\ Len(b) \in Nat /\ chunk \in Seq(Byte) /\ Len(chunk) \in Nat
  BY DEF IsSlice, IsPart
<1>3. ~s.bomChecked /\ s.bomBuffer = b
  BY DEF Reset
<1>2. IsSlice(t, 0, held, isEof) /\ Len(held) = q
  <2>1. IsSlice(t, 0, b \o chunk, isEof) /\ Len(b \o chunk) = Len(b) + Len(chunk)
    BY SliceJoin
  <2> QED BY <1>3, <2>1 DEF Held
<1>4. ~(s.bomBuffer = <<>> /\ Len(b) > 0)
  BY <1>3, EmptySeq
<1>5. /\ Undecided(s, chunk, isEof) =>
           Feed(s, chunk, Len(b), isEof) = WithBuffer(s, Held(s, chunk))
      /\ ~Undecided(s, chunk, isEof) /\ IsPrefix(Bom, Held(s, chunk)) =>
           Feed(s, chunk, Len(b), isEof) =
             FeedRest(Checked(s, 3), After(chunk, Taken(s, chunk)), Len(b) + Taken(s, chunk), isEof)
      /\ ~Undecided(s, chunk, isEof) /\ ~IsPrefix(Bom, Held(s, chunk)) /\ Untouched(s, chunk) =>
           Feed(s, chunk, Len(b), isEof) = FeedRest(Checked(s, 0), chunk, Len(b), isEof)
      /\ ~Undecided(s, chunk, isEof) /\ ~IsPrefix(Bom, Held(s, chunk)) /\ ~Untouched(s, chunk) =>
           Feed(s, chunk, Len(b), isEof) =
             FeedRest(FeedBuffered(s, chunk), After(chunk, Taken(s, chunk)), Len(b) + Taken(s, chunk), isEof)
  BY <1>1, <1>3, <1>4, FeedIs
<1>15. /\ Undecided(s, chunk, isEof) <=> Len(held) < 3 /\ ~isEof
       /\ Untouched(s, chunk) <=> b = <<>> /\ Len(chunk) >= 3
       /\ taken = IF Len(held) < 3 THEN Len(chunk) ELSE 3 - Len(b)
       /\ buffer = b \o Before(chunk, taken)
  BY <1>3 DEF Undecided, Untouched, Taken, Buffered
<1>6. taken \in 0..Len(chunk) /\ taken \in Nat /\ m \in Nat /\ (Len(held) >= 3 => m = 3)
  <2> HIDE DEF held, taken
  <2> QED BY <1>1, <1>2, <1>15
<1> HIDE DEF held, taken
<1>7. /\ IsSlice(t, m, rest, isEof) /\ Len(rest) = Len(chunk) - taken
      /\ IsPart(t, Len(b), Before(chunk, taken)) /\ Len(Before(chunk, taken)) = taken
  <2>1. IsSlice(t, m, rest, isEof) /\ Len(rest) = Len(chunk) - taken
    BY <1>1, <1>6, SliceAfter
  <2>2. IsPart(t, Len(b), Before(chunk, taken)) /\ Len(Before(chunk, taken)) = taken
    <3> DEFINE base == Len(b)
    <3>1. base \in Nat /\ IsPart(t, base, chunk) /\ taken \in 0..Len(chunk)
      BY <1>1, <1>6 DEF IsSlice, IsPart
    <3> HIDE DEF base
    <3>2. IsPart(t, base, Before(chunk, taken)) /\ Len(Before(chunk, taken)) = taken
      BY <3>1, SliceFirst
    <3> QED BY <3>2 DEF base
  <2> QED BY <2>1, <2>2
<1>8. IsPart(t, 0, buffer) /\ Len(buffer) = m
  <2> DEFINE x == Before(chunk, taken)
  <2>1. IsPart(t, Len(b), x) /\ Len(x) = taken /\ buffer = b \o x
    BY <1>7, <1>15
  <2> HIDE DEF x
  <2>2. /\ IsPart(t, 0, b \o x) /\ Len(b \o x) = Len(b) + Len(x)
    BY <2>1, PartJoin
  <2> QED BY <2>1, <2>2
<1>9. q = m + Len(rest)
  BY <1>1, <1>6, <1>7
<1>16. /\ Len(held) < 3 /\ ~isEof => r = WithBuffer(s, held)
       /\ ~(Len(held) < 3 /\ ~isEof) /\ IsPrefix(Bom, held) =>
            r = FeedRest(Checked(s, 3), rest, m, isEof)
       /\ ~(Len(held) < 3 /\ ~isEof) /\ ~IsPrefix(Bom, held) /\ b = <<>> /\ Len(chunk) >= 3 =>
            r = FeedRest(Checked(s, 0), chunk, Len(b), isEof)
       /\ ~(Len(held) < 3 /\ ~isEof) /\ ~IsPrefix(Bom, held) /\ ~(b = <<>> /\ Len(chunk) >= 3) =>
            r = FeedRest(FeedBuffered(s, chunk), rest, m, isEof)
  BY <1>5, <1>15 DEF held, taken
<1>17. FeedBuffered(s, chunk) = IF buffer = <<>> THEN Checked(s, 0) ELSE FeedPart(Checked(s, 0), buffer, 0)
  BY DEF FeedBuffered
<1> HIDE DEF m, rest, buffer
<1>10. /\ Checked(s, 0) \in Scanner /\ Scan(t, 0, Checked(s, 0), 0) /\ Settled(Checked(s, 0))
  BY <1>1, StartOrigin, OriginScan
<1>11. CASE Len(held) < 3 /\ ~isEof
  <2>1. r = [Reset EXCEPT !.bomBuffer = held]
    BY <1>16, <1>11 DEF WithBuffer
  <2>2. held = SubSeq(t, 1, q)
    BY <1>2, SliceIsPart
  <2> QED BY <1>2, <1>11, <2>1, <2>2
<1>12. CASE ~(Len(held) < 3 /\ ~isEof) /\ IsPrefix(Bom, held)
  <2>1. IsPrefix(Bom, t)
    BY <1>2, <1>12, BomDecided
  <2>2. BomLength(t) = 3
    BY <2>1 DEF BomLength
  <2>3. m = 3
    <3>1. Len(held) >= 3
      <4>1. Len(Bom) <= Len(held)
        BY <1>12 DEF IsPrefix
      <4> QED BY <1>2, <4>1, BomType
    <3> QED BY <1>6, <3>1
  <2>4. r = FeedRest(Checked(s, 3), rest, 3, isEof)
    BY <1>16, <1>12, <2>3
  <2>5. /\ Checked(s, 3) \in Scanner /\ Scan(t, 3, Checked(s, 3), 3) /\ Settled(Checked(s, 3))
    BY <1>1, <2>1, BomOrigin, OriginScan
  <2>6. IsSlice(t, 3, rest, isEof) /\ q = 3 + Len(rest)
    BY <1>7, <1>9, <2>3
  <2>7. Fed(t, 3, FeedRest(Checked(s, 3), rest, 3, isEof), q, isEof)
    BY <2>5, <2>6, FeedRestFeeds
  <2> QED BY <2>2, <2>4, <2>7
<1>13. CASE ~(Len(held) < 3 /\ ~isEof) /\ ~IsPrefix(Bom, held) /\ b = <<>> /\ Len(chunk) >= 3
  <2>1. ~IsPrefix(Bom, t)
    BY <1>2, <1>13, BomDecided
  <2>2. BomLength(t) = 0 /\ Len(b) = 0
    BY <1>13, <2>1, EmptySeq DEF BomLength
  <2>3. r = FeedRest(Checked(s, 0), chunk, 0, isEof)
    BY <1>16, <1>13, <2>2
  <2>4. IsSlice(t, 0, chunk, isEof) /\ q = 0 + Len(chunk)
    BY <2>2
  <2>5. Fed(t, 0, FeedRest(Checked(s, 0), chunk, 0, isEof), q, isEof)
    BY <1>10, <2>4, FeedRestFeeds
  <2> QED BY <2>2, <2>3, <2>5
<1>14. CASE ~(Len(held) < 3 /\ ~isEof) /\ ~IsPrefix(Bom, held) /\ ~(b = <<>> /\ Len(chunk) >= 3)
  <2>1. ~IsPrefix(Bom, t)
    BY <1>2, <1>14, BomDecided
  <2>2. BomLength(t) = 0
    BY <2>1 DEF BomLength
  <2> DEFINE x == IF buffer = <<>> THEN Checked(s, 0) ELSE FeedPart(Checked(s, 0), buffer, 0)
  <2>3. r = FeedRest(x, rest, m, isEof)
    BY <1>14, <1>16, <1>17
  <2>4. Scan(t, 0, x, m) /\ Settled(x)
    <3>1. CASE buffer = <<>>
      <4>1. m = 0
        BY <1>8, <3>1, EmptySeq
      <4> QED BY <1>10, <3>1, <4>1
    <3>2. CASE buffer # <<>>
      <4>1. m = 0 + Len(buffer)
        BY <1>6, <1>8
      <4>2. Scan(t, 0, FeedPart(Checked(s, 0), buffer, 0), m) /\ Settled(FeedPart(Checked(s, 0), buffer, 0))
        BY <1>8, <1>10, <4>1, FeedPartFeeds
      <4> QED BY <3>2, <4>2
    <3> QED BY <3>1, <3>2
  <2> HIDE DEF x
  <2>5. x \in Scanner
    BY <2>4 DEF Scan
  <2>6. Fed(t, 0, FeedRest(x, rest, m, isEof), q, isEof)
    BY <1>6, <1>7, <1>9, <2>4, <2>5, FeedRestFeeds
  <2> QED BY <2>2, <2>3, <2>6
<1> QED BY <1>11, <1>12, <1>13, <1>14

-----------------------------------------------------------------------------
(* The specification.                                                      *)

LEMMA ResetType ==
  ASSUME NEW b \in Seq(Byte), NEW s, s = [Reset EXCEPT !.bomBuffer = b]
  PROVE  s \in Scanner /\ s.bomChecked = FALSE /\ Settled(s) /\ s.bomBuffer = b
<1>1. <<>> \in Seq(Byte) /\ <<>> \in Seq(Seq(Byte)) /\ <<>> \in Seq(Record) /\ 0 \in Nat
  BY EmptySeq
<1>2. s = [inQuotes |-> FALSE, pendingQuote |-> FALSE, pendingCr |-> FALSE,
           bomChecked |-> FALSE, bomBuffer |-> b, start |-> 0,
           hasRecordStart |-> FALSE, sawData |-> FALSE, col |-> 0,
           span |-> <<>>, skip |-> FALSE,
           cell |-> <<>>, fields |-> <<>>, records |-> <<>>]
  BY DEF Reset
<1>3. s \in Scanner
  <2> DEFINE B == Seq(Byte)
             F == Seq(Seq(Byte))
             R == Seq(Record)
  <2>1. b \in B /\ <<>> \in B /\ <<>> \in F /\ <<>> \in R /\ 0 \in Nat
    BY <1>1
  <2>2. Scanner = [inQuotes : BOOLEAN, pendingQuote : BOOLEAN, pendingCr : BOOLEAN,
                   bomChecked : BOOLEAN, bomBuffer : B, start : Nat,
                   hasRecordStart : BOOLEAN, sawData : BOOLEAN, col : Nat,
                   span : B, skip : BOOLEAN, cell : B, fields : F, records : R]
    BY DEF Scanner
  <2> HIDE DEF B, F, R
  <2> QED BY ONLY <1>2, <2>1, <2>2
<1> QED BY <1>2, <1>3 DEF Settled

\* What TypeOK and ScannerIInv say of a scanner.
Right(t, s, q, end) ==
    /\ s \in Scanner /\ Settled(s)
    /\ IF ~s.bomChecked
       THEN ~end /\ q < 3 /\ s = [Reset EXCEPT !.bomBuffer = SubSeq(t, 1, q)]
       ELSE IF end THEN q = Len(t) /\ Finished(t, BomLength(t), s)
       ELSE Scan(t, BomLength(t), s, q)

LEMMA RightIs ==
  ScannerIInv <=> /\ text \in Texts /\ fed \in 0..Len(text) /\ done \in BOOLEAN
                  /\ Right(text, scanner, fed, done)
BY DEF ScannerIInv, TypeOK, Right

LEMMA FedIsRight ==
  ASSUME NEW t \in Seq(Byte), NEW r, NEW q, NEW isEof \in BOOLEAN,
         Fed(t, BomLength(t), r, q, isEof), isEof => q = Len(t)
  PROVE  Right(t, r, q, isEof)
<1>1. CASE isEof
  BY <1>1 DEF Fed, Finished, Right
<1>2. CASE ~isEof
  BY <1>2 DEF Fed, Scan, Right
<1> QED BY <1>1, <1>2

LEMMA FeedRight ==
  ASSUME NEW t \in Seq(Byte), NEW s, NEW q \in Nat, NEW n \in Nat, NEW isEof \in BOOLEAN,
         NEW chunk, NEW r,
         Right(t, s, q, FALSE), q + n <= Len(t), isEof => q + n = Len(t),
         chunk = SubSeq(t, q + 1, q + n), r = Feed(s, chunk, q, isEof)
  PROVE  Right(t, r, q + n, isEof)
<1> DEFINE o == BomLength(t)
           p == q + n
<1>1. IsSlice(t, q, chunk, isEof) /\ Len(chunk) = n
  <2>1. q + n \in Nat /\ q <= q + n /\ (q + n) - q = n
    OBVIOUS
  <2> QED BY <2>1, PartIsSlice
<1>2. p \in Nat /\ p = q + Len(chunk) /\ (isEof => p = Len(t))
  BY <1>1
<1>3. s \in Scanner /\ Settled(s) /\ s.bomChecked \in BOOLEAN
  BY ScannerFields DEF Right
<1>4. o \in Nat
  BY FileOrigin
<1>5. CASE s.bomChecked
  <2>1. Scan(t, o, s, q)
    BY <1>5 DEF Right
  <2>2. r = FeedRest(s, chunk, q, isEof)
    BY <1>5 DEF Feed
  <2> HIDE DEF o, p
  <2>3. Fed(t, o, FeedRest(s, chunk, q, isEof), p, isEof)
    BY <1>1, <1>2, <1>3, <1>4, <2>1, FeedRestFeeds
  <2> QED BY <1>2, <2>2, <2>3, FedIsRight DEF o, p
<1>6. CASE ~s.bomChecked
  <2> DEFINE b == SubSeq(t, 1, q)
  <2>1. q < 3 /\ s = [Reset EXCEPT !.bomBuffer = b]
    BY <1>6 DEF Right
  <2>2. IsPart(t, 0, b) /\ Len(b) = q
    <3> DEFINE e == FALSE
    <3>1. e \in BOOLEAN /\ 0 + 1 = 1 /\ 0 <= q /\ q <= Len(t) /\ ~e /\ q - 0 = q
      OBVIOUS
    <3> HIDE DEF e
    <3>2. IsSlice(t, 0, SubSeq(t, 0 + 1, q), e) /\ Len(SubSeq(t, 0 + 1, q)) = q - 0
      BY <3>1, PartIsSlice
    <3>3. SubSeq(t, 0 + 1, q) = b
      OBVIOUS
    <3> HIDE DEF b
    <3> QED BY <3>1, <3>2, <3>3 DEF IsPart, e
  <2>3. /\ IsSlice(t, Len(b), chunk, isEof) /\ Len(b) < 3 /\ r = Feed(s, chunk, Len(b), isEof)
        /\ p = Len(b) + Len(chunk)
    BY <1>1, <1>2, <2>1, <2>2
  <2> HIDE DEF b
  <2>4. \/ ~isEof /\ p < 3 /\ r = [Reset EXCEPT !.bomBuffer = SubSeq(t, 1, p)]
        \/ Fed(t, BomLength(t), r, p, isEof)
    <3> HIDE DEF p
    <3> QED BY <2>1, <2>2, <2>3, FeedBegins
  <2>5. CASE Fed(t, BomLength(t), r, p, isEof)
    <3> HIDE DEF p
    <3>1. Right(t, r, p, isEof)
      BY <1>2, <2>5, FedIsRight
    <3> QED BY <3>1 DEF p
  <2>6. CASE ~isEof /\ p < 3 /\ r = [Reset EXCEPT !.bomBuffer = SubSeq(t, 1, p)]
    <3> DEFINE c == SubSeq(t, 1, p)
    <3>1. c \in Seq(Byte)
      <4>1. SubSeq(t, 0 + 1, p) \in Seq(Byte)
        <5>1. 0 <= p /\ p <= Len(t) /\ 0 \in Nat /\ p \in Nat
          BY <1>2
        <5> HIDE DEF p
        <5> QED BY <5>1, PartIs
      <4>2. SubSeq(t, 0 + 1, p) = c
        OBVIOUS
      <4> QED BY <4>1, <4>2
    <3>2. r = [Reset EXCEPT !.bomBuffer = c]
      BY <2>6
    <3> HIDE DEF c, p
    <3>3. r \in Scanner /\ r.bomChecked = FALSE /\ Settled(r)
      BY <3>1, <3>2, ResetType
    <3>4. ~r.bomChecked
      BY <3>3
    <3>5. Right(t, r, p, isEof)
      BY <2>6, <3>3, <3>4 DEF Right
    <3> QED BY <3>5 DEF p
  <2> QED BY <2>4, <2>5, <2>6
<1> QED BY <1>3, <1>5, <1>6

LEMMA ScannerStarts == Init => ScannerIInv
<1> SUFFICES ASSUME Init PROVE ScannerIInv
  OBVIOUS
<1>1. text \in Texts /\ scanner = Reset /\ fed = 0 /\ done = FALSE
  BY DEF Init
<1>2. text \in Seq(Byte) /\ fed \in 0..Len(text) /\ done \in BOOLEAN
  <2>1. text \in Seq(Byte)
    BY <1>1, ScannerAssumption
  <2>2. fed \in 0..Len(text)
    BY <1>1, <2>1
  <2>3. done \in BOOLEAN
    BY <1>1
  <2> QED BY <2>1, <2>2, <2>3
<1>3. SubSeq(text, 1, fed) = <<>>
  BY <1>1, SubSeqEmpty
<1>4. scanner = [Reset EXCEPT !.bomBuffer = SubSeq(text, 1, fed)]
  <2>1. Reset = [Reset EXCEPT !.bomBuffer = <<>>]
    BY DEF Reset
  <2> QED BY <1>1, <1>3, <2>1
<1>5. scanner \in Scanner /\ scanner.bomChecked = FALSE /\ Settled(scanner)
  <2>1. SubSeq(text, 1, fed) \in Seq(Byte)
    BY <1>3, EmptySeq
  <2> QED BY <1>4, <2>1, ResetType
<1>6. ~scanner.bomChecked
  BY <1>5
<1>7. ~done /\ fed < 3
  BY <1>1
<1>8. Right(text, scanner, fed, done)
  BY <1>4, <1>5, <1>6, <1>7 DEF Right
<1> QED BY <1>1, <1>2, <1>8, RightIs

LEMMA ScannerSteps == ScannerIInv /\ [Next]_vars => ScannerIInv'
<1> SUFFICES ASSUME ScannerIInv, [Next]_vars PROVE ScannerIInv'
  OBVIOUS
<1>1. /\ text \in Texts /\ fed \in 0..Len(text) /\ done \in BOOLEAN
      /\ Right(text, scanner, fed, done)
  BY RightIs
<1>2. text \in Seq(Byte)
  BY <1>1, ScannerAssumption
<1>3. CASE Slice
  <2>1. ~done /\ text' = text
    BY <1>3 DEF Slice
  <2>2. PICK n \in 0..(Len(text) - fed), isEof \in BOOLEAN :
           /\ isEof => fed + n = Len(text)
           /\ scanner' = Feed(scanner, SubSeq(text, fed + 1, fed + n), fed, isEof)
           /\ fed' = fed + n
           /\ done' = isEof
    BY <1>3 DEF Slice
  <2>3. n \in Nat /\ fed \in Nat /\ fed + n <= Len(text)
    BY <1>1, <1>2
  <2>4. done = FALSE
    BY <1>1, <2>1
  <2>5. Right(text, scanner, fed, FALSE)
    BY <1>1, <2>4
  <2>6. PICK t, s, q, chunk, r :
          /\ t = text /\ s = scanner /\ q = fed
          /\ chunk = SubSeq(text, fed + 1, fed + n) /\ r = scanner'
    OBVIOUS
  <2>7. /\ t \in Seq(Byte) /\ q \in Nat /\ n \in Nat
        /\ Right(t, s, q, FALSE) /\ q + n <= Len(t) /\ (isEof => q + n = Len(t))
        /\ chunk = SubSeq(t, q + 1, q + n) /\ r = Feed(s, chunk, q, isEof)
    BY <1>2, <2>2, <2>3, <2>5, <2>6
  <2>8. Right(t, r, q + n, isEof)
    BY <2>7, FeedRight
  <2>9. /\ text' \in Texts /\ fed' \in 0..Len(text') /\ done' \in BOOLEAN
        /\ Right(text', scanner', fed', done')
    <3>1. text' \in Texts
      BY <1>1, <2>1
    <3>2. fed' \in 0..Len(text')
      BY <1>2, <2>1, <2>2, <2>3
    <3>3. done' \in BOOLEAN
      BY <2>2
    <3>4. Right(text', scanner', fed', done')
      BY <2>1, <2>2, <2>6, <2>8
    <3> QED BY <3>1, <3>2, <3>3, <3>4
  <2> QED BY <2>9 DEF ScannerIInv, TypeOK, Right
<1>4. CASE UNCHANGED vars
  BY <1>4 DEF vars, ScannerIInv, TypeOK, Settled, Scan, Finished, Open, Between, Found, Quoting
<1> QED BY <1>3, <1>4 DEF Next

\* Wherever the file is cut, between two slices the scanner knows the part of
\* the file it was fed: its records, the open one's fields, and what is undecided.
THEOREM ScannerKeepsUp == Spec => []ScannerIInv
<1> QED BY ScannerStarts, ScannerSteps, PTL DEF Spec

LEMMA RightFlags ==
  ASSUME NEW t \in Seq(Byte), NEW s \in Scanner, NEW q \in Nat, NEW end \in BOOLEAN,
         Right(t, s, q, end), q <= Len(t)
  PROVE  /\ s.span = <<>> /\ ~s.skip
         /\ s.pendingQuote => s.inQuotes
         /\ s.pendingCr => ~s.inQuotes /\ ~s.sawData /\ ~s.hasRecordStart
         /\ s.bomChecked \/ Len(s.bomBuffer) = q
         /\ end => s.bomChecked /\ ~s.pendingCr /\ ~s.pendingQuote
<1>1. s.span = <<>> /\ ~s.skip
  BY DEF Right, Settled
<1>2. CASE ~s.bomChecked
  <2>1. ~end /\ s = [Reset EXCEPT !.bomBuffer = SubSeq(t, 1, q)]
    BY <1>2 DEF Right
  <2>2. s.pendingQuote = FALSE /\ s.pendingCr = FALSE /\ s.bomBuffer = SubSeq(t, 1, q)
    BY <2>1 DEF Reset
  <2>3. Len(SubSeq(t, 0 + 1, q)) = q - 0
    BY PartIs
  <2>4. Len(s.bomBuffer) = q
    BY <2>2, <2>3
  <2>5. ~s.pendingQuote /\ ~s.pendingCr
    BY <2>2
  <2> QED BY <1>1, <2>1, <2>4, <2>5
<1>3. CASE s.bomChecked /\ end
  <2>1. ~s.pendingCr /\ ~s.pendingQuote
    BY <1>3 DEF Right, Finished
  <2> QED BY <1>1, <1>3, <2>1
<1>4. CASE s.bomChecked /\ ~end
  <2> DEFINE o == BomLength(t)
  <2>1. Scan(t, o, s, q) /\ o \in Nat
    BY <1>4, FileOrigin DEF Right
  <2> HIDE DEF o
  <2>2. s.pendingQuote => s.inQuotes
    BY <2>1, OpenQuote
  <2>3. s.pendingCr => ~s.inQuotes /\ ~s.sawData /\ ~s.hasRecordStart
    <3>1. CASE s.hasRecordStart
      BY <2>1, <3>1, ScanOpen
    <3>2. CASE ~s.hasRecordStart
      BY <2>1, <3>2, BetweenDone DEF LineDone
    <3> QED BY <3>1, <3>2
  <2> QED BY <1>1, <1>4, <2>2, <2>3
<1> QED BY <1>2, <1>3, <1>4

LEMMA RightKnows ==
  ASSUME ScannerIInv
  PROVE  \E t, s, q, end :
           /\ t = text /\ s = scanner /\ q = fed /\ end = done
           /\ t \in Seq(Byte) /\ s \in Scanner /\ q \in Nat /\ end \in BOOLEAN
           /\ Right(t, s, q, end) /\ q <= Len(t)
<1>1. /\ text \in Texts /\ fed \in 0..Len(text) /\ done \in BOOLEAN
      /\ Right(text, scanner, fed, done)
  BY RightIs
<1>2. text \in Seq(Byte)
  BY <1>1, ScannerAssumption
<1>3. fed \in Nat /\ fed <= Len(text)
  BY <1>1, <1>2
<1> QED BY <1>1, <1>2, <1>3 DEF Right

\* Between two slices at most a quote within quotes or a CR behind a record is
\* undecided, the byte order mark is held back until it is known, and nothing is
\* left when the file has ended, wherever feed() was cut.
THEOREM ScannerInvHolds == Spec => []ScannerInv
<1>1. ScannerIInv => ScannerInv
  <2> SUFFICES ASSUME ScannerIInv PROVE ScannerInv
    OBVIOUS
  <2>1. PICK t, s, q, end :
           /\ t = text /\ s = scanner /\ q = fed /\ end = done
           /\ t \in Seq(Byte) /\ s \in Scanner /\ q \in Nat /\ end \in BOOLEAN
           /\ Right(t, s, q, end) /\ q <= Len(t)
    BY RightKnows
  <2>2. /\ s.span = <<>> /\ ~s.skip
        /\ s.pendingQuote => s.inQuotes
        /\ s.pendingCr => ~s.inQuotes /\ ~s.sawData /\ ~s.hasRecordStart
        /\ s.bomChecked \/ Len(s.bomBuffer) = q
        /\ end => s.bomChecked /\ ~s.pendingCr /\ ~s.pendingQuote
    BY <2>1, RightFlags
  <2>3. TypeOK
    BY DEF ScannerIInv
  <2> QED BY <2>1, <2>2, <2>3 DEF ScannerInv
<1> QED BY <1>1, ScannerKeepsUp, PTL

-----------------------------------------------------------------------------
(* The records that have been reported.                                    *)

\* rs is found up to q, and the last record of a file that has ended is behind it.
Reported(t, o, s, rs, q, end) ==
    /\ rs \in Seq(Record)
    /\ Found(t, o, rs)
    /\ Cardinality(EndsTo(t, o, q)) = Len(rs)
    /\ q \in Nat /\ o <= q /\ q <= Len(t)
    /\ ~end => s.records = rs
    /\ end => /\ q = Len(t)
              /\ EndsTo(t, NextStart(t, o, rs), Len(t)) = {}
              /\ s.records = IF NextStart(t, o, rs) < Len(t)
                             THEN Append(rs, LastRecord(t, NextStart(t, o, rs)))
                             ELSE rs

LEMMA RightReports ==
  ASSUME NEW t \in Seq(Byte), NEW s \in Scanner, NEW q \in Nat, NEW end \in BOOLEAN,
         Right(t, s, q, end), q <= Len(t), s.bomChecked
  PROVE  \E rs : Reported(t, BomLength(t), s, rs, q, end)
<1> DEFINE o == BomLength(t)
<1>1. o \in Nat /\ o <= Len(t)
  BY FileOrigin DEF GoodOrigin
<1>2. CASE end
  <2>1. q = Len(t) /\ Finished(t, o, s)
    BY <1>2 DEF Right
  <2> HIDE DEF o
  <2>2. PICK rs \in Seq(Record) :
         /\ Found(t, o, rs)
         /\ Cardinality(EndsTo(t, o, Len(t))) = Len(rs)
         /\ EndsTo(t, NextStart(t, o, rs), Len(t)) = {}
         /\ s.records = IF NextStart(t, o, rs) < Len(t)
                        THEN Append(rs, LastRecord(t, NextStart(t, o, rs)))
                        ELSE rs
    BY <2>1 DEF Finished
  <2>3. Reported(t, o, s, rs, q, end)
    BY <1>1, <1>2, <2>1, <2>2 DEF Reported
  <2> QED BY <2>3 DEF o
<1>3. CASE ~end
  <2>1. Scan(t, o, s, q)
    BY <1>3 DEF Right
  <2> HIDE DEF o
  <2>2. s.records \in Seq(Record)
    BY ScannerFields
  <2>3. Reported(t, o, s, s.records, q, end)
    BY <1>1, <1>3, <2>1, <2>2 DEF Reported, Scan
  <2> QED BY <2>3 DEF o
<1> QED BY <1>2, <1>3

LEMMA ReportedIs ==
  ASSUME NEW t \in Seq(Byte), NEW o \in Nat, NEW s \in Scanner, NEW rs, NEW q, NEW end \in BOOLEAN,
         Reported(t, o, s, rs, q, end)
  PROVE  /\ DOMAIN rs \subseteq DOMAIN s.records
         /\ \A k \in DOMAIN rs : s.records[k] = rs[k]
         /\ \A k \in DOMAIN s.records \ DOMAIN rs :
              /\ k = Len(rs) + 1 /\ end /\ NextStart(t, o, rs) < Len(t)
              /\ s.records[k] = LastRecord(t, NextStart(t, o, rs))
         /\ Len(s.records) = IF end /\ NextStart(t, o, rs) < Len(t) THEN Len(rs) + 1 ELSE Len(rs)
<1> DEFINE R == LastRecord(t, NextStart(t, o, rs))
<1>1. rs \in Seq(Record) /\ Len(rs) \in Nat /\ DOMAIN rs = 1..Len(rs)
  BY DEF Reported
<1>2. s.records = IF end /\ NextStart(t, o, rs) < Len(t) THEN Append(rs, R) ELSE rs
  BY DEF Reported
<1> HIDE DEF R
<1>3. CASE end /\ NextStart(t, o, rs) < Len(t)
  <2>1. s.records = Append(rs, R)
    BY <1>2, <1>3
  <2>2. /\ Len(Append(rs, R)) = Len(rs) + 1 /\ DOMAIN Append(rs, R) = 1..(Len(rs) + 1)
        /\ \A k \in 1..Len(rs) : Append(rs, R)[k] = rs[k]
        /\ Append(rs, R)[Len(rs) + 1] = R
    BY <1>1
  <2> QED BY <1>1, <1>3, <2>1, <2>2 DEF R
<1>4. CASE ~(end /\ NextStart(t, o, rs) < Len(t))
  BY <1>1, <1>2, <1>4
<1> QED BY <1>3, <1>4

\* Before the byte order mark is settled nothing is reported.
LEMMA NothingYet ==
  ASSUME NEW t \in Seq(Byte), NEW s \in Scanner, NEW q \in Nat, NEW end \in BOOLEAN,
         Right(t, s, q, end), ~s.bomChecked
  PROVE  s.records = <<>> /\ DOMAIN s.records = {} /\ end = FALSE
<1>1. ~end /\ s = [Reset EXCEPT !.bomBuffer = SubSeq(t, 1, q)]
  BY DEF Right
<1>2. s.records = <<>>
  BY <1>1 DEF Reset
<1>3. s.records \in Seq(Record)
  BY ScannerFields
<1> QED BY <1>1, <1>2, <1>3

LEMMA RightFields ==
  ASSUME NEW t \in Seq(Byte), NEW s \in Scanner, NEW q \in Nat, NEW end \in BOOLEAN,
         Right(t, s, q, end), q <= Len(t), NEW k \in DOMAIN s.records
  PROVE  s.records[k].fields = Fields(t, s.records[k].start, s.records[k].end)
<1>1. s.bomChecked
  BY NothingYet
<1> DEFINE o == BomLength(t)
<1>2. o \in Nat
  BY FileOrigin
<1>3. PICK rs : Reported(t, o, s, rs, q, end)
  BY <1>1, RightReports
<1> HIDE DEF o
<1>4. CASE k \in DOMAIN rs
  <2>1. s.records[k] = rs[k]
    BY <1>2, <1>3, <1>4, ReportedIs
  <2>2. Found(t, o, rs)
    BY <1>3 DEF Reported
  <2>3. rs[k].fields = Fields(t, rs[k].start, rs[k].end)
    BY <1>4, <2>2 DEF Found
  <2> QED BY <2>1, <2>3
<1>5. CASE k \notin DOMAIN rs
  <2>1. s.records[k] = LastRecord(t, NextStart(t, o, rs))
    BY <1>2, <1>3, <1>5, ReportedIs
  <2> HIDE DEF o
  <2>2. PICK n : n = NextStart(t, o, rs)
    OBVIOUS
  <2>3. s.records[k] = LastRecord(t, n)
    BY <2>1, <2>2
  <2> QED BY <2>3 DEF LastRecord
<1> QED BY <1>4, <1>5

\* However the file is cut, what the fields callback is given for a record is the
\* fields of the file at its place: no byte is lost or doubled at a cut, doubled
\* quotes are resolved, and columns past kMaxColumns are dropped.
THEOREM FieldsDecoded == Spec => []FieldsAreDecoded
<1>1. ScannerIInv => FieldsAreDecoded
  <2> SUFFICES ASSUME ScannerIInv PROVE FieldsAreDecoded
    OBVIOUS
  <2>1. PICK t, s, q, end :
           /\ t = text /\ s = scanner /\ q = fed /\ end = done
           /\ t \in Seq(Byte) /\ s \in Scanner /\ q \in Nat /\ end \in BOOLEAN
           /\ Right(t, s, q, end) /\ q <= Len(t)
    BY RightKnows
  <2>2. \A k \in DOMAIN s.records :
          s.records[k].fields = Fields(t, s.records[k].start, s.records[k].end)
    BY <2>1, RightFields
  <2> QED BY <2>1, <2>2 DEF FieldsAreDecoded
<1> QED BY <1>1, ScannerKeepsUp, PTL

-----------------------------------------------------------------------------
(* Where the records are.                                                  *)

LEMMA UpToMono ==
  ASSUME NEW n \in Nat, NEW S \in SUBSET (1..n), NEW i \in Nat, NEW j \in Nat, i <= j
  PROVE  Cardinality(UpTo(S, i)) <= Cardinality(UpTo(S, j))
<1>1. IsFiniteSet(UpTo(S, j))
  BY UpToFinite
<1>2. ASSUME NEW x \in UpTo(S, i) PROVE x \in UpTo(S, j)
  <2>1. x \in S /\ x <= i
    BY UpToIs
  <2>2. x \in 1..n
    BY <2>1
  <2>3. x <= j
    BY <2>1, <2>2
  <2> QED BY <2>1, <2>3, UpToIs
<1>3. UpTo(S, i) \subseteq UpTo(S, j)
  BY <1>2
<1> QED BY <1>1, <1>3, FS_Subset

\* The kth of S is among the first q bytes if k of S are.
LEMMA NthUpTo ==
  ASSUME NEW n \in Nat, NEW S \in SUBSET (1..n), NEW q \in Nat, NEW k \in 1..Cardinality(S)
  PROVE  Nth(S, k) <= q <=> k <= Cardinality(UpTo(S, q))
<1>1. Nth(S, k) \in S /\ Cardinality(UpTo(S, Nth(S, k))) = k /\ Cardinality(UpTo(S, q)) \in Nat
  BY NthIn, UpToFinite
<1>2. Nth(S, k) \in Nat /\ k \in Nat
  <2>1. Cardinality(S) \in Nat
    BY UpToFinite
  <2>2. Nth(S, k) \in 1..n
    BY <1>1
  <2> QED BY <2>1, <2>2
<1>3. ASSUME Nth(S, k) <= q PROVE k <= Cardinality(UpTo(S, q))
  <2> DEFINE i == Nth(S, k)
  <2>1. i \in Nat /\ i <= q /\ Cardinality(UpTo(S, i)) = k
    BY <1>1, <1>2, <1>3
  <2> HIDE DEF i
  <2> QED BY <2>1, UpToMono
<1>4. ASSUME k <= Cardinality(UpTo(S, q)) PROVE Nth(S, k) <= q
  <2>1. k \in 1..Cardinality(UpTo(S, q))
    BY <1>1, <1>2, <1>4
  <2> QED BY <2>1, NthSame
<1> QED BY <1>3, <1>4

LEMMA LineEndsType ==
  ASSUME NEW t \in Seq(Byte)
  PROVE  /\ LineEnds(t) \in SUBSET (1..Len(t)) /\ Len(t) \in Nat
         /\ IsFiniteSet(LineEnds(t)) /\ Cardinality(LineEnds(t)) \in Nat
<1>1. LineEnds(t) \in SUBSET (1..Len(t)) /\ Len(t) \in Nat
  BY DEF LineEnds
<1> HIDE DEF LineEnds
<1> QED BY <1>1, UpToFinite

\* The byte order mark has no line end.
LEMMA EndsToIs ==
  ASSUME NEW t \in Seq(Byte), NEW q \in Nat
  PROVE  EndsTo(t, BomLength(t), q) = UpTo(LineEnds(t), q)
<1>1. ASSUME NEW i \in LineEnds(t) PROVE BomLength(t) < i
  <2>1. i \in 1..Len(t) /\ t[i] \in {CR, LF}
    BY DEF LineEnds
  <2>2. CASE ~IsPrefix(Bom, t)
    BY <2>1, <2>2 DEF BomLength
  <2>3. CASE IsPrefix(Bom, t)
    <3>1. \A j \in 1..3 : t[j] = Bom[j]
      BY <2>3, PrefixIs, BomType
    <3>2. i \notin 1..3
      BY <2>1, <3>1, BomType
    <3> QED BY <2>1, <2>3, <3>2 DEF BomLength
  <2> QED BY <2>2, <2>3
<1>2. \A i : i \in EndsTo(t, BomLength(t), q) <=> i \in UpTo(LineEnds(t), q)
  BY <1>1 DEF EndsTo, UpTo
<1> QED BY <1>2

StartOf(t, k) == IF k = 1 THEN BomLength(t) ELSE AfterEnd(t, Nth(LineEnds(t), k - 1))
EndOf(t, k) == IF k <= Cardinality(LineEnds(t)) THEN Nth(LineEnds(t), k) - 1 ELSE Len(t)
RecordCount(t) ==
    IF StartOf(t, Cardinality(LineEnds(t)) + 1) < Len(t)
    THEN Cardinality(LineEnds(t)) + 1 ELSE Cardinality(LineEnds(t))
PlaceOf(t, k) == [start |-> StartOf(t, k), end |-> EndOf(t, k)]

LEMMA RecordsIs ==
  ASSUME NEW t
  PROVE  Records(t) = [k \in 1..RecordCount(t) |-> PlaceOf(t, k)]
BY DEF Records, RecordCount, PlaceOf, StartOf, EndOf

LEMMA FoundEnd ==
  ASSUME NEW t \in Seq(Byte), NEW rs \in Seq(Record), Found(t, BomLength(t), rs), NEW k \in DOMAIN rs
  PROVE  /\ k \in 1..Cardinality(LineEnds(t)) /\ rs[k].end + 1 = Nth(LineEnds(t), k)
         /\ EndOf(t, k) = rs[k].end
<1> DEFINE S == LineEnds(t)
           i == rs[k].end + 1
<1>1. S \in SUBSET (1..Len(t)) /\ Len(t) \in Nat /\ Cardinality(S) \in Nat
  BY LineEndsType
<1>2. i \in S /\ Cardinality(EndsTo(t, BomLength(t), i)) = k
  BY DEF Found
<1>3. rs[k] \in Record /\ k \in Nat \ {0}
  OBVIOUS
<1>4. rs[k].end \in Nat /\ i \in Nat
  BY <1>3, RecordType
<1>5. Cardinality(UpTo(S, i)) = k
  <2> HIDE DEF i
  <2>1. EndsTo(t, BomLength(t), i) = UpTo(S, i)
    BY <1>4, EndsToIs
  <2> QED BY <1>2, <2>1
<1>6. i = Nth(S, k) /\ k <= Cardinality(S)
  <2> HIDE DEF S, i
  <2>1. Nth(S, Cardinality(UpTo(S, i))) = i
    BY <1>1, <1>2, NthIs
  <2>2. Cardinality(UpTo(S, i)) <= Cardinality(S)
    BY <1>1, UpToFinite
  <2> QED BY <1>5, <2>1, <2>2
<1>7. rs[k].end = i - 1
  BY <1>4
<1> QED BY <1>1, <1>3, <1>6, <1>7 DEF EndOf

LEMMA FoundPlace ==
  ASSUME NEW t \in Seq(Byte), NEW rs \in Seq(Record), Found(t, BomLength(t), rs), NEW k \in DOMAIN rs
  PROVE  [start |-> rs[k].start, end |-> rs[k].end] = PlaceOf(t, k)
<1>1. EndOf(t, k) = rs[k].end
  BY FoundEnd
<1>2. rs[k].start = StartOf(t, k)
  <2>1. rs[k].start = IF k = 1 THEN BomLength(t) ELSE AfterEnd(t, rs[k - 1].end + 1)
    BY DEF Found
  <2>2. CASE k = 1
    BY <2>1, <2>2 DEF StartOf
  <2>3. CASE k # 1
    <3>1. k - 1 \in DOMAIN rs
      BY <2>3
    <3>2. rs[k - 1].end + 1 = Nth(LineEnds(t), k - 1)
      BY <3>1, FoundEnd
    <3> QED BY <2>1, <2>3, <3>2 DEF StartOf
  <2> QED BY <2>2, <2>3
<1> QED BY <1>1, <1>2 DEF PlaceOf

\* A record is complete when the byte behind it was read.
LEMMA CompleteAre ==
  ASSUME NEW t \in Seq(Byte), NEW q \in Nat, q <= Len(t)
  PROVE  /\ {k \in 1..RecordCount(t) : EndOf(t, k) < q} = 1..Cardinality(UpTo(LineEnds(t), q))
         /\ Cardinality(UpTo(LineEnds(t), q)) <= RecordCount(t)
         /\ RecordCount(t) \in Nat
<1> DEFINE S == LineEnds(t)
           n == Cardinality(S)
           m == Cardinality(UpTo(S, q))
<1>1. S \in SUBSET (1..Len(t)) /\ Len(t) \in Nat /\ n \in Nat
  BY LineEndsType
<1>2. m \in Nat /\ m <= n
  <2> HIDE DEF S
  <2> QED BY <1>1, UpToFinite
<1>3. RecordCount(t) \in {n, n + 1}
  BY DEF RecordCount
<1>4. ASSUME NEW k \in 1..n PROVE EndOf(t, k) < q <=> k <= m
  <2>1. Nth(S, k) \in S
    <3> HIDE DEF S
    <3> QED BY <1>1, NthIn
  <2>2. Nth(S, k) <= q <=> k <= m
    <3> HIDE DEF S
    <3> QED BY <1>1, NthUpTo
  <2>3. EndOf(t, k) = Nth(S, k) - 1 /\ Nth(S, k) \in Nat
    BY <1>1, <2>1 DEF EndOf
  <2> QED BY <2>2, <2>3
<1>5. EndOf(t, n + 1) = Len(t)
  BY <1>1 DEF EndOf
<1> HIDE DEF n, m, S
<1>6. \A k : k \in {i \in 1..RecordCount(t) : EndOf(t, i) < q} <=> k \in 1..m
  <2> SUFFICES ASSUME NEW k
               PROVE  k \in {i \in 1..RecordCount(t) : EndOf(t, i) < q} <=> k \in 1..m
    OBVIOUS
  <2>1. CASE k \in 1..n
    BY <1>1, <1>2, <1>3, <1>4, <2>1
  <2>2. CASE k = n + 1
    BY <1>1, <1>2, <1>3, <1>5, <2>2
  <2>3. CASE ~(k \in 1..n) /\ k # n + 1
    BY <1>1, <1>2, <1>3, <2>3
  <2> QED BY <2>1, <2>2, <2>3
<1>7. {k \in 1..RecordCount(t) : EndOf(t, k) < q} = 1..m
  BY <1>6
<1>8. m <= RecordCount(t) /\ RecordCount(t) \in Nat
  BY <1>1, <1>2, <1>3
<1> QED BY <1>7, <1>8 DEF m, S

\* Complete, of any scanner.
CompleteOf(t, s, q, end) ==
    IF end THEN Records(t)
    ELSE IF ~s.bomChecked THEN <<>>
    ELSE SubSeq(Records(t), 1, Cardinality({k \in DOMAIN Records(t) : Records(t)[k].end < q}))

Places(rs) == [k \in DOMAIN rs |-> [start |-> rs[k].start, end |-> rs[k].end]]


LEMMA CompleteIs ==
  ASSUME NEW t \in Seq(Byte), NEW q \in Nat, q <= Len(t)
  PROVE  SubSeq(Records(t), 1, Cardinality({k \in DOMAIN Records(t) : Records(t)[k].end < q}))
           = [k \in 1..Cardinality(UpTo(LineEnds(t), q)) |-> PlaceOf(t, k)]
<1> DEFINE m == Cardinality(UpTo(LineEnds(t), q))
           n == RecordCount(t)
           R == Records(t)
<1>1. R = [k \in 1..n |-> PlaceOf(t, k)]
  BY RecordsIs
<1>2. {k \in 1..n : EndOf(t, k) < q} = 1..m /\ m <= n /\ n \in Nat
  BY CompleteAre
<1>3. m \in Nat
  BY LineEndsType, UpToFinite
<1>4. \A k \in 1..n : R[k].end = EndOf(t, k)
  BY <1>1 DEF PlaceOf
<1> HIDE DEF m, n, R
<1>5. DOMAIN R = 1..n
  BY <1>1
<1>6. {k \in DOMAIN R : R[k].end < q} = 1..m
  BY <1>2, <1>4, <1>5
<1>7. Cardinality(1..m) = m
  BY <1>3, FS_Interval
<1>8. SubSeq(R, 1, m) = [k \in 1..m |-> PlaceOf(t, k)]
  BY <1>1, <1>2, <1>3
<1> QED BY <1>6, <1>7, <1>8 DEF m, R

LEMMA RightPlaces ==
  ASSUME NEW t \in Seq(Byte), NEW s \in Scanner, NEW q \in Nat, NEW end \in BOOLEAN,
         Right(t, s, q, end), q <= Len(t)
  PROVE  Places(s.records) = CompleteOf(t, s, q, end)
<1>1. CASE ~s.bomChecked
  <2>1. DOMAIN s.records = {} /\ end = FALSE
    BY <1>1, NothingYet
  <2>2. 1..0 = {}
    OBVIOUS
  <2>3. Places(s.records) = <<>>
    BY <2>1, <2>2 DEF Places
  <2> QED BY <1>1, <2>1, <2>3 DEF CompleteOf
<1>2. CASE s.bomChecked
  <2> DEFINE o == BomLength(t)
             S == LineEnds(t)
  <2>0. o \in Nat
    BY FileOrigin
  <2>1. PICK rs : Reported(t, o, s, rs, q, end)
    BY <1>2, RightReports
  <2>2. rs \in Seq(Record) /\ Found(t, o, rs) /\ Cardinality(EndsTo(t, o, q)) = Len(rs)
    BY <2>1 DEF Reported
  <2>3. Cardinality(UpTo(S, q)) = Len(rs) /\ Len(rs) \in Nat /\ DOMAIN rs = 1..Len(rs)
    BY <2>2, EndsToIs
  <2>4. \A k \in 1..Len(rs) : [start |-> rs[k].start, end |-> rs[k].end] = PlaceOf(t, k)
    BY <2>2, <2>3, FoundPlace
  <2>5. CASE ~end
    <3>1. s.records = rs
      BY <2>1, <2>5 DEF Reported
    <3>2. CompleteOf(t, s, q, end) = [k \in 1..Len(rs) |-> PlaceOf(t, k)]
      BY <1>2, <2>3, <2>5, CompleteIs DEF CompleteOf
    <3>3. Places(rs) = [k \in 1..Len(rs) |-> PlaceOf(t, k)]
      BY <2>3, <2>4 DEF Places
    <3> QED BY <3>1, <3>2, <3>3
  <2>6. CASE end
    <3> DEFINE n == Cardinality(S)
    <3>1. q = Len(t)
      BY <2>1, <2>6 DEF Reported
    <3>2. n = Len(rs)
      <4>1. S \in SUBSET (1..Len(t)) /\ Len(t) \in Nat
        BY LineEndsType
      <4> HIDE DEF S
      <4>2. UpTo(S, Len(t)) = S
        BY <4>1, UpToAll
      <4> QED BY <2>3, <3>1, <4>2
    <3>3. NextStart(t, o, rs) = StartOf(t, n + 1)
      <4>1. CASE rs = <<>>
        <5>1. n + 1 = 1
          BY <3>2, <4>1
        <5> QED BY <4>1, <5>1 DEF NextStart, StartOf
      <4>2. CASE rs # <<>>
        <5>1. n \in DOMAIN rs /\ n + 1 # 1 /\ (n + 1) - 1 = n
          BY <2>2, <2>3, <3>2, <4>2
        <5>2. rs[n].end + 1 = Nth(S, n)
          BY <2>2, <5>1, FoundEnd
        <5>3. NextStart(t, o, rs) = AfterEnd(t, rs[n].end + 1)
          BY <3>2, <4>2 DEF NextStart
        <5> QED BY <5>1, <5>2, <5>3 DEF StartOf
      <4> QED BY <4>1, <4>2
    <3>4. RecordCount(t) = IF StartOf(t, n + 1) < Len(t) THEN n + 1 ELSE n
      BY DEF RecordCount
    <3>5. Len(s.records) = RecordCount(t) /\ Len(s.records) \in Nat
      <4>1. Len(s.records) = IF end /\ NextStart(t, o, rs) < Len(t) THEN Len(rs) + 1 ELSE Len(rs)
        <5> HIDE DEF o
        <5> QED BY <2>0, <2>1, ReportedIs
      <4>2. Len(s.records) = RecordCount(t)
        BY <2>6, <3>2, <3>3, <3>4, <4>1
      <4>3. Len(s.records) \in Nat
        BY <2>3, <4>1
      <4> QED BY <4>2, <4>3
    <3>6. ASSUME NEW k \in 1..Len(s.records)
          PROVE  [start |-> s.records[k].start, end |-> s.records[k].end] = PlaceOf(t, k)
      <4>1. CASE k \in DOMAIN rs
        <5>1. s.records[k] = rs[k]
          BY <2>0, <2>1, <4>1, ReportedIs
        <5> QED BY <2>3, <2>4, <4>1, <5>1
      <4>2. CASE k \notin DOMAIN rs
        <5>1. s.records \in Seq(Record) /\ k \in DOMAIN s.records
          BY ScannerFields
        <5>2. k = Len(rs) + 1 /\ s.records[k] = LastRecord(t, NextStart(t, o, rs))
          BY <2>0, <2>1, <4>2, <5>1, ReportedIs
        <5>3. s.records[k].start = StartOf(t, k)
          BY <3>2, <3>3, <5>2 DEF LastRecord
        <5>4. s.records[k].end = Len(t)
          BY <5>2 DEF LastRecord
        <5>5. EndOf(t, k) = Len(t)
          BY <2>3, <3>2, <5>2 DEF EndOf
        <5> QED BY <5>3, <5>4, <5>5 DEF PlaceOf
      <4> QED BY <4>1, <4>2
    <3>7. DOMAIN s.records = 1..Len(s.records)
      BY ScannerFields
    <3>8. Places(s.records) = [k \in 1..RecordCount(t) |-> PlaceOf(t, k)]
      BY <3>5, <3>6, <3>7 DEF Places
    <3> QED BY <2>6, <3>8, RecordsIs DEF CompleteOf
  <2> QED BY <2>5, <2>6
<1> QED BY <1>1, <1>2

\* However the file is cut, the records reported are the complete ones of what was
\* fed, each at its place in the file, and none is missing at the end.  The index
\* keeps these places.
THEOREM RecordsFound == Spec => []RecordsAreFound
<1>1. ScannerIInv => RecordsAreFound
  <2> SUFFICES ASSUME ScannerIInv PROVE RecordsAreFound
    OBVIOUS
  <2>1. PICK t, s, q, end :
           /\ t = text /\ s = scanner /\ q = fed /\ end = done
           /\ t \in Seq(Byte) /\ s \in Scanner /\ q \in Nat /\ end \in BOOLEAN
           /\ Right(t, s, q, end) /\ q <= Len(t)
    BY RightKnows
  <2>2. Places(s.records) = CompleteOf(t, s, q, end)
    BY <2>1, RightPlaces
  <2>3. Complete(Records(text)) = CompleteOf(text, scanner, fed, done)
    BY DEF Complete, CompleteOf
  <2>4. Places(scanner.records) = CompleteOf(text, scanner, fed, done)
    BY <2>1, <2>2
  <2> QED BY <2>3, <2>4 DEF RecordsAreFound, Places
<1> QED BY <1>1, ScannerKeepsUp, PTL

-----------------------------------------------------------------------------
(* A row decoded by itself: a file cut off behind it.                      *)

\* p is the first m bytes of t.
IsHead(t, p, m) ==
    /\ p \in Seq(Byte) /\ Len(p) = m /\ m \in Nat /\ m <= Len(t)
    /\ \A i \in 1..m : p[i] = t[i]

LEMMA HeadQuoted ==
  ASSUME NEW t \in Seq(Byte), NEW p, NEW m, IsHead(t, p, m), NEW i \in 1..(m + 1)
  PROVE  Quoted(p, i) <=> Quoted(t, i)
<1>1. m \in Nat /\ \A j \in 1..m : p[j] = t[j]
  BY DEF IsHead
<1>2. \A j \in 1..(i - 1) : p[j] = t[j]
  BY <1>1
<1>3. {j \in 1..(i - 1) : p[j] = Quote} = {j \in 1..(i - 1) : t[j] = Quote}
  BY <1>2
<1> QED BY <1>3 DEF Quoted

LEMMA HeadLiteral ==
  ASSUME NEW t \in Seq(Byte), NEW p, NEW m, IsHead(t, p, m), NEW i \in 1..(m + 1)
  PROVE  Literal(p, i) <=> Literal(t, i)
<1>1. m \in Nat /\ \A j \in 1..m : p[j] = t[j]
  BY DEF IsHead
<1>2. CASE i = 1
  BY <1>2 DEF Literal
<1>3. CASE i > 1
  <2>1. i - 1 \in 1..m /\ i - 1 \in 1..(m + 1)
    BY <1>1, <1>3
  <2>2. Quoted(p, i - 1) <=> Quoted(t, i - 1)
    BY <2>1, HeadQuoted
  <2>3. p[i - 1] = t[i - 1]
    BY <1>1, <2>1
  <2> QED BY <1>3, <2>2, <2>3 DEF Literal
<1>4. i \in Nat /\ i >= 1
  BY <1>1
<1> QED BY <1>2, <1>3, <1>4

LEMMA HeadEnds ==
  ASSUME NEW t \in Seq(Byte), NEW p, NEW m, IsHead(t, p, m), NEW o \in Nat
  PROVE  EndsTo(p, o, m) = EndsTo(t, o, m)
<1>1. m \in Nat /\ m <= Len(t) /\ Len(p) = m /\ \A j \in 1..m : p[j] = t[j]
  BY DEF IsHead
<1>2. ASSUME NEW i \in 1..m PROVE i \in LineEnds(p) <=> i \in LineEnds(t)
  <2>1. Quoted(p, i) <=> Quoted(t, i)
    <3>1. i \in 1..(m + 1)
      BY <1>1
    <3> QED BY <3>1, HeadQuoted
  <2>2. i \in 1..Len(t) /\ i \in 1..Len(p) /\ p[i] = t[i]
    BY <1>1
  <2>3. i > 1 => p[i - 1] = t[i - 1]
    BY <1>1
  <2> QED BY <2>1, <2>2, <2>3 DEF LineEnds
<1>3. LineEnds(p) \subseteq 1..m
  BY <1>1 DEF LineEnds
<1>4. LineEnds(t) \subseteq 1..Len(t) /\ Len(t) \in Nat
  BY LineEndsType
<1>5. \A i : i \in EndsTo(p, o, m) <=> i \in EndsTo(t, o, m)
  <2> SUFFICES ASSUME NEW i PROVE i \in EndsTo(p, o, m) <=> i \in EndsTo(t, o, m)
    OBVIOUS
  <2>1. i \in EndsTo(p, o, m) <=> i \in LineEnds(p) /\ o < i /\ i <= m
    BY DEF EndsTo
  <2>2. i \in EndsTo(t, o, m) <=> i \in LineEnds(t) /\ o < i /\ i <= m
    BY DEF EndsTo
  <2>3. i \in LineEnds(t) /\ i <= m => i \in 1..m
    BY <1>1, <1>4
  <2>4. i \in LineEnds(p) => i \in 1..m
    BY <1>3
  <2> QED BY <1>2, <2>1, <2>2, <2>3, <2>4
<1> QED BY <1>5

LEMMA HeadText ==
  ASSUME NEW t \in Seq(Byte), NEW p, NEW m, IsHead(t, p, m),
         NEW from \in Nat \ {0}, NEW to \in Nat, to <= m
  PROVE  FieldText(p, from, to) = FieldText(t, from, to)
<1> DEFINE K == Kept(t, from, to)
<1>1. m \in Nat /\ \A j \in 1..m : p[j] = t[j]
  BY DEF IsHead
<1>2. ASSUME NEW i \in from..to PROVE p[i] = t[i] /\ (Literal(p, i) <=> Literal(t, i))
  <2>1. i \in 1..m /\ i \in 1..(m + 1)
    BY <1>1
  <2> QED BY <1>1, <2>1, HeadLiteral
<1>3. Kept(p, from, to) = K
  <2>1. \A i : i \in Kept(p, from, to) <=> i \in K
    BY <1>2 DEF Kept
  <2> QED BY <2>1
<1>4. K \in SUBSET (1..to) /\ Cardinality(K) \in Nat
  BY KeptFinite
<1>5. ASSUME NEW k \in 1..Cardinality(K) PROVE p[Nth(K, k)] = t[Nth(K, k)]
  <2>1. Nth(K, k) \in K
    <3> HIDE DEF K
    <3> QED BY <1>4, NthIn
  <2>2. Nth(K, k) \in 1..m
    BY <1>1, <1>4, <2>1
  <2> QED BY <1>1, <2>2
<1>6. FieldText(p, from, to) = [k \in 1..Cardinality(K) |-> p[Nth(K, k)]]
  BY <1>3, FieldTextIs
<1>7. FieldText(t, from, to) = [k \in 1..Cardinality(K) |-> t[Nth(K, k)]]
  BY FieldTextIs
<1> HIDE DEF K
<1> QED BY <1>5, <1>6, <1>7

LEMMA HeadFields ==
  ASSUME NEW t \in Seq(Byte), NEW p, NEW m \in Nat, IsHead(t, p, m), NEW o \in Nat, o <= m
  PROVE  Fields(p, o, m) = Fields(t, o, m)
<1>1. \A j \in 1..m : p[j] = t[j]
  BY DEF IsHead
<1>2. Delims(p, o, m) = Delims(t, o, m)
  <2>1. ASSUME NEW i \in (o + 1)..m
        PROVE  p[i] = t[i] /\ (Quoted(p, i) <=> Quoted(t, i))
    <3>1. i \in 1..m /\ i \in 1..(m + 1)
      OBVIOUS
    <3> QED BY <1>1, <3>1, HeadQuoted
  <2>2. \A i : i \in Delims(p, o, m) <=> i \in Delims(t, o, m)
    BY <2>1 DEF Delims
  <2> QED BY <2>2
<1>3. Count(p, o, m) = Count(t, o, m)
  BY <1>2 DEF Count
<1>4. ASSUME NEW f \in 1..Bounded(Count(t, o, m))
      PROVE  FieldText(p, FromOf(p, o, m, f), ToOf(p, o, m, f))
               = FieldText(t, FromOf(t, o, m, f), ToOf(t, o, m, f))
  <2>1. FromOf(p, o, m, f) = FromOf(t, o, m, f) /\ ToOf(p, o, m, f) = ToOf(t, o, m, f)
    BY <1>2, <1>3 DEF FromOf, ToOf
  <2>2. f \in 1..Count(t, o, m)
    <3>1. Count(t, o, m) \in Nat \ {0}
      BY DelimsType
    <3> QED BY <3>1, BoundedType
  <2>3. /\ FromOf(t, o, m, f) \in Nat \ {0}
        /\ ToOf(t, o, m, f) \in Nat /\ ToOf(t, o, m, f) <= m
    BY <2>2, FieldWithin
  <2> DEFINE from == FromOf(t, o, m, f)
             to == ToOf(t, o, m, f)
  <2>4. from \in Nat \ {0} /\ to \in Nat /\ to <= m
    BY <2>3
  <2> HIDE DEF from, to
  <2>5. FieldText(p, from, to) = FieldText(t, from, to)
    BY <2>4, HeadText
  <2> QED BY <2>1, <2>5 DEF from, to
<1>5. Fields(p, o, m) = [f \in 1..Bounded(Count(t, o, m)) |->
                           FieldText(p, FromOf(p, o, m, f), ToOf(p, o, m, f))]
  BY <1>3, FieldsAre
<1>6. Fields(t, o, m) = [f \in 1..Bounded(Count(t, o, m)) |->
                           FieldText(t, FromOf(t, o, m, f), ToOf(t, o, m, f))]
  BY FieldsAre
<1> QED BY <1>4, <1>5, <1>6

\* A scanner may begin behind a line end.
LEMMA LineOrigin ==
  ASSUME NEW t \in Seq(Byte), NEW e \in LineEnds(t)
  PROVE  GoodOrigin(t, AfterEnd(t, e)) /\ AfterEnd(t, e) # 0
<1>1. e \in 1..Len(t) /\ ~Quoted(t, e) /\ t[e] \in {CR, LF} /\ Len(t) \in Nat
  BY DEF LineEnds
<1>2. t[e] # Quote
  BY <1>1, Distinct
<1>3. e \in Nat \ {0} /\ e + 1 \in Nat \ {0}
  BY <1>1
<1>4. ~Quoted(t, e + 1)
  BY <1>1, <1>2, <1>3, QuotedNext
<1>5. CASE t[e] = CR /\ e < Len(t) /\ t[e + 1] = LF
  <2>1. AfterEnd(t, e) = e + 1
    BY <1>3, <1>5, AfterEndType
  <2>2. ~Quoted(t, (e + 1) + 1)
    BY <1>3, <1>4, <1>5, QuotedNext, Distinct
  <2>3. ~Literal(t, (e + 1) + 1)
    BY <1>3, <1>5, Distinct DEF Literal
  <2>4. ~SplitsCrLf(t, e + 1)
    BY <1>5, Distinct DEF SplitsCrLf
  <2>5. e + 1 \in Nat /\ e + 1 <= Len(t) /\ e + 1 # 0
    BY <1>1, <1>5
  <2>6. GoodOrigin(t, e + 1)
    BY <2>2, <2>3, <2>4, <2>5 DEF GoodOrigin
  <2> QED BY <2>1, <2>5, <2>6
<1>6. CASE ~(t[e] = CR /\ e < Len(t) /\ t[e + 1] = LF)
  <2>1. AfterEnd(t, e) = e
    BY <1>3, <1>6, AfterEndType
  <2>2. ~Literal(t, e + 1)
    BY <1>2, <1>3 DEF Literal
  <2>3. ~SplitsCrLf(t, e)
    BY <1>6 DEF SplitsCrLf
  <2>4. GoodOrigin(t, e)
    BY <1>1, <1>4, <2>2, <2>3 DEF GoodOrigin
  <2> QED BY <1>1, <2>1, <2>4
<1> QED BY <1>5, <1>6

LEMMA HeadOrigin ==
  ASSUME NEW t \in Seq(Byte), NEW p, NEW m \in Nat, IsHead(t, p, m), NEW o \in Nat, o <= m,
         GoodOrigin(t, o)
  PROVE  GoodOrigin(p, o)
<1>1. Len(p) = m /\ m <= Len(t) /\ \A j \in 1..m : p[j] = t[j]
  BY DEF IsHead
<1>2. o + 1 \in 1..(m + 1)
  OBVIOUS
<1>3. (Quoted(p, o + 1) <=> Quoted(t, o + 1)) /\ (Literal(p, o + 1) <=> Literal(t, o + 1))
  BY <1>2, HeadQuoted, HeadLiteral
<1>4. Len(t) \in Nat
  OBVIOUS
<1>5. o < m => p[o + 1] = t[o + 1] /\ o < Len(t)
  BY <1>1, <1>4
<1>6. SplitsCrLf(p, o) => SplitsCrLf(t, o)
  <2> SUFFICES ASSUME SplitsCrLf(p, o) PROVE SplitsCrLf(t, o)
    OBVIOUS
  <2>1. o > 0 /\ o < m /\ p[o] = CR /\ p[o + 1] = LF /\ ~Quoted(p, o + 1)
    BY <1>1 DEF SplitsCrLf
  <2>2. p[o] = t[o]
    BY <1>1, <2>1
  <2> QED BY <1>3, <1>5, <2>1, <2>2 DEF SplitsCrLf
<1> QED BY <1>1, <1>3, <1>5, <1>6 DEF GoodOrigin

\* A record behind another one: it begins behind a line end, and holds none.
RowAt(t, r) ==
    /\ r \in Record
    /\ \E e \in LineEnds(t) : r.start = AfterEnd(t, e)
    /\ r.start <= r.end /\ r.end <= Len(t)
    /\ EndsTo(t, r.start, r.end) = {}
    /\ r.fields = Fields(t, r.start, r.end)

LEMMA RowFound ==
  ASSUME NEW t \in Seq(Byte), NEW o \in Nat, NEW rs \in Seq(Record), NEW k \in DOMAIN rs, k # 1,
         Found(t, o, rs)
  PROVE  RowAt(t, rs[k])
<1>1. rs[k] \in Record /\ k - 1 \in DOMAIN rs
  OBVIOUS
<1>2. /\ rs[k].end + 1 \in LineEnds(t)
      /\ rs[k].start = AfterEnd(t, rs[k - 1].end + 1)
      /\ rs[k].start <= rs[k].end
      /\ EndsTo(t, rs[k].start, rs[k].end) = {}
      /\ rs[k].fields = Fields(t, rs[k].start, rs[k].end)
  BY DEF Found
<1>3. rs[k - 1].end + 1 \in LineEnds(t)
  BY <1>1 DEF Found
<1>4. rs[k].end <= Len(t)
  <2>1. rs[k].end + 1 \in 1..Len(t) /\ Len(t) \in Nat
    BY <1>2, LineEndsType
  <2>2. rs[k].end \in Nat
    BY <1>1, RecordType
  <2> QED BY <2>1, <2>2
<1>5. \E e \in LineEnds(t) : rs[k].start = AfterEnd(t, e)
  BY <1>2, <1>3
<1> QED BY <1>1, <1>2, <1>4, <1>5 DEF RowAt

LEMMA RowIs ==
  ASSUME NEW t \in Seq(Byte), NEW s \in Scanner, NEW q \in Nat, NEW end \in BOOLEAN,
         Right(t, s, q, end), q <= Len(t), NEW k \in DOMAIN s.records, k # 1
  PROVE  RowAt(t, s.records[k])
<1>1. s.bomChecked
  BY NothingYet
<1> DEFINE o == BomLength(t)
<1>2. o \in Nat
  BY FileOrigin
<1>3. PICK rs : Reported(t, o, s, rs, q, end)
  BY <1>1, RightReports
<1> HIDE DEF o
<1>4. rs \in Seq(Record) /\ Found(t, o, rs)
  BY <1>3 DEF Reported
<1>5. CASE k \in DOMAIN rs
  <2>1. s.records[k] = rs[k]
    BY <1>2, <1>3, <1>5, ReportedIs
  <2>2. RowAt(t, rs[k])
    BY <1>2, <1>4, <1>5, RowFound
  <2> QED BY <2>1, <2>2
<1>6. CASE k \notin DOMAIN rs
  <2> DEFINE n == NextStart(t, o, rs)
  <2>1. k = Len(rs) + 1 /\ end /\ n < Len(t) /\ s.records[k] = LastRecord(t, n)
    BY <1>2, <1>3, <1>6, ReportedIs
  <2>2. Len(rs) \in DOMAIN rs /\ rs # <<>>
    BY <1>4, <2>1
  <2>3. rs[Len(rs)].end + 1 \in LineEnds(t)
    BY <1>4, <2>2 DEF Found
  <2>4. n = AfterEnd(t, rs[Len(rs)].end + 1)
    BY <2>2 DEF NextStart
  <2>5. EndsTo(t, n, Len(t)) = {}
    BY <1>3, <2>1 DEF Reported
  <2>6. s.records \in Seq(Record)
    BY ScannerFields
  <2>7. s.records[k] \in Record
    BY <2>6
  <2>8. Len(t) \in Nat
    OBVIOUS
  <2>9. n \in Nat
    <3>1. rs[Len(rs)] \in Record
      BY <1>4, <2>2
    <3>2. rs[Len(rs)].end + 1 \in Nat
      BY <3>1, RecordType
    <3> QED BY <2>4, <3>2, AfterEndType
  <2> HIDE DEF n
  <2>10. PICK r : r = s.records[k]
    OBVIOUS
  <2>11. r.start = n /\ r.end = Len(t) /\ r.fields = Fields(t, n, Len(t))
    BY <2>1, <2>10 DEF LastRecord
  <2>12. \E e \in LineEnds(t) : r.start = AfterEnd(t, e)
    BY <2>3, <2>4, <2>11
  <2>13. RowAt(t, r)
    BY <2>1, <2>5, <2>7, <2>8, <2>9, <2>10, <2>11, <2>12 DEF RowAt
  <2> QED BY <2>10, <2>13
<1> QED BY <1>5, <1>6

\* What a scanner of its own is fed of a row.
Alone(t, r) == Feed(Reset, SubSeq(t, r.start + 1, r.end), r.start, TRUE)

LEMMA HeadIs ==
  ASSUME NEW t \in Seq(Byte), NEW m \in Nat, m <= Len(t)
  PROVE  IsHead(t, Before(t, m), m)
<1>1. /\ SubSeq(t, 0 + 1, m) \in Seq(Byte) /\ Len(SubSeq(t, 0 + 1, m)) = m - 0
      /\ \A i \in 1..(m - 0) : SubSeq(t, 0 + 1, m)[i] = t[0 + i]
  BY PartIs
<1>2. SubSeq(t, 0 + 1, m) = Before(t, m)
  BY DEF Before
<1> HIDE DEF Before
<1>3. \A i \in 1..m : Before(t, m)[i] = t[i]
  BY <1>1, <1>2
<1> QED BY <1>1, <1>2, <1>3 DEF IsHead

LEMMA AloneFinishes ==
  ASSUME NEW t \in Seq(Byte), NEW r, RowAt(t, r)
  PROVE  \E p : IsHead(t, p, r.end) /\ Finished(p, r.start, Alone(t, r))
<1> DEFINE o == r.start
           m == r.end
           p == Before(t, m)
           chunk == SubSeq(t, o + 1, m)
           isEof == TRUE
           s == Checked(Reset, o)
<1>1. o \in Nat /\ m \in Nat /\ o <= m /\ m <= Len(t)
  BY RecordType DEF RowAt
<1>2. IsHead(t, p, m)
  <2> HIDE DEF m
  <2> QED BY <1>1, HeadIs
<1>3. GoodOrigin(t, o) /\ o # 0
  BY LineOrigin DEF RowAt
<1>4. p \in Seq(Byte) /\ Len(p) = m
  BY <1>2 DEF IsHead
<1> HIDE DEF o, m, p
<1>5. GoodOrigin(p, o)
  BY <1>1, <1>2, <1>3, HeadOrigin
<1>6. isEof \in BOOLEAN /\ (isEof <=> TRUE)
  OBVIOUS
<1>7. IsSlice(p, o, chunk, isEof) /\ m = o + Len(chunk)
  <2>1. /\ chunk \in Seq(Byte) /\ Len(chunk) = m - o
        /\ \A i \in 1..(m - o) : chunk[i] = t[o + i]
    BY <1>1, PartIs
  <2>2. \A i \in 1..m : p[i] = t[i]
    BY <1>2 DEF IsHead
  <2>3. \A i \in 1..(m - o) : o + i \in 1..m
    BY <1>1
  <2>4. m = o + Len(chunk)
    BY <1>1, <2>1
  <2> HIDE DEF chunk
  <2>5. \A i \in 1..Len(chunk) : chunk[i] = p[o + i]
    BY <2>1, <2>2, <2>3
  <2> QED BY <1>1, <1>4, <2>1, <2>4, <2>5 DEF IsSlice
<1>8. s \in Scanner /\ Scan(p, o, s, o) /\ Settled(s)
  <2>1. Reset = [Reset EXCEPT !.bomBuffer = <<>>]
    BY DEF Reset
  <2>2. <<>> \in Seq(Byte)
    BY EmptySeq
  <2> QED BY <1>4, <1>5, <2>1, <2>2, OriginScan
<1>9. Alone(t, r) = FeedRest(s, chunk, o, isEof)
  <2>1. Reset.bomChecked = FALSE /\ Reset.bomBuffer = <<>>
    BY DEF Reset
  <2>2. o > 0
    BY <1>1, <1>3
  <2>3. Alone(t, r) = Feed(Reset, chunk, o, TRUE)
    BY DEF Alone, o, m
  <2> QED BY <2>1, <2>2, <2>3 DEF Feed
<1> HIDE DEF chunk, s
<1>10. Fed(p, o, FeedRest(s, chunk, o, isEof), m, isEof)
  <2> HIDE DEF isEof
  <2> QED BY <1>1, <1>4, <1>6, <1>7, <1>8, FeedRestFeeds
<1>11. Finished(p, o, FeedRest(s, chunk, o, isEof))
  BY <1>6, <1>10 DEF Fed
<1>12. Finished(p, o, Alone(t, r))
  BY <1>9, <1>11
<1> QED BY <1>2, <1>12 DEF o, m

LEMMA RowAlone ==
  ASSUME NEW t \in Seq(Byte), NEW r, RowAt(t, r)
  PROVE  IF r.start = r.end THEN Alone(t, r).records = <<>> /\ r.fields = <<<<>>>>
         ELSE Alone(t, r).records = <<r>>
<1> DEFINE o == r.start
           m == r.end
<1>1. r \in Record /\ o \in Nat /\ m \in Nat /\ o <= m /\ m <= Len(t)
  BY RecordType DEF RowAt
<1>2. PICK p : IsHead(t, p, m) /\ Finished(p, o, Alone(t, r))
  BY AloneFinishes
<1>3. EndsTo(t, o, m) = {} /\ r.fields = Fields(t, o, m)
  BY DEF RowAt
<1> HIDE DEF o, m
<1>4. Len(p) = m /\ p \in Seq(Byte)
  BY <1>2 DEF IsHead
<1>5. PICK rs \in Seq(Record) :
         /\ Cardinality(EndsTo(p, o, m)) = Len(rs)
         /\ Alone(t, r).records = IF NextStart(p, o, rs) < m
                        THEN Append(rs, LastRecord(p, NextStart(p, o, rs)))
                        ELSE rs
  BY <1>2, <1>4 DEF Finished
<1>6. EndsTo(p, o, m) = {}
  BY <1>1, <1>2, <1>3, HeadEnds
<1>7. rs = <<>>
  <2>1. Len(rs) = 0
    BY <1>5, <1>6, FS_EmptySet
  <2> QED BY <2>1
<1>8. NextStart(p, o, rs) = o
  BY <1>7 DEF NextStart
<1>9. Fields(p, o, m) = Fields(t, o, m)
  BY <1>1, <1>2, HeadFields
<1>10. CASE o = m
  <2>1. Alone(t, r).records = <<>>
    BY <1>1, <1>5, <1>7, <1>8, <1>10
  <2>2. Fields(t, o, o) = <<<<>>>>
    BY <1>1, FieldsNone
  <2> QED BY <1>3, <1>10, <2>1, <2>2 DEF o, m
<1>11. CASE o # m
  <2>1. Alone(t, r).records = Append(<<>>, LastRecord(p, o))
    BY <1>1, <1>5, <1>7, <1>8, <1>11
  <2>2. LastRecord(p, o) = [start |-> o, end |-> m, fields |-> r.fields]
    BY <1>3, <1>4, <1>9 DEF LastRecord
  <2>3. r = [start |-> r.start, end |-> r.end, fields |-> r.fields]
    BY <1>1 DEF Record
  <2>4. LastRecord(p, o) = r
    BY <2>2, <2>3 DEF o, m
  <2>5. Append(<<>>, r) = <<r>>
    OBVIOUS
  <2> QED BY <1>11, <2>1, <2>4, <2>5 DEF o, m
<1> QED BY <1>10, <1>11

\* A row that readPage or refetch decodes by itself, with a scanner that sees only
\* the place the index has for it, has the fields it had in the file: nothing but
\* its own bytes decides how a row is read.
THEOREM RowsAlone == Spec => []RowsDecodeAlone
<1>1. ScannerIInv => RowsDecodeAlone
  <2> SUFFICES ASSUME ScannerIInv PROVE RowsDecodeAlone
    OBVIOUS
  <2>1. PICK t, s, q, end :
           /\ t = text /\ s = scanner /\ q = fed /\ end = done
           /\ t \in Seq(Byte) /\ s \in Scanner /\ q \in Nat /\ end \in BOOLEAN
           /\ Right(t, s, q, end) /\ q <= Len(t)
    BY RightKnows
  <2>2. ASSUME NEW k \in DOMAIN s.records \ {1}
        PROVE  LET r == s.records[k]
               IN  IF r.start = r.end THEN Alone(t, r).records = <<>> /\ r.fields = <<<<>>>>
                   ELSE Alone(t, r).records = <<r>>
    <3>1. PICK r : r = s.records[k]
      OBVIOUS
    <3>2. RowAt(t, r)
      BY <2>1, <3>1, RowIs
    <3> QED BY <2>1, <3>1, <3>2, RowAlone
  <2> QED BY <2>1, <2>2 DEF RowsDecodeAlone, Alone
<1> QED BY <1>1, ScannerKeepsUp, PTL

=============================================================================
