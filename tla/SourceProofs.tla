---------------------------- MODULE SourceProofs ----------------------------
(***************************************************************************)
(* What holds of pages and of the source worker whoever drives it: pager   *)
(* arithmetic, what a source hands out for a page, the types of what the   *)
(* worker's handlers build, and that each of its steps keeps the types of  *)
(* its state.  WorkerProofs and ViewerProofs build on it.                  *)
(***************************************************************************)
EXTENDS SourceWorker, FiniteSetTheorems, SequenceTheorems, TLAPS

-----------------------------------------------------------------------------
(* Division by the page size.                                              *)

\* Quotient and remainder of a row count, in the form the proofs below use.
LEMMA Division ==
    ASSUME NEW n \in Nat
    PROVE  /\ n \div PageSize \in Nat
           /\ n % PageSize \in 0..(PageSize - 1)
           /\ n = (PageSize * (n \div PageSize)) + (n % PageSize)
<1>1. n \div PageSize \in Nat
  BY PageSizeAssumption
<1>2. n % PageSize \in 0..(PageSize - 1)
  BY PageSizeAssumption
<1>3. n = (PageSize * (n \div PageSize)) + (n % PageSize)
  BY PageSizeAssumption
<1> QED
  BY <1>1, <1>2, <1>3

\* Products the solver does not find by itself.
LEMMA Product ==
    ASSUME NEW a \in Nat, NEW b \in Nat
    PROVE  /\ PageSize * a \in Nat
           /\ a <= b => PageSize * a <= PageSize * b
           /\ a < b => (PageSize * a) + PageSize <= PageSize * b
<1>1. PageSize * a \in Nat
  BY PageSizeAssumption
<1>2. a <= b => PageSize * a <= PageSize * b
  BY PageSizeAssumption
<1>3. a < b => (PageSize * a) + PageSize <= PageSize * b
  BY PageSizeAssumption
<1> QED
  BY <1>1, <1>2, <1>3

\* The last page, as SqliteTableSource::last and CsvFileSource::last cut it, is
\* not empty and no longer than a page or than the table.
THEOREM LastPageIsAPage ==
    ASSUME NEW total \in Nat \ {0}
    PROVE  /\ LastPageSize(total) \in 1..PageSize
           /\ LastPageSize(total) <= total
<1> DEFINE q == total \div PageSize
           r == total % PageSize
<1>1. q \in Nat /\ r \in 0..(PageSize - 1) /\ total = (PageSize * q) + r
  BY Division
<1>2. CASE r = 0
  <2>1. q # 0
    BY <1>1, <1>2, PageSizeAssumption
  <2>2. PageSize <= PageSize * q
    <3>1. 0 < q
      BY <1>1, <2>1
    <3>2. (PageSize * 0) + PageSize <= PageSize * q
      BY <1>1, <3>1, Product
    <3> QED
      BY <3>2, PageSizeAssumption
  <2>3. LastPageSize(total) = PageSize
    BY <1>2 DEF LastPageSize
  <2> QED
    BY <1>1, <1>2, <2>2, <2>3, PageSizeAssumption
<1>3. CASE r # 0
  <2>1. LastPageSize(total) = r
    BY <1>3 DEF LastPageSize
  <2>2. PageSize * q \in Nat
    BY <1>1, Product
  <2> HIDE DEF q, r
  <2> QED
    BY <1>1, <1>3, <2>1, <2>2, PageSizeAssumption
<1> QED
  BY <1>2, <1>3

\* PagerState::canNext with a known total: a page follows page number n exactly
\* when rows do, so a full last page is not followed by an empty one and no row
\* lies beyond the last page.
THEOREM NextPageIffRowsFollow ==
    ASSUME NEW total \in Nat, NEW n \in Nat \ {0}
    PROVE  n < PageCount(total) <=> n * PageSize < total
<1> DEFINE q == total \div PageSize
           r == total % PageSize
<1>1. q \in Nat /\ r \in 0..(PageSize - 1) /\ total = (PageSize * q) + r
  BY Division
<1>2. total # NoTotal
  BY DEF NoTotal
<1>3. CASE total = 0
  <2>1. PageCount(total) = 1
    BY <1>2, <1>3 DEF PageCount
  <2>2. PageSize * n \in Nat
    BY Product
  <2>3. n * PageSize = PageSize * n
    BY PageSizeAssumption
  <2> QED
    BY <1>3, <2>1, <2>2, <2>3
<1>4. CASE total # 0
  <2>1. PageCount(total) = q + (IF r # 0 THEN 1 ELSE 0)
    BY <1>2, <1>4 DEF PageCount
  <2>2. n * PageSize = PageSize * n /\ PageSize * n \in Nat /\ PageSize * q \in Nat
    BY <1>1, Product, PageSizeAssumption
  <2>3. n < q => (PageSize * n) + PageSize <= PageSize * q
    BY <1>1, Product
  <2>4. q < n => (PageSize * q) + PageSize <= PageSize * n
    BY <1>1, Product
  <2>5. n = q => PageSize * n = PageSize * q
    OBVIOUS
  <2> HIDE DEF q, r
  <2>6. n < q \/ n = q \/ q < n
    BY <1>1
  <2>7. CASE n < q
    BY <1>1, <2>1, <2>2, <2>3, <2>7, PageSizeAssumption
  <2>8. CASE n = q
    BY <1>1, <2>1, <2>2, <2>5, <2>8, PageSizeAssumption
  <2>9. CASE q < n
    BY <1>1, <2>1, <2>2, <2>4, <2>9, PageSizeAssumption
  <2> QED
    BY <2>6, <2>7, <2>8, <2>9
<1> QED
  BY <1>3, <1>4

-----------------------------------------------------------------------------
(* Orders.                                                                 *)

\* The rows of a table have a strict order of their own whatever they are
\* sorted by: the rowid breaks ties, so no two rows are left incomparable.
IsStrictOrder(S, order) ==
    /\ \A a \in S : ~Precedes(order, a, a)
    /\ \A a, b, c \in S :
         Precedes(order, a, b) /\ Precedes(order, b, c) => Precedes(order, a, c)
    /\ \A a, b \in S : a # b => Precedes(order, a, b) \/ Precedes(order, b, a)

\* Numbers are strictly ordered.
LEMMA NaturalOrder ==
    ASSUME NEW S \in SUBSET Int
    PROVE  IsStrictOrder(S, Unsorted)
BY DEF IsStrictOrder, Precedes

\* A sort by a column, ties broken by rowid, orders the rows strictly.
LEMMA SortOrder ==
    ASSUME NEW S \in SUBSET Row, NEW order \in SortState
    PROVE  IsStrictOrder(S, order)
<1> DEFINE k == Key[order.column]
<1>1. order.column \in Column /\ order.ascending \in BOOLEAN
  BY DEF SortState
<1>2. k \in [Row -> Int] /\ Row \subseteq Int
  BY <1>1, TableAssumption
<1>3. CASE order = Unsorted
  BY <1>2, <1>3, NaturalOrder
<1>4. CASE order # Unsorted
  <2> DEFINE before(x, y) == k[x] < k[y] \/ (k[x] = k[y] /\ x < y)
  <2>1. \A a, b : Precedes(order, a, b) <=> IF order.ascending THEN before(a, b) ELSE before(b, a)
    BY <1>4 DEF Precedes
  <2>2. \A a \in S : k[a] \in Int /\ a \in Int
    BY <1>2
  <2> HIDE DEF k
  <2>3. /\ \A a \in S : ~before(a, a)
        /\ \A a, b, c \in S : before(a, b) /\ before(b, c) => before(a, c)
        /\ \A a, b \in S : a # b => before(a, b) \/ before(b, a)
    BY <2>2
  <2> HIDE DEF before
  <2> QED
    BY <1>1, <2>1, <2>3 DEF IsStrictOrder
<1> QED
  BY <1>3, <1>4

\* Numbering the rows of a finite table by how many precede them leaves no
\* number out and gives none twice: Ranked really lists the table, in order.  It is what
\* ROW_NUMBER() promises the ordinal table of a sort.
THEOREM RankedEnumerates ==
    ASSUME NEW S, IsFiniteSet(S), NEW order, IsStrictOrder(S, order)
    PROVE  /\ Ranked(S, order) \in [1..Cardinality(S) -> S]
           /\ \A r \in S : \E i \in 1..Cardinality(S) : Ranked(S, order)[i] = r
           /\ \A i, j \in 1..Cardinality(S) :
                i < j => Precedes(order, Ranked(S, order)[i], Ranked(S, order)[j])
<1> DEFINE n == Cardinality(S)
           Below(r) == {q \in S : Precedes(order, q, r)}
           rank == [r \in S |-> Cardinality(Below(r))]
<1>1. n \in Nat
  BY FS_CardinalityType
<1>2. ASSUME NEW r \in S
      PROVE  IsFiniteSet(Below(r)) /\ rank[r] \in 0..(n - 1)
  <2>1. Below(r) \in SUBSET S /\ r \notin Below(r)
    BY DEF IsStrictOrder
  <2>2. /\ IsFiniteSet(Below(r))
        /\ Cardinality(Below(r)) <= n
        /\ n = Cardinality(Below(r)) => S = Below(r)
    BY <2>1, FS_Subset
  <2>3. Cardinality(Below(r)) \in Nat
    BY <2>2, FS_CardinalityType
  <2> QED
    BY <1>1, <2>1, <2>2, <2>3
<1>3. ASSUME NEW a \in S, NEW b \in S, Precedes(order, a, b)
      PROVE  rank[a] < rank[b]
  <2>1. Below(a) \in SUBSET Below(b) /\ a \in Below(b) /\ a \notin Below(a)
    BY <1>3 DEF IsStrictOrder
  <2>2. IsFiniteSet(Below(b))
    BY <1>2
  <2>3. /\ Cardinality(Below(a)) <= Cardinality(Below(b))
        /\ Cardinality(Below(b)) = Cardinality(Below(a)) => Below(b) = Below(a)
    BY <2>1, <2>2, FS_Subset
  <2>4. rank[a] \in 0..(n - 1) /\ rank[b] \in 0..(n - 1)
    BY <1>2
  <2>5. Cardinality(Below(a)) = rank[a] /\ Cardinality(Below(b)) = rank[b]
    OBVIOUS
  <2>6. rank[a] <= rank[b] /\ rank[a] # rank[b]
    BY <2>1, <2>3, <2>5
  <2> HIDE DEF rank
  <2> QED
    BY <1>1, <2>4, <2>6
<1>4. rank \in Injection(S, 0..(n - 1))
  <2>1. rank \in [S -> 0..(n - 1)]
    BY <1>2
  <2>2. ASSUME NEW a \in S, NEW b \in S, a # b
        PROVE  rank[a] # rank[b]
    <3>1. Precedes(order, a, b) \/ Precedes(order, b, a)
      BY <2>2 DEF IsStrictOrder
    <3>2. rank[a] < rank[b] \/ rank[b] < rank[a]
      BY <1>3, <3>1
    <3>3. rank[a] \in 0..(n - 1) /\ rank[b] \in 0..(n - 1)
      BY <1>2
    <3> HIDE DEF rank
    <3> QED
      BY <1>1, <3>2, <3>3
  <2> HIDE DEF rank
  <2> QED
    BY <2>1, <2>2 DEF Injection, IsInjective
<1>5. rank \in Surjection(S, 0..(n - 1))
  <2>1. IsFiniteSet(0..(n - 1)) /\ Cardinality(0..(n - 1)) = n
    BY <1>1, FS_Interval
  <2> QED
    BY <1>4, <2>1, FS_Injection
<1>6. \A i \in 1..n : \E r \in S : rank[r] = i - 1
  <2> HIDE DEF rank
  <2> QED
    BY <1>1, <1>5 DEF Surjection
<1>7. \A i \in 1..n : Ranked(S, order)[i] \in S /\ rank[Ranked(S, order)[i]] = i - 1
  <2> SUFFICES ASSUME NEW i \in 1..n
               PROVE  Ranked(S, order)[i] \in S /\ rank[Ranked(S, order)[i]] = i - 1
    OBVIOUS
  <2>1. \E r \in S : Cardinality({q \in S : Precedes(order, q, r)}) = i - 1
    BY <1>6
  <2>2. Ranked(S, order)[i]
           = CHOOSE r \in S : Cardinality({q \in S : Precedes(order, q, r)}) = i - 1
    BY DEF Ranked
  <2> QED
    BY <2>1, <2>2
<1>8. DOMAIN Ranked(S, order) = 1..n
  BY DEF Ranked
<1>9. ASSUME NEW r \in S
      PROVE  \E i \in 1..n : Ranked(S, order)[i] = r
  <2>1. rank[r] \in 0..(n - 1)
    BY <1>2
  <2>2. rank[r] + 1 \in 1..n
    BY <1>1, <2>1
  <2>3. /\ Ranked(S, order)[rank[r] + 1] \in S
        /\ rank[Ranked(S, order)[rank[r] + 1]] = rank[r]
    BY <1>7, <2>1, <2>2
  <2>4. Ranked(S, order)[rank[r] + 1] = r
    <3> HIDE DEF rank
    <3> QED
      BY <1>4, <2>3 DEF Injection, IsInjective
  <2> QED
    BY <2>2, <2>4
<1>10. Ranked(S, order) \in [1..n -> S]
  <2> DEFINE e(i) == CHOOSE r \in S : Cardinality(Below(r)) = i - 1
  <2>1. Ranked(S, order) = [i \in 1..n |-> e(i)]
    BY DEF Ranked
  <2>2. \A i \in 1..n : e(i) \in S
    BY <1>7, <2>1
  <2> HIDE DEF e
  <2> QED
    BY <2>1, <2>2
<1>11. ASSUME NEW i \in 1..n, NEW j \in 1..n, i < j
       PROVE  Precedes(order, Ranked(S, order)[i], Ranked(S, order)[j])
  <2> DEFINE a == Ranked(S, order)[i]
             b == Ranked(S, order)[j]
  <2>1. a \in S /\ b \in S /\ rank[a] = i - 1 /\ rank[b] = j - 1
    BY <1>7
  <2> HIDE DEF a, b, rank
  <2>2. a # b /\ ~(rank[b] < rank[a])
    BY <1>1, <1>11, <2>1
  <2>3. ~Precedes(order, b, a)
    BY <1>3, <2>1, <2>2
  <2> QED
    BY <2>1, <2>2, <2>3 DEF IsStrictOrder, a, b
<1> QED
  BY <1>9, <1>10, <1>11

-----------------------------------------------------------------------------
(* What a source answers.                                                  *)

\* A function on 1..n is a sequence.
LEMMA FiniteSeq ==
    ASSUME NEW S, NEW n \in Nat, NEW f \in [1..n -> S]
    PROVE  f \in Seq(S) /\ Len(f) = n
OBVIOUS

\* Rows in their own order form a sequence of them.
LEMMA RankedNumbers ==
    ASSUME NEW S \in SUBSET Nat, IsFiniteSet(S)
    PROVE  Ranked(S, Unsorted) \in Seq(S)
<1>1. IsStrictOrder(S, Unsorted)
  BY NaturalOrder
<1>2. Ranked(S, Unsorted) \in [1..Cardinality(S) -> S]
  BY <1>1, RankedEnumerates
<1>3. Cardinality(S) \in Nat
  BY FS_CardinalityType
<1> QED
  BY <1>2, <1>3, FiniteSeq

\* Cutting a sequence at either end leaves elements of it.
LEMMA Cuts ==
    ASSUME NEW S, NEW s \in Seq(S), NEW n \in Nat
    PROVE  AtMost(s, n) \in Seq(S) /\ FromEnd(s, n) \in Seq(S)
<1>1. Len(s) \in Nat /\ \A i \in 1..Len(s) : s[i] \in S
  OBVIOUS
<1>2. AtMost(s, n) \in Seq(S)
  <2> DEFINE m == IF Len(s) < n THEN Len(s) ELSE n
  <2>1. m \in Int /\ \A i \in 1..m : s[i] \in S
    BY <1>1
  <2> HIDE DEF m
  <2>2. SubSeq(s, 1, m) \in Seq(S)
    BY <2>1, SubSeqProperties
  <2> QED
    BY <2>2 DEF AtMost, m
<1>3. FromEnd(s, n) \in Seq(S)
  <2> DEFINE m == IF Len(s) < n THEN 1 ELSE Len(s) - n + 1
  <2>1. m \in Int /\ \A i \in m..Len(s) : s[i] \in S
    BY <1>1
  <2> HIDE DEF m
  <2>2. SubSeq(s, m, Len(s)) \in Seq(S)
    BY <1>1, <2>1, SubSeqProperties
  <2> QED
    BY <2>2 DEF FromEnd, m
<1> QED
  BY <1>2, <1>3

\* So does dropping its first n elements.
LEMMA Skip ==
    ASSUME NEW S, NEW s \in Seq(S), NEW n \in Nat
    PROVE  SubSeq(s, n + 1, Len(s)) \in Seq(S)
<1>1. Len(s) \in Int /\ n + 1 \in Int /\ \A i \in (n + 1)..Len(s) : s[i] \in S
  OBVIOUS
<1> QED
  BY <1>1, SubSeqProperties

\* The first and last element of a page.
LEMMA Ends ==
    ASSUME NEW s \in Seq(Nat), s # <<>>
    PROVE  Head(s) \in Nat /\ s[Len(s)] \in Nat
<1>1. Len(s) \in Nat /\ Len(s) # 0
  OBVIOUS
<1>2. s[1] \in Nat /\ s[Len(s)] \in Nat
  BY <1>1
<1> QED
  BY <1>2

\* A token a source makes.
LEMMA FreshToken ==
    ASSUME NEW n \in Nat, NEW b \in BOOLEAN
    PROVE  /\ NoToken \in Token
           /\ [NoToken EXCEPT !.valid = b, !.offset = n] \in Token
           /\ [NoToken EXCEPT !.offset = n] \in Token
BY DEF Token, NoToken

\* A page it hands out.
LEMMA PageType ==
    ASSUME NEW s \in Seq(Nat), NEW token \in Token, NEW more \in BOOLEAN
    PROVE  Page(s, token, more) \in PageResult
BY DEF Page, PageResult

\* And the page of a query that failed.
LEMMA FailedPageType == FailedPage \in PageResult
<1>1. NoToken \in Token
  BY DEF NoToken, Token
<1>2. <<>> \in Seq(Nat)
  BY EmptySeq
<1> QED
  BY <1>1, <1>2 DEF FailedPage, PageResult

\* Any part of the table is a finite set of numbers.
LEMMA RowFacts ==
    ASSUME NEW S \in SUBSET Row
    PROVE  S \in SUBSET Nat /\ IsFiniteSet(S) /\ Cardinality(S) \in Nat
<1>1. IsFiniteSet(S)
  BY TableAssumption, FS_Subset
<1> QED
  BY <1>1, TableAssumption, FS_CardinalityType

\* A sequence of rows is one of numbers.
LEMMA NaturalSeq ==
    ASSUME NEW S \in SUBSET Nat, NEW s \in Seq(S)
    PROVE  s \in Seq(Nat)
<1>1. s \in [1..Len(s) -> S] /\ Len(s) \in Nat
  BY LenProperties
<1>2. s \in [1..Len(s) -> Nat]
  BY <1>1
<1> QED
  BY <1>1, <1>2, FiniteSeq

\* Keyset paging yields pages.
LEMMA FetchByRowidType ==
    ASSUME NEW table \in SUBSET Row, NEW op \in PageOps, NEW token \in Token,
           NEW total \in Total, op = "last" => total \in Nat \ {0}
    PROVE  FetchByRowid(table, op, token, total) \in PageResult
<1> DEFINE all == Ranked(table, Unsorted)
           after == Ranked({r \in table : r > token.last}, Unsorted)
           before == Ranked({r \in table : r < token.first}, Unsorted)
           found == CASE op = "first" -> AtMost(all, PageSize)
                      [] op = "next"  -> AtMost(after, PageSize)
                      [] op = "prev"  -> FromEnd(before, PageSize)
                      [] op = "last"  -> FromEnd(all, LastPageSize(total))
           more == \/ op = "first" /\ Len(all) > PageSize
                   \/ op = "next" /\ Len(after) > PageSize
                   \/ op = "prev" /\ found # <<>>
           token2 == IF found = <<>> THEN NoToken
                     ELSE [valid |-> TRUE, first |-> Head(found),
                           last |-> found[Len(found)], offset |-> 0]
<1>1. ASSUME NEW S \in SUBSET table
      PROVE  Ranked(S, Unsorted) \in Seq(Nat)
  <2>1. S \in SUBSET Nat /\ IsFiniteSet(S)
    BY RowFacts
  <2>2. Ranked(S, Unsorted) \in Seq(S)
    BY <2>1, RankedNumbers
  <2> QED
    BY <2>1, <2>2, NaturalSeq
<1>2. all \in Seq(Nat) /\ after \in Seq(Nat) /\ before \in Seq(Nat)
  BY <1>1
<1>3. found \in Seq(Nat)
  <2> HIDE DEF all, after, before
  <2>1. PageSize \in Nat
    BY PageSizeAssumption
  <2>2. op = "last" => LastPageSize(total) \in Nat
    BY LastPageIsAPage
  <2>3. /\ AtMost(all, PageSize) \in Seq(Nat)
        /\ AtMost(after, PageSize) \in Seq(Nat)
        /\ FromEnd(before, PageSize) \in Seq(Nat)
        /\ op = "last" => FromEnd(all, LastPageSize(total)) \in Seq(Nat)
    BY <1>2, <2>1, <2>2, Cuts
  <2> QED
    BY <2>3 DEF PageOps
<1> HIDE DEF found
<1>4. more \in BOOLEAN
  OBVIOUS
<1>5. token2 \in Token
  <2>1. NoToken \in Token
    BY FreshToken
  <2>2. found # <<>> => Head(found) \in Nat /\ found[Len(found)] \in Nat
    BY <1>3, Ends
  <2> QED
    BY <2>1, <2>2 DEF Token
<1>6. Page(found, token2, more) \in PageResult
  <2> HIDE DEF token2, more
  <2> QED
    BY <1>3, <1>4, <1>5, PageType
<1>7. FetchByRowid(table, op, token, total) = Page(found, token2, more)
  BY DEF FetchByRowid, found
<1> QED
  BY <1>6, <1>7

\* So does LIMIT and OFFSET.
LEMMA FetchByOffsetType ==
    ASSUME NEW table \in SUBSET Row, NEW op \in PageOps, NEW token \in Token,
           NEW total \in Total, op = "last" => total \in Nat \ {0}
    PROVE  FetchByOffset(table, op, token, total) \in PageResult
<1> DEFINE all == Ranked(table, Unsorted)
           offset == CASE op = "first" -> 0
                       [] op = "next"  -> token.offset + PageSize
                       [] op = "prev"  -> IF token.offset > PageSize
                                          THEN token.offset - PageSize ELSE 0
                       [] op = "last"  -> total - LastPageSize(total)
           limit == CASE op \in {"first", "next"} -> PageSize + 1
                      [] op = "prev" -> PageSize
                      [] op = "last" -> LastPageSize(total)
           hit == AtMost(SubSeq(all, offset + 1, Len(all)), limit)
           found == AtMost(hit, PageSize)
           token2 == [NoToken EXCEPT !.valid = found # <<>>, !.offset = offset]
<1>1. PageSize \in Nat /\ token.offset \in Nat
  BY PageSizeAssumption DEF Token
<1>2. op = "last" => LastPageSize(total) \in Nat /\ total - LastPageSize(total) \in Nat
  BY LastPageIsAPage, PageSizeAssumption
<1>3. offset \in Nat /\ limit \in Nat
  BY <1>1, <1>2 DEF PageOps
<1>4. all \in Seq(Nat)
  <2>1. table \in SUBSET Nat /\ IsFiniteSet(table)
    BY RowFacts
  <2> QED
    BY <2>1, RankedNumbers, NaturalSeq
<1> HIDE DEF all, offset, limit
<1>5. SubSeq(all, offset + 1, Len(all)) \in Seq(Nat)
  BY <1>3, <1>4, Skip
<1>6. hit \in Seq(Nat)
  BY <1>3, <1>5, Cuts
<1> HIDE DEF hit
<1>7. found \in Seq(Nat)
  BY <1>1, <1>6, Cuts
<1> HIDE DEF found
<1>8. token2 \in Token
  BY <1>3, FreshToken
<1> HIDE DEF token2
<1>9. Page(found, token2, Len(hit) > PageSize) \in PageResult
  <2>1. (Len(hit) > PageSize) \in BOOLEAN
    OBVIOUS
  <2> QED
    BY <1>7, <1>8, <2>1, PageType
<1>10. FetchByOffset(table, op, token, total) = Page(found, token2, Len(hit) > PageSize)
  BY DEF FetchByOffset, all, offset, limit, hit, found, token2
<1> QED
  BY <1>9, <1>10

\* And the ordinal table of a sort.
LEMMA FetchByOrdinalType ==
    ASSUME NEW table \in SUBSET Row, NEW ordinals \in Seq(Row), NEW op \in PageOps,
           NEW token \in Token, NEW total \in Total
    PROVE  FetchByOrdinal(table, ordinals, op, token, total) \in PageResult
<1> DEFINE lo == CASE op = "first" -> 1
                   [] op = "next"  -> token.last + 1
                   [] op = "prev"  -> IF token.first > PageSize THEN token.first - PageSize ELSE 1
                   [] op = "last"  -> total - LastPageSize(total) + 1
           hi == CASE op \in {"first", "next"} -> lo + PageSize
                   [] op = "prev" -> token.first - 1
                   [] op = "last" -> total
           kept == {i \in DOMAIN ordinals : lo <= i /\ i <= hi /\ ordinals[i] \in table}
           in == Ranked(kept, Unsorted)
           hit == AtMost(in, PageSize)
           token2 == IF hit = <<>> THEN NoToken
                     ELSE [valid |-> TRUE, first |-> Head(hit),
                           last |-> hit[Len(hit)], offset |-> 0]
           result == [i \in DOMAIN hit |-> ordinals[hit[i]]]
           more == Len(in) > PageSize /\ op # "last"
<1>1. Len(ordinals) \in Nat /\ DOMAIN ordinals = 1..Len(ordinals)
      /\ \A i \in DOMAIN ordinals : ordinals[i] \in Nat
  <2>1. \A i \in 1..Len(ordinals) : ordinals[i] \in Row
    BY ElementOfSeq
  <2> QED
    BY <2>1, LenProperties, TableAssumption
<1>2. kept \in SUBSET Nat /\ kept \in SUBSET (1..Len(ordinals)) /\ IsFiniteSet(kept)
  <2>1. kept \in SUBSET (1..Len(ordinals))
    BY <1>1
  <2>2. IsFiniteSet(1..Len(ordinals))
    BY <1>1, FS_Interval
  <2> HIDE DEF kept
  <2>3. kept \in SUBSET Nat
    BY <1>1, <2>1
  <2>4. IsFiniteSet(kept)
    BY <2>1, <2>2, FS_Subset
  <2> QED
    BY <2>1, <2>3, <2>4
<1> HIDE DEF kept
<1>3. in \in Seq(kept)
  BY <1>2, RankedNumbers
<1> HIDE DEF in
<1>4. hit \in Seq(kept)
  BY <1>3, Cuts, PageSizeAssumption
<1> HIDE DEF hit
<1>5. Len(hit) \in Nat /\ DOMAIN hit = 1..Len(hit) /\ \A i \in DOMAIN hit : hit[i] \in kept
  BY <1>4, LenProperties, ElementOfSeq
<1>6. result \in Seq(Nat)
  <2>1. \A i \in 1..Len(hit) : ordinals[hit[i]] \in Nat
    BY <1>1, <1>2, <1>5
  <2>2. result \in [1..Len(hit) -> Nat]
    BY <1>5, <2>1
  <2> HIDE DEF result
  <2> QED
    BY <1>5, <2>2, FiniteSeq
<1>7. token2 \in Token
  <2>1. NoToken \in Token
    BY FreshToken
  <2>2. hit \in Seq(Nat)
    BY <1>2, <1>4, NaturalSeq
  <2>3. hit # <<>> => Head(hit) \in Nat /\ hit[Len(hit)] \in Nat
    BY <2>2, Ends
  <2> QED
    BY <2>1, <2>3 DEF Token
<1>8. more \in BOOLEAN
  OBVIOUS
<1>9. FetchByOrdinal(table, ordinals, op, token, total) = Page(result, token2, more)
  BY DEF FetchByOrdinal, kept, in, hit
<1> HIDE DEF result, token2, more
<1> QED
  BY <1>6, <1>7, <1>8, <1>9, PageType

\* The source worker waits for, and a file source reads, records that exist:
\* the first record of a page is never before the file.
THEOREM StartOrdinalType ==
    ASSUME NEW op \in PageOps, NEW token \in Token, NEW total \in Total
    PROVE  StartOrdinal(op, token, total) \in Nat
<1>1. PageSize \in Nat /\ token.offset \in Nat
  BY PageSizeAssumption DEF Token
<1>2. total \in Nat \/ total = -1
  BY DEF Total, NoTotal
<1>3. ~(total <= 0) => total \in Nat \ {0}
  BY <1>2
<1>4. ~(total <= 0) => total - LastPageSize(total) \in Nat
  BY <1>3, LastPageIsAPage, PageSizeAssumption
<1> QED
  BY <1>1, <1>4 DEF StartOrdinal, PageOps

\* And a file, whatever part of it is indexed.
LEMMA CsvFetchType ==
    ASSUME NEW s, s.indexed \in Nat, s.complete \in BOOLEAN,
           NEW op \in PageOps, NEW token \in Token, NEW total \in Total
    PROVE  CsvFetch(s, op, token, total) \in PageResult
<1> DEFINE start == StartOrdinal(op, token, total)
           size == IF start + PageSize <= s.indexed THEN PageSize ELSE s.indexed - start
           found == [i \in 1..size |-> start + i]
           empty == Page(<<>>, [NoToken EXCEPT !.offset = start], FALSE)
           token2 == [valid |-> TRUE, first |-> 0, last |-> 0, offset |-> start]
           more == s.indexed > start + Len(found) \/ ~s.complete
           page == Page(found, token2, more)
<1>1. start \in Nat /\ PageSize \in Nat
  BY StartOrdinalType, PageSizeAssumption
<1> HIDE DEF start
<1>2. empty \in PageResult
  <2>1. [NoToken EXCEPT !.offset = start] \in Token
    BY <1>1 DEF NoToken, Token
  <2>2. <<>> \in Seq(Nat)
    BY EmptySeq
  <2> QED
    BY <2>1, <2>2, PageType
<1>3. ~(start >= s.indexed) => page \in PageResult
  <2> SUFFICES ASSUME ~(start >= s.indexed)
               PROVE  page \in PageResult
    OBVIOUS
  <2>1. size \in Nat
    BY <1>1
  <2> HIDE DEF size
  <2>2. found \in [1..size -> Nat]
    BY <1>1, <2>1
  <2> HIDE DEF found
  <2>3. found \in Seq(Nat)
    BY <2>1, <2>2, FiniteSeq
  <2>4. token2 \in Token
    BY <1>1 DEF Token
  <2>5. more \in BOOLEAN
    OBVIOUS
  <2> HIDE DEF token2, more
  <2> QED
    BY <2>3, <2>4, <2>5, PageType
<1>4. CsvFetch(s, op, token, total) \in {FailedPage, empty} \/
      (~(start >= s.indexed) /\ CsvFetch(s, op, token, total) = page)
  BY DEF CsvFetch, start
<1> HIDE DEF empty, page
<1> QED
  BY <1>2, <1>3, <1>4, FailedPageType

\* Whatever the request, a source answers with rows of its table and a token
\* that can be handed back to it, or with a failure.
THEOREM FetchType ==
    ASSUME NEW s, s.indexed \in Nat, s.complete \in BOOLEAN, s.ordinals \in Seq(Row),
           NEW table \in SUBSET Row, NEW op \in PageOps, NEW token \in Token,
           NEW total \in Total
    PROVE  Fetch(s, table, op, token, total) \in PageResult
<1>1. CASE s.kind = "csv"
  BY <1>1, CsvFetchType DEF Fetch
<1>2. CASE s.kind # "csv"
  <2> DEFINE op2 == IF op = "last" /\ total = 0 THEN "first" ELSE op
  <2>1. op2 \in PageOps
    BY DEF PageOps
  <2>2. ~Refused(op, token, total) => (op2 = "last" => total \in Nat \ {0})
    BY DEF Refused, Total
  <2> HIDE DEF op2
  <2>3. FetchByOrdinal(table, s.ordinals, op2, token, total) \in PageResult
    BY <2>1, FetchByOrdinalType
  <2>4. ~Refused(op, token, total) =>
           /\ FetchByRowid(table, op2, token, total) \in PageResult
           /\ FetchByOffset(table, op2, token, total) \in PageResult
    BY <2>1, <2>2, FetchByRowidType, FetchByOffsetType
  <2>5. SqliteFetch(s, table, op, token, total) \in PageResult
    BY <2>3, <2>4, FailedPageType DEF SqliteFetch, op2
  <2> QED
    BY <1>2, <2>5 DEF Fetch
<1> QED
  BY <1>1, <1>2

-----------------------------------------------------------------------------
(* Pages are in order, whatever the token that asked for them.             *)

\* A part of an ordered sequence is ordered.
LEMMA OrderedPart ==
    ASSUME NEW S, NEW s \in Seq(S), NEW order, Ordered(order, s),
           NEW m \in Nat \ {0}, NEW n \in Int, n <= Len(s)
    PROVE  Ordered(order, SubSeq(s, m, n))
<1>1. \A i \in m..n : s[i] \in S
  BY LenProperties, ElementOfSeq
<1>2. /\ SubSeq(s, m, n) \in Seq(S)
      /\ Len(SubSeq(s, m, n)) = IF m <= n THEN n - m + 1 ELSE 0
      /\ \A i \in 1..(n - m + 1) : SubSeq(s, m, n)[i] = s[m + i - 1]
  BY <1>1, SubSeqProperties
<1>3. DOMAIN SubSeq(s, m, n) = 1..Len(SubSeq(s, m, n)) /\ DOMAIN s = 1..Len(s) /\ Len(s) \in Nat
  BY <1>2, LenProperties
<1> SUFFICES ASSUME NEW i \in DOMAIN SubSeq(s, m, n), NEW j \in DOMAIN SubSeq(s, m, n), i < j
             PROVE  Precedes(order, SubSeq(s, m, n)[i], SubSeq(s, m, n)[j])
  BY DEF Ordered
<1>4. i \in 1..(n - m + 1) /\ j \in 1..(n - m + 1) /\ i \in Int /\ j \in Int
  BY <1>2, <1>3
<1>5. m + i - 1 \in DOMAIN s /\ m + j - 1 \in DOMAIN s /\ m + i - 1 < m + j - 1
  BY <1>3, <1>4
<1>6. Precedes(order, s[m + i - 1], s[m + j - 1])
  BY <1>5 DEF Ordered
<1> QED
  BY <1>2, <1>4, <1>6

\* The parts pages are made of.
LEMMA OrderedCuts ==
    ASSUME NEW S, NEW s \in Seq(S), NEW order, Ordered(order, s), NEW n \in Nat
    PROVE  /\ Ordered(order, AtMost(s, n))
           /\ Ordered(order, FromEnd(s, n))
           /\ Ordered(order, SubSeq(s, n + 1, Len(s)))
<1>1. Len(s) \in Nat
  BY LenProperties
<1>2. Ordered(order, AtMost(s, n))
  BY <1>1, OrderedPart DEF AtMost
<1>3. Ordered(order, FromEnd(s, n))
  BY <1>1, OrderedPart DEF FromEnd
<1>4. Ordered(order, SubSeq(s, n + 1, Len(s)))
  BY <1>1, OrderedPart
<1> QED
  BY <1>2, <1>3, <1>4

\* Ranking puts a set in order.
LEMMA RankedOrdered ==
    ASSUME NEW S, IsFiniteSet(S), NEW order, IsStrictOrder(S, order)
    PROVE  Ranked(S, order) \in Seq(S) /\ Ordered(order, Ranked(S, order))
<1>1. Cardinality(S) \in Nat
  BY FS_CardinalityType
<1>2. Ranked(S, order) \in [1..Cardinality(S) -> S]
  BY RankedEnumerates
<1>3. Ranked(S, order) \in Seq(S)
  BY <1>1, <1>2, FiniteSeq
<1>4. DOMAIN Ranked(S, order) = 1..Cardinality(S)
  BY <1>2
<1>5. \A i, j \in 1..Cardinality(S) : i < j => Precedes(order, Ranked(S, order)[i], Ranked(S, order)[j])
  BY RankedEnumerates
<1> QED
  BY <1>3, <1>4, <1>5 DEF Ordered

\* Numbers in their own order.
LEMMA RankedInOrder ==
    ASSUME NEW S \in SUBSET Nat, IsFiniteSet(S)
    PROVE  Ranked(S, Unsorted) \in Seq(S) /\ Ordered(Unsorted, Ranked(S, Unsorted))
<1>1. IsStrictOrder(S, Unsorted)
  BY NaturalOrder
<1> QED
  BY <1>1, RankedOrdered

\* Keyset pages are in order.
LEMMA FetchByRowidOrdered ==
    ASSUME NEW table \in SUBSET Row, NEW op \in PageOps, NEW token \in Token,
           NEW total \in Total, op = "last" => total \in Nat \ {0}
    PROVE  Ordered(Unsorted, FetchByRowid(table, op, token, total).rows)
<1> DEFINE all == Ranked(table, Unsorted)
           after == Ranked({r \in table : r > token.last}, Unsorted)
           before == Ranked({r \in table : r < token.first}, Unsorted)
           found == CASE op = "first" -> AtMost(all, PageSize)
                      [] op = "next"  -> AtMost(after, PageSize)
                      [] op = "prev"  -> FromEnd(before, PageSize)
                      [] op = "last"  -> FromEnd(all, LastPageSize(total))
<1>1. ASSUME NEW S \in SUBSET table
      PROVE  Ranked(S, Unsorted) \in Seq(S) /\ Ordered(Unsorted, Ranked(S, Unsorted))
  <2>1. S \in SUBSET Nat /\ IsFiniteSet(S)
    BY RowFacts
  <2> QED
    BY <2>1, RankedInOrder
<1>2. /\ Ordered(Unsorted, AtMost(all, PageSize))
      /\ LastPageSize(total) \in Nat => Ordered(Unsorted, FromEnd(all, LastPageSize(total)))
  BY <1>1, OrderedCuts, PageSizeAssumption
<1>3. Ordered(Unsorted, AtMost(after, PageSize))
  <2> DEFINE S == {r \in table : r > token.last}
  <2>1. S \in SUBSET table
    OBVIOUS
  <2> HIDE DEF S
  <2>2. Ranked(S, Unsorted) \in Seq(S) /\ Ordered(Unsorted, Ranked(S, Unsorted))
    BY <1>1, <2>1
  <2>3. Ordered(Unsorted, AtMost(Ranked(S, Unsorted), PageSize))
    BY <2>2, OrderedCuts, PageSizeAssumption
  <2> QED
    BY <2>3 DEF S
<1>4. Ordered(Unsorted, FromEnd(before, PageSize))
  <2> DEFINE S == {r \in table : r < token.first}
  <2>1. S \in SUBSET table
    OBVIOUS
  <2> HIDE DEF S
  <2>2. Ranked(S, Unsorted) \in Seq(S) /\ Ordered(Unsorted, Ranked(S, Unsorted))
    BY <1>1, <2>1
  <2>3. Ordered(Unsorted, FromEnd(Ranked(S, Unsorted), PageSize))
    BY <2>2, OrderedCuts, PageSizeAssumption
  <2> QED
    BY <2>3 DEF S
<1>5. op = "last" => LastPageSize(total) \in Nat
  BY LastPageIsAPage, PageSizeAssumption
<1> HIDE DEF all, after, before
<1>6. Ordered(Unsorted, found)
  BY <1>2, <1>3, <1>4, <1>5 DEF PageOps
<1>7. FetchByRowid(table, op, token, total).rows = found
  BY DEF FetchByRowid, Page, all, after, before
<1> QED
  BY <1>6, <1>7

\* Pages by offset are in order.
LEMMA FetchByOffsetOrdered ==
    ASSUME NEW table \in SUBSET Row, NEW op \in PageOps, NEW token \in Token,
           NEW total \in Total, op = "last" => total \in Nat \ {0}
    PROVE  Ordered(Unsorted, FetchByOffset(table, op, token, total).rows)
<1> DEFINE all == Ranked(table, Unsorted)
           offset == CASE op = "first" -> 0
                       [] op = "next"  -> token.offset + PageSize
                       [] op = "prev"  -> IF token.offset > PageSize
                                          THEN token.offset - PageSize ELSE 0
                       [] op = "last"  -> total - LastPageSize(total)
           limit == CASE op \in {"first", "next"} -> PageSize + 1
                      [] op = "prev" -> PageSize
                      [] op = "last" -> LastPageSize(total)
           rest == SubSeq(all, offset + 1, Len(all))
           hit == AtMost(rest, limit)
           found == AtMost(hit, PageSize)
<1>1. PageSize \in Nat /\ token.offset \in Nat
  BY PageSizeAssumption DEF Token
<1>2. op = "last" => LastPageSize(total) \in Nat /\ total - LastPageSize(total) \in Nat
  BY LastPageIsAPage, PageSizeAssumption
<1>3. offset \in Nat /\ limit \in Nat
  BY <1>1, <1>2 DEF PageOps
<1>4. all \in Seq(table) /\ Ordered(Unsorted, all)
  BY RowFacts, RankedInOrder
<1> HIDE DEF all, offset, limit
<1>5. rest \in Seq(table) /\ Ordered(Unsorted, rest)
  BY <1>3, <1>4, Skip, OrderedCuts
<1> HIDE DEF rest
<1>6. hit \in Seq(table) /\ Ordered(Unsorted, hit)
  BY <1>3, <1>5, Cuts, OrderedCuts
<1> HIDE DEF hit
<1>7. Ordered(Unsorted, found)
  BY <1>1, <1>6, OrderedCuts
<1> HIDE DEF found
<1>8. FetchByOffset(table, op, token, total).rows = found
  BY DEF FetchByOffset, Page, all, offset, limit, rest, hit, found
<1> QED
  BY <1>7, <1>8

\* Pages of an ordinal table are in the order the table was made in.
LEMMA FetchByOrdinalOrdered ==
    ASSUME NEW table \in SUBSET Row, NEW ordinals \in Seq(Row), NEW op, NEW token, NEW total,
           NEW order, Ordered(order, ordinals)
    PROVE  Ordered(order, FetchByOrdinal(table, ordinals, op, token, total).rows)
<1> DEFINE lo == CASE op = "first" -> 1
                   [] op = "next"  -> token.last + 1
                   [] op = "prev"  -> IF token.first > PageSize THEN token.first - PageSize ELSE 1
                   [] op = "last"  -> total - LastPageSize(total) + 1
           hi == CASE op \in {"first", "next"} -> lo + PageSize
                   [] op = "prev" -> token.first - 1
                   [] op = "last" -> total
           kept == {i \in DOMAIN ordinals : lo <= i /\ i <= hi /\ ordinals[i] \in table}
           in == Ranked(kept, Unsorted)
           hit == AtMost(in, PageSize)
           result == [i \in DOMAIN hit |-> ordinals[hit[i]]]
<1>1. Len(ordinals) \in Nat /\ DOMAIN ordinals = 1..Len(ordinals)
  BY LenProperties
<1>2. kept \in SUBSET (1..Len(ordinals)) /\ kept \in SUBSET Nat /\ IsFiniteSet(kept)
  <2>1. kept \in SUBSET (1..Len(ordinals))
    BY <1>1
  <2>2. IsFiniteSet(1..Len(ordinals))
    BY <1>1, FS_Interval
  <2> HIDE DEF kept
  <2>3. kept \in SUBSET Nat
    BY <1>1, <2>1
  <2>4. IsFiniteSet(kept)
    BY <2>1, <2>2, FS_Subset
  <2> QED
    BY <2>1, <2>3, <2>4
<1> HIDE DEF kept
<1>3. in \in Seq(kept) /\ Ordered(Unsorted, in)
  BY <1>2, RankedInOrder
<1> HIDE DEF in
<1>4. hit \in Seq(kept) /\ Ordered(Unsorted, hit)
  BY <1>3, Cuts, OrderedCuts, PageSizeAssumption
<1> HIDE DEF hit
<1>5. \A i \in DOMAIN hit : hit[i] \in DOMAIN ordinals
  BY <1>1, <1>2, <1>4, LenProperties, ElementOfSeq
<1>6. Ordered(order, result)
  <2> SUFFICES ASSUME NEW i \in DOMAIN hit, NEW j \in DOMAIN hit, i < j
               PROVE  Precedes(order, ordinals[hit[i]], ordinals[hit[j]])
    BY DEF Ordered
  <2>1. hit[i] < hit[j]
    BY <1>4 DEF Ordered, Precedes
  <2> QED
    BY <1>5, <2>1 DEF Ordered
<1>7. FetchByOrdinal(table, ordinals, op, token, total).rows = result
  BY DEF FetchByOrdinal, Page, kept, in, hit
<1> QED
  BY <1>6, <1>7

\* Pages of a file are in order.
LEMMA CsvFetchOrdered ==
    ASSUME NEW s, s.indexed \in Nat, NEW op \in PageOps, NEW token \in Token, NEW total \in Total
    PROVE  Ordered(Unsorted, CsvFetch(s, op, token, total).rows)
<1> DEFINE start == StartOrdinal(op, token, total)
           size == IF start + PageSize <= s.indexed THEN PageSize ELSE s.indexed - start
           found == [i \in 1..size |-> start + i]
<1>1. start \in Nat /\ PageSize \in Nat
  BY StartOrdinalType, PageSizeAssumption
<1>2. CsvFetch(s, op, token, total).rows = <<>>
      \/ CsvFetch(s, op, token, total).rows = found
  BY DEF CsvFetch, Page, FailedPage
<1> HIDE DEF start
<1>3. size \in Int
  BY <1>1
<1> HIDE DEF size
<1>4. Ordered(Unsorted, found)
  BY <1>1, <1>3 DEF Ordered, Precedes
<1>5. Ordered(Unsorted, <<>>)
  BY DEF Ordered
<1> QED
  BY <1>2, <1>4, <1>5

\* A source never hands out rows that repeat or go backwards: a page is in the
\* order the source is in, whatever the request, its token and its total, and
\* whatever was deleted from the table since the token was cut.
THEOREM FetchInOrder ==
    ASSUME NEW s, s.indexed \in Nat, s.ordinals \in Seq(Row),
           s.order # Unsorted => s.kind # "csv" /\ Ordered(s.order, s.ordinals),
           NEW table \in SUBSET Row, NEW op \in PageOps, NEW token \in Token,
           NEW total \in Total
    PROVE  Ordered(s.order, Fetch(s, table, op, token, total).rows)
<1>1. Ordered(s.order, FailedPage.rows)
  BY DEF Ordered, FailedPage
<1>2. CASE s.kind = "csv"
  <2>1. Ordered(Unsorted, CsvFetch(s, op, token, total).rows)
    BY CsvFetchOrdered
  <2>2. s.order = Unsorted
    BY <1>2
  <2>3. Fetch(s, table, op, token, total).rows = CsvFetch(s, op, token, total).rows
    BY <1>2 DEF Fetch
  <2> QED
    BY <2>1, <2>2, <2>3
<1>3. CASE s.kind # "csv"
  <2> DEFINE op2 == IF op = "last" /\ total = 0 THEN "first" ELSE op
  <2>1. op2 \in PageOps
    BY DEF PageOps
  <2>2. ~Refused(op, token, total) => (op2 = "last" => total \in Nat \ {0})
    BY DEF Refused, Total
  <2>3. Fetch(s, table, op, token, total) =
           IF Refused(op, token, total) THEN FailedPage
           ELSE IF s.order # Unsorted THEN FetchByOrdinal(table, s.ordinals, op2, token, total)
           ELSE IF s.kind = "rowid" THEN FetchByRowid(table, op2, token, total)
           ELSE FetchByOffset(table, op2, token, total)
    BY <1>3 DEF Fetch, SqliteFetch, op2
  <2> HIDE DEF op2
  <2>4. CASE s.order # Unsorted
    <3>1. Ordered(s.order, FetchByOrdinal(table, s.ordinals, op2, token, total).rows)
      BY <2>4, FetchByOrdinalOrdered
    <3> QED
      BY <1>1, <2>3, <2>4, <3>1
  <2>5. CASE s.order = Unsorted
    <3>1. ~Refused(op, token, total) =>
             /\ Ordered(Unsorted, FetchByRowid(table, op2, token, total).rows)
             /\ Ordered(Unsorted, FetchByOffset(table, op2, token, total).rows)
      BY <2>1, <2>2, FetchByRowidOrdered, FetchByOffsetOrdered
    <3> QED
      BY <1>1, <2>3, <2>5, <3>1
  <2> QED
    BY <2>4, <2>5
<1> QED
  BY <1>2, <1>3

-----------------------------------------------------------------------------
(* Which rows a source answers with.  Every page is a run of rows: m of    *)
(* them, after the first o.                                                *)

Run(s, o, m) == [i \in 1..m |-> s[o + i]]
Within(s, o, m) == m = 0 \/ o + m <= Len(s)

\* How many of n rows are there after the first o.
Left(len, o, n) == IF len <= o THEN 0 ELSE IF len - o < n THEN len - o ELSE n

\* There are that many.
LEMMA LeftType ==
    ASSUME NEW len \in Nat, NEW o \in Nat, NEW n \in Nat
    PROVE  /\ Left(len, o, n) \in Nat /\ Left(len, o, n) <= n
           /\ o < len => o + Left(len, o, n) <= len
           /\ len <= o => Left(len, o, n) = 0
           /\ Left(len, o, n) < n /\ o <= len => o + Left(len, o, n) = len
           /\ o + n <= len => Left(len, o, n) = n
BY DEF Left

\* A run is a sequence.
LEMMA RunType ==
    ASSUME NEW S, NEW s \in Seq(S), NEW o \in Nat, NEW m \in Nat, Within(s, o, m)
    PROVE  /\ Run(s, o, m) \in Seq(S) /\ Len(Run(s, o, m)) = m
           /\ \A i \in 1..m : Run(s, o, m)[i] = s[o + i]
           /\ Run(s, o, m) = <<>> <=> m = 0
<1>1. Len(s) \in Nat /\ \A i \in 1..Len(s) : s[i] \in S
  BY LenProperties
<1>2. \A i \in 1..m : o + i \in 1..Len(s)
  BY <1>1 DEF Within
<1>3. Run(s, o, m) \in [1..m -> S]
  BY <1>1, <1>2 DEF Run
<1>4. Run(s, o, m) \in Seq(S) /\ Len(Run(s, o, m)) = m
  BY <1>3, FiniteSeq
<1>5. \A i \in 1..m : Run(s, o, m)[i] = s[o + i]
  BY DEF Run
<1>6. Run(s, o, m) = <<>> <=> m = 0
  BY <1>4, EmptySeq
<1> QED
  BY <1>4, <1>5, <1>6

\* A sequence with the elements of a run is that run.
LEMMA SameRun ==
    ASSUME NEW S, NEW s \in Seq(S), NEW o \in Nat, NEW m \in Nat, Within(s, o, m),
           NEW t \in Seq(S), Len(t) = m, \A i \in 1..m : t[i] = s[o + i]
    PROVE  t = Run(s, o, m)
<1>1. Run(s, o, m) \in Seq(S)
  BY RunType
<1>2. Len(Run(s, o, m)) = m
  BY RunType
<1>3. \A i \in 1..m : Run(s, o, m)[i] = s[o + i]
  BY DEF Run
<1>4. \A i \in 1..Len(t) : t[i] = Run(s, o, m)[i]
  BY <1>3
<1> QED
  BY <1>1, <1>2, <1>4, SeqEqual

\* The first n elements after the first o.
LEMMA CutOut ==
    ASSUME NEW S, NEW s \in Seq(S), NEW o \in Nat, NEW n \in Nat
    PROVE  AtMost(SubSeq(s, o + 1, Len(s)), n) = Run(s, o, Left(Len(s), o, n))
<1> DEFINE rest == SubSeq(s, o + 1, Len(s))
           m == Left(Len(s), o, n)
<1>1. Len(s) \in Nat /\ \A i \in 1..Len(s) : s[i] \in S
  BY LenProperties
<1>2. \A i \in (o + 1)..Len(s) : s[i] \in S
  BY <1>1
<1>3. /\ rest \in Seq(S)
      /\ Len(rest) = IF o + 1 <= Len(s) THEN Len(s) - (o + 1) + 1 ELSE 0
      /\ \A i \in 1..(Len(s) - (o + 1) + 1) : rest[i] = s[o + 1 + i - 1]
  BY <1>1, <1>2, SubSeqProperties
<1> HIDE DEF rest
<1>4. m \in Nat /\ (m = 0 \/ o + m <= Len(s)) /\ m = IF Len(rest) < n THEN Len(rest) ELSE n
  BY <1>1, <1>3 DEF Left
<1>5. m <= Len(rest) /\ Len(rest) \in Nat
  BY <1>1, <1>3, <1>4
<1>6. \A i \in 1..m : i \in 1..Len(rest) /\ i \in 1..(Len(s) - (o + 1) + 1) /\ o + 1 + i - 1 = o + i
  BY <1>1, <1>3, <1>4
<1> HIDE DEF m
<1>7. \A i \in 1..m : rest[i] \in S
  BY <1>3, <1>6
<1>8. /\ SubSeq(rest, 1, m) \in Seq(S)
      /\ Len(SubSeq(rest, 1, m)) = m
      /\ \A i \in 1..m : SubSeq(rest, 1, m)[i] = rest[1 + i - 1]
  <2>1. m - 1 + 1 = m /\ (1 <= m \/ m = 0) /\ 1 \in Int /\ m \in Int
    BY <1>4
  <2> QED
    BY <1>7, <2>1, SubSeqProperties
<1>9. \A i \in 1..m : SubSeq(rest, 1, m)[i] = s[o + i]
  <2> SUFFICES ASSUME NEW i \in 1..m PROVE SubSeq(rest, 1, m)[i] = s[o + i]
    OBVIOUS
  <2>1. 1 + i - 1 = i
    BY <1>4
  <2> QED
    BY <1>3, <1>6, <1>8, <2>1
<1>10. AtMost(rest, n) = SubSeq(rest, 1, m)
  BY <1>4 DEF AtMost
<1>11. Within(s, o, m)
  BY <1>4 DEF Within
<1>12. SubSeq(rest, 1, m) = Run(s, o, m)
  <2> DEFINE front == SubSeq(rest, 1, m)
  <2>1. front \in Seq(S) /\ Len(front) = m /\ \A i \in 1..m : front[i] = s[o + i]
    BY <1>8, <1>9
  <2>2. m \in Nat
    BY <1>4
  <2> HIDE DEF front
  <2>3. front = Run(s, o, m)
    BY <1>11, <2>1, <2>2, SameRun, Zenon
  <2> QED
    BY <2>3 DEF front
<1> QED
  BY <1>10, <1>12 DEF rest, m

\* The first n elements.
LEMMA CutFront ==
    ASSUME NEW S, NEW s \in Seq(S), NEW n \in Nat
    PROVE  AtMost(s, n) = Run(s, 0, Left(Len(s), 0, n))
<1>1. Len(s) \in Nat
  BY LenProperties
<1>2. SubSeq(s, 1, Len(s)) = s
  <2>1. \A i \in 1..Len(s) : s[i] \in S
    BY LenProperties
  <2>2. /\ SubSeq(s, 1, Len(s)) \in Seq(S)
        /\ Len(SubSeq(s, 1, Len(s))) = IF 1 <= Len(s) THEN Len(s) - 1 + 1 ELSE 0
        /\ \A i \in 1..(Len(s) - 1 + 1) : SubSeq(s, 1, Len(s))[i] = s[1 + i - 1]
    BY <1>1, <2>1, SubSeqProperties
  <2>3. Len(SubSeq(s, 1, Len(s))) = Len(s)
    BY <1>1, <2>2
  <2>4. \A i \in 1..Len(s) : SubSeq(s, 1, Len(s))[i] = s[i]
    <3> SUFFICES ASSUME NEW i \in 1..Len(s) PROVE SubSeq(s, 1, Len(s))[i] = s[i]
      OBVIOUS
    <3>1. i \in 1..(Len(s) - 1 + 1) /\ 1 + i - 1 = i
      BY <1>1
    <3> QED
      BY <2>2, <3>1
  <2> QED
    BY <2>2, <2>3, <2>4, SeqEqual
<1>3. 0 \in Nat /\ 0 + 1 = 1
  OBVIOUS
<1>4. AtMost(SubSeq(s, 0 + 1, Len(s)), n) = Run(s, 0, Left(Len(s), 0, n))
  BY <1>3, CutOut, Zenon
<1> QED
  BY <1>2, <1>3, <1>4

\* The last n elements.
LEMMA CutBack ==
    ASSUME NEW S, NEW s \in Seq(S), NEW n \in Nat, n <= Len(s)
    PROVE  FromEnd(s, n) = Run(s, Len(s) - n, n)
<1> DEFINE o == Len(s) - n
           end == SubSeq(s, o + 1, Len(s))
<1>1. Len(s) \in Nat /\ \A i \in 1..Len(s) : s[i] \in S
  BY LenProperties
<1>2. o \in Nat /\ o + n = Len(s) /\ (IF Len(s) < n THEN 1 ELSE Len(s) - n + 1) = o + 1
  BY <1>1
<1>3. \A i \in (o + 1)..Len(s) : s[i] \in S
  BY <1>1, <1>2
<1> HIDE DEF o
<1>4. /\ end \in Seq(S)
      /\ Len(end) = IF o + 1 <= Len(s) THEN Len(s) - (o + 1) + 1 ELSE 0
      /\ \A i \in 1..(Len(s) - (o + 1) + 1) : end[i] = s[o + 1 + i - 1]
  BY <1>1, <1>2, <1>3, SubSeqProperties
<1>5. Len(end) = n
  BY <1>1, <1>2, <1>4
<1>6. \A i \in 1..n : end[i] = s[o + i]
  <2> SUFFICES ASSUME NEW i \in 1..n PROVE end[i] = s[o + i]
    OBVIOUS
  <2>1. i \in 1..(Len(s) - (o + 1) + 1) /\ o + 1 + i - 1 = o + i
    BY <1>1, <1>2
  <2> QED
    BY <1>4, <2>1
<1>7. FromEnd(s, n) = end
  BY <1>2 DEF FromEnd
<1>8. end = Run(s, o, n)
  <2>1. Within(s, o, n)
    BY <1>1, <1>2 DEF Within
  <2>2. end \in Seq(S)
    BY <1>4
  <2> HIDE DEF end
  <2> QED
    BY <1>2, <1>5, <1>6, <2>1, <2>2, SameRun, Zenon
<1> QED
  BY <1>7, <1>8 DEF o

\* A run of a run.
LEMMA RunOfRun ==
    ASSUME NEW s, NEW o \in Nat, NEW m \in Nat, NEW p \in Nat, NEW k \in Nat, p + k <= m
    PROVE  Run(Run(s, o, m), p, k) = Run(s, o + p, k)
<1>1. \A i \in 1..k : p + i \in 1..m /\ o + (p + i) = o + p + i
  OBVIOUS
<1>2. \A i \in 1..k : Run(s, o, m)[p + i] = s[o + p + i]
  BY <1>1 DEF Run
<1> QED
  BY <1>2 DEF Run

-----------------------------------------------------------------------------
\* A list that has every number of a set once, in order, is the ranking of it.
LEMMA RankedIs ==
    ASSUME NEW S \in SUBSET Nat, IsFiniteSet(S), NEW n \in Nat, NEW f \in [1..n -> S],
           \A i, j \in 1..n : i < j => f[i] < f[j],
           \A r \in S : \E i \in 1..n : f[i] = r
    PROVE  Cardinality(S) = n /\ Ranked(S, Unsorted) = f
<1>1. \A i \in 1..n : f[i] \in S /\ f[i] \in Nat
  OBVIOUS
<1>2. \A i, j \in 1..n : f[i] < f[j] <=> i < j
  BY <1>1
<1>3. \A i, j \in 1..n : f[i] = f[j] => i = j
  BY <1>1
<1>4. ASSUME NEW k \in 0..n, NEW T, T = {f[i] : i \in 1..k}
      PROVE  Cardinality(T) = k
  <2> DEFINE g == [i \in 1..k |-> f[i]]
  <2>1. g \in [1..k -> T]
    BY <1>4
  <2>2. \A i, j \in 1..k : g[i] = g[j] => i = j
    BY <1>3
  <2>3. \A r \in T : \E i \in 1..k : g[i] = r
    BY <1>4
  <2> HIDE DEF g
  <2>4. g \in Injection(1..k, T) /\ g \in Surjection(1..k, T)
    BY <2>1, <2>2, <2>3 DEF Injection, IsInjective, Surjection
  <2>5. IsFiniteSet(1..k) /\ Cardinality(1..k) = k
    BY FS_Interval
  <2>6. Cardinality(T) = Cardinality(1..k)
    BY <2>4, <2>5, FS_Surjection
  <2> QED
    BY <2>5, <2>6
<1>5. Cardinality(S) = n
  <2>1. S = {f[i] : i \in 1..n}
    BY <1>1
  <2>2. n \in 0..n
    OBVIOUS
  <2> QED
    BY <1>4, <2>1, <2>2
<1>6. ASSUME NEW i \in 1..n
      PROVE  Cardinality({q \in S : Precedes(Unsorted, q, f[i])}) = i - 1
  <2>1. {q \in S : Precedes(Unsorted, q, f[i])} = {f[j] : j \in 1..(i - 1)}
    <3>1. \A q \in S : Precedes(Unsorted, q, f[i]) <=> q < f[i]
      BY DEF Precedes
    <3>2. ASSUME NEW q \in S, q < f[i]
          PROVE  \E j \in 1..(i - 1) : f[j] = q
      <4>1. PICK j \in 1..n : f[j] = q
        OBVIOUS
      <4>2. j < i
        BY <1>2, <3>2, <4>1
      <4> QED
        BY <4>1, <4>2
    <3>3. \A j \in 1..(i - 1) : f[j] \in S /\ f[j] < f[i]
      BY <1>1, <1>2
    <3> QED
      BY <3>1, <3>2, <3>3
  <2>2. i - 1 \in 0..n
    OBVIOUS
  <2> QED
    BY <1>4, <2>1, <2>2
<1>7. ASSUME NEW i \in 1..n
      PROVE  (CHOOSE r \in S : Cardinality({q \in S : Precedes(Unsorted, q, r)}) = i - 1) = f[i]
  <2>1. ASSUME NEW r \in S, Cardinality({q \in S : Precedes(Unsorted, q, r)}) = i - 1
        PROVE  r = f[i]
    <3>1. PICK j \in 1..n : f[j] = r
      OBVIOUS
    <3>2. j - 1 = i - 1
      BY <1>6, <2>1, <3>1
    <3>3. j = i
      BY <3>2
    <3> QED
      BY <3>1, <3>3
  <2>2. f[i] \in S /\ Cardinality({q \in S : Precedes(Unsorted, q, f[i])}) = i - 1
    BY <1>6
  <2> QED
    BY <2>1, <2>2
<1>8. Ranked(S, Unsorted) = [i \in 1..n |-> f[i]]
  BY <1>5, <1>7 DEF Ranked
<1> QED
  BY <1>5, <1>8

\* A table, the rows after one of it and the rows before one.
LEMMA RankedParts ==
    ASSUME NEW S \in SUBSET Nat, IsFiniteSet(S), NEW m \in 1..Cardinality(S)
    PROVE  LET all == Ranked(S, Unsorted)
           IN  /\ Ranked({r \in S : r > all[m]}, Unsorted) = Run(all, m, Cardinality(S) - m)
               /\ Ranked({r \in S : r < all[m]}, Unsorted) = Run(all, 0, m - 1)
<1> DEFINE all == Ranked(S, Unsorted)
           n == Cardinality(S)
<1>1. n \in Nat
  BY FS_CardinalityType
<1>2. IsStrictOrder(S, Unsorted)
  BY NaturalOrder
<1>3. /\ all \in [1..n -> S]
      /\ \A r \in S : \E i \in 1..n : all[i] = r
      /\ \A i, j \in 1..n : i < j => Precedes(Unsorted, all[i], all[j])
  BY <1>2, RankedEnumerates
<1> HIDE DEF all, n
<1>4. \A i \in 1..n : all[i] \in S /\ all[i] \in Nat
  BY <1>3
<1>5. \A i, j \in 1..n : i < j => all[i] < all[j]
  BY <1>3 DEF Precedes
<1>6. m \in 1..n /\ m \in Nat /\ n - m \in Nat /\ m - 1 \in Nat
  BY <1>1 DEF n
<1>7. Ranked({r \in S : r > all[m]}, Unsorted) = Run(all, m, n - m)
  <2> DEFINE T == {r \in S : r > all[m]}
             f == Run(all, m, n - m)
             k == n - m
  <2>1. T \in SUBSET Nat /\ IsFiniteSet(T)
    BY FS_Subset
  <2>2. \A i \in 1..k : m + i \in 1..n /\ m < m + i
    BY <1>1, <1>6
  <2>3. \A i \in 1..k : all[m + i] \in S /\ all[m + i] > all[m]
    BY <1>4, <1>5, <1>6, <2>2
  <2>4. f \in [1..k -> T]
    BY <2>3 DEF Run
  <2>5. \A i, j \in 1..k : i < j => f[i] < f[j]
    <3>1. \A i, j \in 1..k : i < j => m + i < m + j
      BY <1>6
    <3> QED
      BY <1>5, <2>2, <3>1 DEF Run
  <2>6. ASSUME NEW r \in T
        PROVE  \E i \in 1..k : f[i] = r
    <3>1. PICK j \in 1..n : all[j] = r
      BY <1>3
    <3>2. ~(j < m) /\ j # m
      BY <1>4, <1>5, <1>6, <3>1
    <3>3. j - m \in 1..k /\ m + (j - m) = j
      BY <1>1, <1>6, <3>2
    <3> QED
      BY <3>1, <3>3 DEF Run
  <2>7. k \in Nat
    BY <1>6
  <2> HIDE DEF T, f, k
  <2>8. Ranked(T, Unsorted) = f
    BY <2>1, <2>4, <2>5, <2>6, <2>7, RankedIs
  <2> QED
    BY <2>8 DEF T, f
<1>8. Ranked({r \in S : r < all[m]}, Unsorted) = Run(all, 0, m - 1)
  <2> DEFINE T == {r \in S : r < all[m]}
             f == Run(all, 0, m - 1)
             k == m - 1
  <2>1. T \in SUBSET Nat /\ IsFiniteSet(T)
    BY FS_Subset
  <2>2. \A i \in 1..k : i \in 1..n /\ i < m /\ 0 + i = i
    BY <1>1, <1>6
  <2>3. \A i \in 1..k : all[i] \in S /\ all[i] < all[m]
    BY <1>4, <1>5, <1>6, <2>2
  <2>4. f = [i \in 1..k |-> all[i]]
    BY <2>2 DEF Run
  <2>5. f \in [1..k -> T]
    BY <2>3, <2>4
  <2>6. \A i, j \in 1..k : i < j => f[i] < f[j]
    BY <1>5, <2>2, <2>4
  <2>7. ASSUME NEW r \in T
        PROVE  \E i \in 1..k : f[i] = r
    <3>1. PICK j \in 1..n : all[j] = r
      BY <1>3
    <3>2. ~(m < j) /\ j # m
      BY <1>4, <1>5, <1>6, <3>1
    <3>3. j \in 1..k
      BY <1>1, <1>6, <3>2
    <3> QED
      BY <2>4, <3>1, <3>3
  <2>8. k \in Nat
    BY <1>6
  <2> HIDE DEF T, f, k
  <2>9. Ranked(T, Unsorted) = f
    BY <2>1, <2>5, <2>6, <2>7, <2>8, RankedIs
  <2> QED
    BY <2>9 DEF T, f
<1> QED
  BY <1>7, <1>8 DEF all, n

\* Ranking numbers that follow one another.
LEMMA RankedInterval ==
    ASSUME NEW a \in Nat, NEW m \in Nat
    PROVE  Ranked((a + 1)..(a + m), Unsorted) = [i \in 1..m |-> a + i]
<1> DEFINE S == (a + 1)..(a + m)
           f == [i \in 1..m |-> a + i]
<1>1. S \in SUBSET Nat /\ IsFiniteSet(S)
  BY FS_Interval
<1>2. f \in [1..m -> S] /\ \A i, j \in 1..m : i < j => f[i] < f[j]
  OBVIOUS
<1>3. ASSUME NEW r \in S
      PROVE  \E i \in 1..m : f[i] = r
  <2>1. r - a \in 1..m /\ a + (r - a) = r
    OBVIOUS
  <2> QED
    BY <2>1
<1> HIDE DEF S, f
<1>4. Ranked(S, Unsorted) = f
  BY <1>1, <1>2, <1>3, RankedIs
<1> QED
  BY <1>4 DEF S, f

\* Where a page begins, and where its neighbours do.
LEMMA Offsets ==
    ASSUME NEW page \in Nat \ {0}
    PROVE  LET o == (page - 1) * PageSize
           IN  /\ o \in Nat /\ PageSize \in Nat /\ PageSize > 0
               /\ FirstRowOnPage(page) = o + 1 /\ page * PageSize = o + PageSize
               /\ FirstRowOnPage(page + 1) = o + PageSize + 1
               /\ (page + 1) * PageSize = o + PageSize + PageSize
               /\ page > 1 => o >= PageSize /\ FirstRowOnPage(page - 1) = o - PageSize + 1
               /\ page = 1 => o = 0
<1> DEFINE o == (page - 1) * PageSize
<1>1. PageSize \in Nat /\ PageSize > 0
  BY PageSizeAssumption
<1>2. o \in Nat /\ o = PageSize * (page - 1)
  BY <1>1
<1>3. page * PageSize = o + PageSize /\ ((page + 1) - 1) * PageSize = o + PageSize
  BY <1>1
<1>4. (page + 1) * PageSize = o + PageSize + PageSize
  BY <1>1
<1>5. page > 1 => o >= PageSize
  <2>1. page > 1 => PageSize * 1 <= PageSize * (page - 1)
    BY Product
  <2> QED
    BY <1>1, <1>2, <2>1
<1>6. ((page - 1) - 1) * PageSize = o - PageSize
  BY <1>1
<1>7. page = 1 => o = 0
  BY <1>1
<1> HIDE DEF o
<1> QED
  BY <1>1, <1>2, <1>3, <1>4, <1>5, <1>6, <1>7 DEF FirstRowOnPage, o

\* The last page ends where the table does.
LEMMA LastOffset ==
    ASSUME NEW total \in Nat \ {0}
    PROVE  /\ PageCount(total) \in Nat \ {0}
           /\ (PageCount(total) - 1) * PageSize = total - LastPageSize(total)
           /\ LastPageSize(total) \in 1..PageSize /\ LastPageSize(total) <= total
<1> DEFINE d == total \div PageSize
           m == total % PageSize
<1>1. PageSize \in Nat /\ PageSize > 0
  BY PageSizeAssumption
<1>2. d \in Nat /\ m \in 0..(PageSize - 1) /\ total = (PageSize * d) + m
  BY Division
<1>3. LastPageSize(total) \in 1..PageSize /\ LastPageSize(total) <= total
  BY LastPageIsAPage
<1>4. total # NoTotal /\ total # 0
  BY DEF NoTotal
<1> HIDE DEF d, m
<1>5. LastPageSize(total) = IF m = 0 THEN PageSize ELSE m
  BY DEF LastPageSize, m
<1>6. PageCount(total) = d + (IF m # 0 THEN 1 ELSE 0)
  BY <1>4 DEF PageCount, d, m
<1>7. CASE m = 0
  <2>1. d # 0
    BY <1>1, <1>2, <1>4, <1>7
  <2>2. PageCount(total) = d
    BY <1>2, <1>6, <1>7
  <2>3. (d - 1) * PageSize = PageSize * d - PageSize
    BY <1>1, <1>2
  <2>4. (PageCount(total) - 1) * PageSize = PageSize * d - PageSize
    BY <2>2, <2>3
  <2>5. PageCount(total) \in Nat \ {0}
    BY <1>2, <2>1, <2>2
  <2>6. PageSize * d \in Nat
    BY <1>1, <1>2
  <2>7. PageSize * d - PageSize = total - LastPageSize(total)
    BY <1>1, <1>2, <1>5, <1>7, <2>6
  <2> QED
    BY <1>3, <2>4, <2>5, <2>7
<1>8. CASE m # 0
  <2>1. PageCount(total) = d + 1
    BY <1>6, <1>8
  <2>2. ((d + 1) - 1) * PageSize = PageSize * d
    BY <1>1, <1>2
  <2>3. (PageCount(total) - 1) * PageSize = PageSize * d
    BY <2>1, <2>2
  <2>4. PageCount(total) \in Nat \ {0}
    BY <1>2, <2>1
  <2>5. PageSize * d \in Nat
    BY <1>1, <1>2
  <2>6. PageSize * d = total - LastPageSize(total)
    BY <1>2, <1>5, <1>8, <2>5
  <2> QED
    BY <1>3, <2>3, <2>4, <2>6
<1> QED
  BY <1>7, <1>8

-----------------------------------------------------------------------------
\* The rows of a page, and the token that marks where it begins and ends: by
\* offset, by the rows at its ends, or by their places in the ordinal table.
PageIn(all, page) == AtMost(SubSeq(all, FirstRowOnPage(page), Len(all)), PageSize)

TokenMarks(kind, order, all, token, page) ==
    LET there == PageIn(all, page)
    IN  token.valid =>
            IF kind # "rowid" THEN token.offset = FirstRowOnPage(page) - 1
            ELSE /\ there # <<>>
                 /\ IF order = Unsorted
                    THEN token.first = Head(there) /\ token.last = there[Len(there)]
                    ELSE /\ token.first = FirstRowOnPage(page)
                         /\ token.last = FirstRowOnPage(page) + Len(there) - 1

\* What a caller on a page asks for, and what it is to get.
AsksFor(kind, order, all, op, token, total, page, want) ==
    /\ op = "first" => want = 1
    /\ op \in {"next", "prev"} => token.valid /\ TokenMarks(kind, order, all, token, page)
    /\ op = "next" => want = page + 1
    /\ op = "prev" => page > 1 /\ want = page - 1
    /\ op = "last" => total = Len(all) /\ total > 0 /\ want = PageCount(total)

Brings(kind, order, all, op, want, result) ==
    /\ result.rows = PageIn(all, want)
    /\ TokenMarks(kind, order, all, result.token, want)
    /\ op # "prev" => (result.hasMore <=> want * PageSize < Len(all))

\* Where the page asked for begins.
Start(want) == (want - 1) * PageSize

\* A page is a run.
LEMMA PageIsRun ==
    ASSUME NEW S, NEW all \in Seq(S), NEW page \in Nat \ {0}
    PROVE  PageIn(all, page) = Run(all, Start(page), Left(Len(all), Start(page), PageSize))
<1>1. Start(page) \in Nat /\ FirstRowOnPage(page) = Start(page) + 1 /\ PageSize \in Nat
  BY Offsets DEF Start
<1> QED
  BY <1>1, CutOut DEF PageIn

\* One that is not empty begins with its first row and ends with its last.
LEMMA PageEnds ==
    ASSUME NEW S, NEW all \in Seq(S), NEW page \in Nat \ {0}, PageIn(all, page) # <<>>
    PROVE  LET there == PageIn(all, page)
               o == Start(page)
               k == Left(Len(all), o, PageSize)
           IN  /\ o \in Nat /\ k \in 1..PageSize /\ o + k <= Len(all) /\ Len(there) = k
               /\ Head(there) = all[o + 1] /\ there[Len(there)] = all[o + k]
<1> DEFINE there == PageIn(all, page)
           o == Start(page)
           k == Left(Len(all), o, PageSize)
<1>1. o \in Nat /\ PageSize \in Nat /\ Len(all) \in Nat
  BY Offsets, LenProperties DEF Start
<1>2. /\ k \in Nat /\ k <= PageSize /\ (o < Len(all) => o + k <= Len(all))
      /\ (Len(all) <= o => k = 0)
  BY <1>1, LeftType
<1>3. there = Run(all, o, k)
  BY PageIsRun
<1> HIDE DEF o, k, there
<1>4. Within(all, o, k)
  BY <1>1, <1>2 DEF Within
<1>5. Run(all, o, k) \in Seq(S) /\ Len(Run(all, o, k)) = k /\ (Run(all, o, k) = <<>> <=> k = 0)
  BY <1>1, <1>2, <1>4, RunType
<1>6. k # 0
  BY <1>3, <1>5 DEF there
<1>7. k \in 1..PageSize /\ o + k <= Len(all)
  BY <1>1, <1>2, <1>6
<1>8. there[1] = all[o + 1] /\ there[k] = all[o + k]
  BY <1>2, <1>3, <1>6 DEF Run
<1>9. Head(there) = there[1]
  BY <1>3, <1>5, <1>6
<1> QED
  BY <1>1, <1>3, <1>5, <1>7, <1>8, <1>9 DEF o, k, there

\* Keyset pages: the rows after the last of a page are the next page's, those
\* before its first the previous ones.
LEMMA RowidBrings ==
    ASSUME NEW table \in SUBSET Row, NEW op \in PageOps, NEW token \in Token, NEW total \in Total,
           NEW page \in Nat \ {0}, NEW want \in Nat,
           AsksFor("rowid", Unsorted, Ranked(table, Unsorted), op, token, total, page, want)
    PROVE  Brings("rowid", Unsorted, Ranked(table, Unsorted), op, want,
                  FetchByRowid(table, op, token, total))
<1> DEFINE all == Ranked(table, Unsorted)
           N == Cardinality(table)
           o == Start(page)
           k == Left(N, o, PageSize)
           w == Start(want)
           P == PageSize
           after == Ranked({r \in table : r > token.last}, Unsorted)
           before == Ranked({r \in table : r < token.first}, Unsorted)
           found == CASE op = "first" -> AtMost(all, PageSize)
                      [] op = "next"  -> AtMost(after, PageSize)
                      [] op = "prev"  -> FromEnd(before, PageSize)
                      [] op = "last"  -> FromEnd(all, LastPageSize(total))
           more == \/ op = "first" /\ Len(all) > PageSize
                   \/ op = "next" /\ Len(after) > PageSize
                   \/ op = "prev" /\ found # <<>>
           result == FetchByRowid(table, op, token, total)
<1>1. table \in SUBSET Nat /\ IsFiniteSet(table) /\ N \in Nat
  BY RowFacts
<1>2. all \in Seq(table) /\ all \in Seq(Nat) /\ Len(all) = N
  <2>1. all \in [1..N -> table]
    <3>1. IsStrictOrder(table, Unsorted)
      BY <1>1, NaturalOrder
    <3> QED
      BY <1>1, <3>1, RankedEnumerates
  <2>2. all \in Seq(table) /\ Len(all) = N
    BY <1>1, <2>1, FiniteSeq
  <2> QED
    BY <1>1, <2>2, NaturalSeq
<1>3. /\ o \in Nat /\ P \in Nat /\ P > 0 /\ page * P = o + P
      /\ page > 1 => o >= P
  BY Offsets DEF Start
<1>4. /\ found = PageIn(all, want) /\ want \in Nat \ {0}
      /\ op # "prev" => (more <=> want * P < N)
  <2>1. CASE op = "first"
    <3>1. want = 1
      BY <2>1 DEF AsksFor
    <3>2. w = 0 /\ want * P = P
      BY <1>3, <3>1 DEF Start
    <3>3. AtMost(all, P) = Run(all, 0, Left(N, 0, P))
      BY <1>2, <1>3, CutFront
    <3>4. PageIn(all, want) = Run(all, 0, Left(N, 0, P))
      BY <1>2, <3>1, <3>2, PageIsRun
    <3>5. found = AtMost(all, P) /\ (more <=> N > P)
      BY <1>2, <2>1
    <3> HIDE DEF all, N, found, more
    <3>6. want \in Nat \ {0} /\ (N > P <=> want * P < N)
      BY <1>1, <1>3, <3>1, <3>2
    <3> QED
      BY <3>3, <3>4, <3>5, <3>6
  <2>2. CASE op = "last"
    <3>1. total = N /\ N \in Nat \ {0} /\ want = PageCount(N)
      BY <1>1, <1>2, <2>2 DEF AsksFor
    <3> DEFINE l == LastPageSize(N)
    <3>2. want \in Nat \ {0} /\ w = N - l /\ l \in 1..P /\ l <= N
      BY <3>1, LastOffset DEF Start
    <3> HIDE DEF l
    <3>3. l \in Nat /\ N - l \in Nat
      BY <1>1, <1>3, <3>2
    <3>4. FromEnd(all, l) = Run(all, N - l, l)
      BY <1>2, <3>2, <3>3, CutBack
    <3>5. Left(N, w, P) = l
      BY <1>1, <1>3, <3>2 DEF Left
    <3>6. PageIn(all, want) = Run(all, N - l, l)
      BY <1>2, <3>2, <3>5, PageIsRun
    <3>7. found = FromEnd(all, l) /\ ~more
      BY <2>2, <3>1 DEF l
    <3>8. want * P = w + P
      BY <3>2, Offsets DEF Start
    <3>9. ~(want * P < N)
      BY <1>1, <1>3, <3>2, <3>8
    <3> QED
      BY <3>2, <3>4, <3>6, <3>7, <3>9
  <2>3. ASSUME op \in {"next", "prev"}
        PROVE  /\ k \in 1..P /\ o + k <= N /\ o + k \in 1..N /\ o + 1 \in 1..N
               /\ token.first = all[o + 1] /\ token.last = all[o + k]
    <3>1. /\ PageIn(all, page) # <<>>
          /\ token.first = Head(PageIn(all, page))
          /\ token.last = PageIn(all, page)[Len(PageIn(all, page))]
      BY <2>3 DEF AsksFor, TokenMarks
    <3>2. /\ k \in 1..P /\ o + k <= N
          /\ Head(PageIn(all, page)) = all[o + 1]
          /\ PageIn(all, page)[Len(PageIn(all, page))] = all[o + k]
      BY <1>2, <3>1, PageEnds
    <3> HIDE DEF o, k, all, N
    <3>3. o + k \in 1..N /\ o + 1 \in 1..N
      BY <1>1, <1>3, <3>2
    <3> QED
      BY <3>1, <3>2, <3>3
  <2>4. CASE op = "next"
    <3> DEFINE m == o + k
    <3>1. after = Run(all, m, N - m)
      BY <1>1, <2>3, <2>4, RankedParts
    <3>2. /\ m \in Nat /\ m <= N /\ N - m \in Nat /\ k \in Nat /\ k <= P /\ k > 0
          /\ m = o + k
      BY <1>1, <1>3, <2>3, <2>4
    <3>3. want = page + 1 /\ want \in Nat \ {0} /\ w = o + P /\ want * P = o + P + P
      <4>1. want = page + 1
        BY <2>4 DEF AsksFor
      <4>2. (page + 1) * P = o + P + P /\ ((page + 1) - 1) * P = o + P
        BY <1>3, Offsets DEF Start
      <4> QED
        BY <4>1, <4>2 DEF Start
    <3>4. k < P => m = N
      <4> HIDE DEF N, o
      <4>1. k < P /\ o + k <= N => o + k = N
        BY <1>1, <1>3, <2>3, <2>4 DEF Left
      <4> QED
        BY <2>3, <2>4, <4>1
    <3> HIDE DEF all, N, o, k, w, m
    <3>5. after \in Seq(table) /\ Len(after) = N - m
      <4>1. Within(all, m, N - m)
        BY <1>1, <1>2, <3>2 DEF Within
      <4> QED
        BY <1>2, <3>1, <3>2, <4>1, RunType
    <3>6. AtMost(after, P) = Run(after, 0, Left(N - m, 0, P))
      BY <1>3, <3>5, CutFront
    <3>7. /\ Left(N - m, 0, P) = Left(N, m, P) /\ Left(N, m, P) \in Nat
          /\ Left(N, m, P) <= N - m
      BY <1>1, <1>3, <3>2 DEF Left
    <3>8. Run(Run(all, m, N - m), 0, Left(N, m, P)) = Run(all, m, Left(N, m, P))
      <4>1. m + (N - m) <= Len(all) /\ 0 + Left(N, m, P) <= N - m /\ m + 0 = m
        BY <1>1, <1>2, <3>2, <3>7
      <4>2. Run(Run(all, m, N - m), 0, Left(N, m, P)) = Run(all, m + 0, Left(N, m, P))
        BY <1>2, <3>2, <3>7, <4>1, RunOfRun
      <4> QED
        BY <4>1, <4>2
    <3>9. PageIn(all, want) = Run(all, w, Left(N, w, P))
      BY <1>2, <3>3, PageIsRun DEF w
    <3>10. Run(all, m, Left(N, m, P)) = Run(all, w, Left(N, w, P))
      <4>1. CASE k = P
        BY <3>2, <3>3, <4>1
      <4>2. CASE k # P
        <5>1. m = N
          BY <1>3, <3>2, <3>4, <4>2
        <5>2. k < P
          BY <1>3, <3>2, <4>2
        <5>3. N <= w
          BY <1>3, <3>2, <3>3, <5>1, <5>2
        <5>4. Left(N, m, P) = 0 /\ Left(N, w, P) = 0
          BY <1>1, <5>1, <5>3 DEF Left
        <5> QED
          BY <5>4 DEF Run
      <4> QED
        BY <4>1, <4>2
    <3>11. found = AtMost(after, P) /\ (more <=> N - m > P)
      BY <2>4, <3>5
    <3>12. N - m > P <=> want * P < N
      <4>1. k = P \/ m = N
        BY <1>3, <3>2, <3>4
      <4> QED
        BY <1>1, <1>3, <3>2, <3>3, <4>1
    <3> QED
      BY <3>1, <3>3, <3>6, <3>7, <3>8, <3>9, <3>10, <3>11, <3>12
  <2>5. CASE op = "prev"
    <3>1. before = Run(all, 0, o)
      <4>1. before = Run(all, 0, (o + 1) - 1)
        BY <1>1, <2>3, <2>5, RankedParts
      <4>2. (o + 1) - 1 = o
        BY <1>3
      <4> QED
        BY <4>1, <4>2
    <3>2. page > 1 /\ want = page - 1 /\ want \in Nat \ {0}
      BY <2>5 DEF AsksFor
    <3>3. w = o - P /\ o - P \in Nat /\ o < N
      <4>1. ((page - 1) - 1) * P = o - P
        BY <1>3 DEF Start
      <4> QED
        BY <1>1, <1>3, <2>3, <2>5, <3>2, <4>1 DEF Start
    <3> HIDE DEF all, N, o, k, w
    <3>4. before \in Seq(table) /\ Len(before) = o
      <4>1. Within(all, 0, o)
        BY <1>1, <1>2, <1>3, <3>3 DEF Within
      <4> QED
        BY <1>2, <1>3, <3>1, <4>1, RunType
    <3>5. FromEnd(before, P) = Run(before, o - P, P)
      BY <1>3, <3>3, <3>4, CutBack
    <3>6. Run(Run(all, 0, o), o - P, P) = Run(all, o - P, P)
      <4>1. 0 + o <= Len(all) /\ (o - P) + P <= o /\ 0 + (o - P) = o - P
        BY <1>1, <1>2, <1>3, <3>3
      <4>2. Run(Run(all, 0, o), o - P, P) = Run(all, 0 + (o - P), P)
        BY <1>2, <1>3, <3>3, <4>1, RunOfRun
      <4> QED
        BY <4>1, <4>2
    <3>7. Left(N, w, P) = P
      BY <1>1, <1>3, <3>3 DEF Left
    <3>8. PageIn(all, want) = Run(all, w, Left(N, w, P))
      BY <1>2, <3>2, PageIsRun DEF w
    <3>9. found = FromEnd(before, P)
      BY <2>5
    <3> QED
      BY <2>5, <3>1, <3>2, <3>3, <3>5, <3>6, <3>7, <3>8, <3>9
  <2> QED
    BY <2>1, <2>2, <2>4, <2>5 DEF PageOps
<1>5. /\ result.rows = found /\ result.hasMore = more
      /\ result.token = IF found = <<>> THEN NoToken
            ELSE [valid |-> TRUE, first |-> Head(found), last |-> found[Len(found)], offset |-> 0]
  BY DEF FetchByRowid, Page
<1> HIDE DEF all, N, found, more, result
<1>6. TokenMarks("rowid", Unsorted, all, result.token, want)
  <2>1. CASE found = <<>>
    BY <1>5, <2>1 DEF TokenMarks, NoToken
  <2>2. CASE found # <<>>
    BY <1>4, <1>5, <2>2 DEF TokenMarks
  <2> QED
    BY <2>1, <2>2
<1>7. Brings("rowid", Unsorted, all, op, want, result)
  BY <1>2, <1>4, <1>5, <1>6 DEF Brings
<1> QED
  BY <1>7 DEF all, result

-----------------------------------------------------------------------------
\* The rows of a table in an order are as many as there are.
LEMMA AllRows ==
    ASSUME NEW table \in SUBSET Row, NEW order \in Order
    PROVE  LET all == Ranked(table, order)
           IN  /\ all \in Seq(table) /\ all \in Seq(Nat) /\ Len(all) = Cardinality(table)
               /\ \A i \in 1..Cardinality(table) : all[i] \in table
               /\ Cardinality(table) \in Nat
<1>1. table \in SUBSET Nat /\ IsFiniteSet(table) /\ Cardinality(table) \in Nat
  BY RowFacts
<1>2. IsStrictOrder(table, order)
  BY <1>1, NaturalOrder, SortOrder DEF Order
<1> DEFINE all == Ranked(table, order)
           N == Cardinality(table)
<1>3. all \in [1..N -> table]
  BY <1>1, <1>2, RankedEnumerates
<1> HIDE DEF all, N
<1>4. all \in Seq(table) /\ Len(all) = N
  BY <1>1, <1>3, FiniteSeq DEF N
<1>5. all \in Seq(Nat)
  BY <1>1, <1>4, NaturalSeq
<1> QED
  BY <1>1, <1>3, <1>4, <1>5 DEF all, N

\* Where the page asked for begins: a page size further, a page size back, or
\* so that it ends with the last row.
LEMMA WantedStart ==
    ASSUME NEW kind, NEW order, NEW S, NEW all \in Seq(S), NEW op \in PageOps, NEW token, NEW total,
           NEW page \in Nat \ {0}, NEW want,
           AsksFor(kind, order, all, op, token, total, page, want)
    PROVE  LET o == Start(page)
               w == Start(want)
           IN  /\ o \in Nat /\ w \in Nat /\ want \in Nat \ {0}
               /\ want * PageSize = w + PageSize /\ FirstRowOnPage(want) = w + 1
               /\ FirstRowOnPage(page) = o + 1
               /\ op = "first" => w = 0
               /\ op = "next" => w = o + PageSize
               /\ op = "prev" => w = o - PageSize
               /\ op = "last" => /\ Len(all) > 0 /\ total = Len(all)
                                 /\ w = Len(all) - LastPageSize(total)
                                 /\ LastPageSize(total) \in 1..PageSize
<1> DEFINE o == Start(page)
           w == Start(want)
<1>1. /\ o \in Nat /\ PageSize \in Nat /\ PageSize > 0 /\ FirstRowOnPage(page) = o + 1
      /\ page > 1 => o >= PageSize
      /\ ((page + 1) - 1) * PageSize = o + PageSize
      /\ ((page - 1) - 1) * PageSize = o - PageSize
  <2>1. PageSize \in Nat /\ PageSize > 0
    BY PageSizeAssumption
  <2>2. o \in Nat /\ FirstRowOnPage(page) = o + 1 /\ (page > 1 => o >= PageSize)
    BY Offsets DEF Start
  <2>3. /\ ((page + 1) - 1) * PageSize = o + PageSize
        /\ ((page - 1) - 1) * PageSize = o - PageSize
    BY <2>1 DEF Start
  <2> QED
    BY <2>1, <2>2, <2>3
<1>2. CASE op = "first"
  <2>1. want = 1
    BY <1>2 DEF AsksFor
  <2>2. w = 0
    BY <1>1, <2>1 DEF Start
  <2>3. want * PageSize = w + PageSize /\ FirstRowOnPage(want) = w + 1
    BY <2>1, Offsets DEF Start
  <2> HIDE DEF o, w
  <2> QED
    BY <1>1, <1>2, <2>1, <2>2, <2>3 DEF o, w
<1>3. CASE op = "next"
  <2>1. want = page + 1 /\ want \in Nat \ {0}
    BY <1>3 DEF AsksFor
  <2>2. w = o + PageSize
    BY <1>1, <2>1 DEF Start
  <2>3. want * PageSize = w + PageSize /\ FirstRowOnPage(want) = w + 1 /\ w \in Nat
    BY <2>1, Offsets DEF Start
  <2> HIDE DEF o, w
  <2> QED
    BY <1>1, <1>3, <2>1, <2>2, <2>3 DEF o, w
<1>4. CASE op = "prev"
  <2>1. want = page - 1 /\ want \in Nat \ {0}
    BY <1>4 DEF AsksFor
  <2>2. w = o - PageSize
    BY <1>1, <2>1 DEF Start
  <2>3. want * PageSize = w + PageSize /\ FirstRowOnPage(want) = w + 1 /\ w \in Nat
    BY <2>1, Offsets DEF Start
  <2> HIDE DEF o, w
  <2> QED
    BY <1>1, <1>4, <2>1, <2>2, <2>3 DEF o, w
<1>5. CASE op = "last"
  <2>1. total = Len(all) /\ total > 0 /\ want = PageCount(total) /\ total \in Nat \ {0}
    <3>1. Len(all) \in Nat
      BY LenProperties
    <3> QED
      BY <1>5, <3>1 DEF AsksFor
  <2>2. /\ w = total - LastPageSize(total) /\ LastPageSize(total) \in 1..PageSize
        /\ want \in Nat \ {0}
    BY <2>1, LastOffset DEF Start
  <2>3. want * PageSize = w + PageSize /\ FirstRowOnPage(want) = w + 1 /\ w \in Nat
    BY <2>2, Offsets DEF Start
  <2> HIDE DEF o, w
  <2> QED
    BY <1>1, <1>5, <2>1, <2>2, <2>3 DEF o, w
<1> QED
  BY <1>2, <1>3, <1>4, <1>5 DEF PageOps

\* Pages by offset.
LEMMA OffsetBrings ==
    ASSUME NEW table \in SUBSET Row, NEW op \in PageOps, NEW token \in Token, NEW total \in Total,
           NEW page \in Nat \ {0}, NEW want,
           AsksFor("norowid", Unsorted, Ranked(table, Unsorted), op, token, total, page, want)
    PROVE  /\ Brings("norowid", Unsorted, Ranked(table, Unsorted), op, want,
                     FetchByOffset(table, op, token, total))
           /\ want \in Nat \ {0}
<1> DEFINE all == Ranked(table, Unsorted)
           N == Cardinality(table)
           P == PageSize
           o == Start(page)
           w == Start(want)
           l == LastPageSize(total)
           offset == CASE op = "first" -> 0
                       [] op = "next"  -> token.offset + PageSize
                       [] op = "prev"  -> IF token.offset > PageSize
                                          THEN token.offset - PageSize ELSE 0
                       [] op = "last"  -> total - LastPageSize(total)
           limit == CASE op \in {"first", "next"} -> PageSize + 1
                      [] op = "prev" -> PageSize
                      [] op = "last" -> LastPageSize(total)
           hit == AtMost(SubSeq(all, offset + 1, Len(all)), limit)
           found == AtMost(hit, PageSize)
           result == FetchByOffset(table, op, token, total)
<1>1. P \in Nat /\ P > 0
  BY PageSizeAssumption
<1>2. Unsorted \in Order
  BY DEF Order
<1>3. all \in Seq(table) /\ Len(all) = N /\ N \in Nat
  BY <1>2, AllRows
<1>4. /\ o \in Nat /\ w \in Nat /\ want \in Nat \ {0}
      /\ want * P = w + P /\ FirstRowOnPage(want) = w + 1 /\ FirstRowOnPage(page) = o + 1
      /\ op = "first" => w = 0
      /\ op = "next" => w = o + P
      /\ op = "prev" => w = o - P
      /\ op = "last" => N > 0 /\ total = N /\ w = N - l /\ l \in 1..P
  BY <1>3, WantedStart
<1>5. op \in {"next", "prev"} => token.offset = o
  <2>1. op \in {"next", "prev"} => token.offset = FirstRowOnPage(page) - 1
    BY DEF AsksFor, TokenMarks
  <2> QED
    BY <1>4, <2>1
<1> HIDE DEF all, N, o, w, l
<1>6. offset = w
  <2>1. op = "prev" => w = IF o > P THEN o - P ELSE 0
    BY <1>1, <1>4
  <2> QED
    BY <1>4, <1>5, <2>1 DEF PageOps, l
<1>7. /\ limit \in Nat
      /\ op \in {"first", "next"} => limit = P + 1
      /\ op = "prev" => limit = P
      /\ op = "last" => limit = l
  <2>1. l = LastPageSize(total)
    BY DEF l
  <2> QED
    BY <1>1, <1>4, <2>1 DEF PageOps
<1> HIDE DEF offset, limit
<1> DEFINE m == Left(N, w, limit)
<1>8. hit = Run(all, w, m)
  BY <1>3, <1>4, <1>6, <1>7, CutOut
<1>9. m \in Nat /\ (w < N => w + m <= N) /\ (N <= w => m = 0)
  BY <1>3, <1>4, <1>7 DEF Left
<1> HIDE DEF m, hit
<1>10. Within(all, w, m)
  BY <1>3, <1>4, <1>9 DEF Within
<1>11. hit \in Seq(table) /\ Len(hit) = m
  BY <1>3, <1>4, <1>8, <1>9, <1>10, RunType
<1>12. found = Run(hit, 0, Left(m, 0, P))
  BY <1>1, <1>11, CutFront
<1>13. Left(m, 0, P) = Left(N, w, P)
  BY <1>1, <1>3, <1>4, <1>7 DEF Left, m, PageOps
<1>14. Run(hit, 0, Left(N, w, P)) = Run(all, w, Left(N, w, P))
  <2> DEFINE k == Left(N, w, P)
  <2>1. k \in Nat /\ (k = 0 \/ (0 + k <= m /\ w + m <= Len(all)))
    BY <1>1, <1>3, <1>4, <1>7, <1>9, <1>13 DEF Left
  <2> HIDE DEF k
  <2>2. CASE k = 0
    BY <2>2 DEF Run, k
  <2>3. CASE k # 0
    <3>1. Run(Run(all, w, m), 0, k) = Run(all, w + 0, k)
      <4>1. 0 \in Nat /\ w + m <= Len(all) /\ 0 + k <= m
        BY <2>1, <2>3
      <4>2. w \in Nat /\ m \in Nat /\ k \in Nat
        BY <1>4, <1>9, <2>1
      <4> QED
        BY <1>3, <4>1, <4>2, RunOfRun
    <3>2. w + 0 = w
      BY <1>4
    <3> QED
      BY <1>8, <3>1, <3>2 DEF k
  <2> QED
    BY <2>2, <2>3
<1>15. PageIn(all, want) = Run(all, w, Left(N, w, P))
  BY <1>3, <1>4, PageIsRun DEF w
<1>16. found = PageIn(all, want)
  BY <1>12, <1>13, <1>14, <1>15
<1>17. op # "prev" => (m > P <=> w + P < N)
  BY <1>1, <1>3, <1>4, <1>7 DEF Left, m, PageOps
<1>18. /\ result.rows = found /\ result.hasMore = (m > P)
       /\ result.token = [NoToken EXCEPT !.valid = found # <<>>, !.offset = w]
  <2>1. result = Page(found, [NoToken EXCEPT !.valid = found # <<>>, !.offset = offset], Len(hit) > PageSize)
    BY DEF FetchByOffset, result, hit, found, offset, limit, all
  <2> QED
    BY <1>6, <1>11, <2>1 DEF Page
<1> HIDE DEF found, result
<1>19. result.token.offset = w
  BY <1>18 DEF NoToken
<1>20. TokenMarks("norowid", Unsorted, all, result.token, want)
  BY <1>4, <1>19 DEF TokenMarks
<1>21. Brings("norowid", Unsorted, all, op, want, result)
  BY <1>3, <1>4, <1>16, <1>17, <1>18, <1>20 DEF Brings
<1> QED
  BY <1>4, <1>21 DEF all, result

\* Pages of a sorted table: their places in the ordinal table follow one another.
LEMMA OrdinalBrings ==
    ASSUME NEW table \in SUBSET Row, NEW order \in Order, order # Unsorted, NEW op \in PageOps,
           NEW token \in Token, NEW total \in Total, NEW page \in Nat \ {0}, NEW want,
           AsksFor("rowid", order, Ranked(table, order), op, token, total, page, want)
    PROVE  /\ Brings("rowid", order, Ranked(table, order), op, want,
                     FetchByOrdinal(table, Ranked(table, order), op, token, total))
           /\ want \in Nat \ {0}
<1> DEFINE all == Ranked(table, order)
           N == Cardinality(table)
           P == PageSize
           o == Start(page)
           w == Start(want)
           l == LastPageSize(total)
           k == Left(N, o, P)
           lo == CASE op = "first" -> 1
                   [] op = "next"  -> token.last + 1
                   [] op = "prev"  -> IF token.first > PageSize THEN token.first - PageSize ELSE 1
                   [] op = "last"  -> total - LastPageSize(total) + 1
           hi == CASE op \in {"first", "next"} -> lo + PageSize
                   [] op = "prev" -> token.first - 1
                   [] op = "last" -> total
           places == {i \in DOMAIN all : lo <= i /\ i <= hi /\ all[i] \in table}
           in == Ranked(places, Unsorted)
           hit == AtMost(in, PageSize)
           token2 == IF hit = <<>> THEN NoToken
                     ELSE [valid |-> TRUE, first |-> Head(hit), last |-> hit[Len(hit)], offset |-> 0]
           result == FetchByOrdinal(table, all, op, token, total)
           m == CASE op \in {"first", "next"} -> Left(N, w, P + 1)
                  [] op = "prev" -> P
                  [] op = "last" -> l
<1>1. P \in Nat /\ P > 0
  BY PageSizeAssumption
<1>2. /\ all \in Seq(table) /\ Len(all) = N /\ N \in Nat
      /\ \A i \in 1..N : all[i] \in table
      /\ DOMAIN all = 1..N
  <2>1. all \in Seq(table) /\ Len(all) = N /\ N \in Nat /\ \A i \in 1..N : all[i] \in table
    BY AllRows
  <2> QED
    BY <2>1, LenProperties
<1>3. /\ o \in Nat /\ w \in Nat /\ want \in Nat \ {0}
      /\ want * P = w + P /\ FirstRowOnPage(want) = w + 1 /\ FirstRowOnPage(page) = o + 1
      /\ op = "first" => w = 0
      /\ op = "next" => w = o + P
      /\ op = "prev" => w = o - P
      /\ op = "last" => N > 0 /\ total = N /\ w = N - l /\ l \in 1..P
  BY <1>2, WantedStart
<1>4. op \in {"next", "prev"} =>
          /\ token.first = o + 1 /\ token.last = o + k
          /\ k \in 1..P /\ o + k <= N
  <2> SUFFICES ASSUME op \in {"next", "prev"}
               PROVE  token.first = o + 1 /\ token.last = o + k /\ k \in 1..P /\ o + k <= N
    OBVIOUS
  <2>1. /\ PageIn(all, page) # <<>> /\ token.first = FirstRowOnPage(page)
        /\ token.last = FirstRowOnPage(page) + Len(PageIn(all, page)) - 1
    BY DEF AsksFor, TokenMarks
  <2>2. k \in 1..P /\ o + k <= N /\ Len(PageIn(all, page)) = k
    BY <1>2, <2>1, PageEnds
  <2> HIDE DEF k, o, all, N
  <2>3. k \in Nat
    BY <1>1, <2>2
  <2> QED
    BY <1>3, <2>1, <2>2, <2>3
<1> HIDE DEF all, N, o, w, l
<1>5. /\ m \in Nat
      /\ op \in {"first", "next"} => m = Left(N, w, P + 1)
      /\ op = "prev" => m = P
      /\ op = "last" => m = l
      /\ m = 0 \/ w + m <= N
  <2>1. l \in 1..P => l \in Nat
    BY <1>1
  <2>2. Left(N, w, P + 1) \in Nat /\ (Left(N, w, P + 1) = 0 \/ w + Left(N, w, P + 1) <= N)
    BY <1>1, <1>2, <1>3 DEF Left
  <2>3. op = "prev" => w + P <= N
    BY <1>1, <1>2, <1>3, <1>4
  <2>4. /\ op \in {"first", "next"} => m = Left(N, w, P + 1)
        /\ op = "prev" => m = P
        /\ op = "last" => m = l
    OBVIOUS
  <2>5. op \in {"first", "next"} \/ op = "prev" \/ op = "last"
    BY DEF PageOps
  <2>6. op = "last" => w + l <= N
    BY <1>2, <1>3, <2>1
  <2>7. op = "last" => l \in Nat
    BY <1>3, <2>1
  <2> HIDE DEF k, m
  <2> QED
    BY <1>1, <2>2, <2>3, <2>4, <2>5, <2>6, <2>7
<1> HIDE DEF m
<1>6. \A i \in 1..N : (lo <= i /\ i <= hi) <=> (w + 1 <= i /\ i <= w + m)
  <2>1. CASE op = "first"
    <3>1. lo = 1 /\ hi = 1 + P
      BY <2>1
    <3>2. w = 0 /\ m = Left(N, w, P + 1)
      BY <1>3, <1>5, <2>1
    <3> HIDE DEF lo, hi, k
    <3> QED
      BY <1>1, <1>2, <3>1, <3>2 DEF Left
  <2>2. CASE op = "next"
    <3>1. lo = o + k + 1 /\ hi = o + k + 1 + P
      BY <1>4, <2>2
    <3>2. k \in Nat /\ k <= P /\ (k < P => o + k = N)
      BY <1>1, <1>2, <1>3, <1>4, <2>2 DEF Left
    <3>3. w = o + P /\ m = Left(N, w, P + 1) /\ o \in Nat /\ o + k <= N
      BY <1>3, <1>4, <1>5, <2>2
    <3> HIDE DEF lo, hi, k
    <3> QED
      BY <1>1, <1>2, <3>1, <3>2, <3>3 DEF Left
  <2>3. CASE op = "prev"
    <3>1. lo = (IF token.first > P THEN token.first - P ELSE 1) /\ hi = token.first - 1
      BY <2>3
    <3>2. token.first = o + 1 /\ w = o - P /\ m = P /\ o \in Nat /\ w \in Nat
      BY <1>3, <1>4, <1>5, <2>3
    <3> HIDE DEF lo, hi, k
    <3> QED
      BY <1>1, <1>2, <3>1, <3>2
  <2>4. CASE op = "last"
    <3>1. lo = N - l + 1 /\ hi = N
      BY <1>3, <2>4 DEF l
    <3>2. w = N - l /\ l \in 1..P /\ m = l
      BY <1>3, <1>5, <2>4
    <3> HIDE DEF lo, hi, k
    <3> QED
      BY <1>1, <1>2, <3>1, <3>2
  <2> QED
    BY <2>1, <2>2, <2>3, <2>4 DEF PageOps
<1> HIDE DEF lo, hi, k
<1>7. places = (w + 1)..(w + m)
  <2>1. places = {i \in 1..N : w + 1 <= i /\ i <= w + m}
    BY <1>2, <1>6
  <2>2. \A i \in (w + 1)..(w + m) : i \in 1..N /\ w + 1 <= i /\ i <= w + m
    BY <1>2, <1>3, <1>5
  <2>3. \A i \in 1..N : w + 1 <= i /\ i <= w + m => i \in (w + 1)..(w + m)
    BY <1>2, <1>3, <1>5
  <2> HIDE DEF places
  <2> QED
    BY <2>1, <2>2, <2>3
<1> HIDE DEF places
<1>8. in = [i \in 1..m |-> w + i]
  BY <1>3, <1>5, <1>7, RankedInterval
<1>9. in \in Seq(Nat) /\ Len(in) = m
  <2>1. in \in [1..m -> Nat]
    BY <1>3, <1>8
  <2> HIDE DEF in
  <2> QED
    BY <1>5, <2>1, FiniteSeq
<1> HIDE DEF in
<1> DEFINE n == Left(N, w, P)
<1>10. Left(m, 0, P) = n /\ n \in Nat /\ n <= m /\ (n = 0 \/ w + n <= N)
  BY <1>1, <1>2, <1>3, <1>5 DEF Left, PageOps
<1>11. hit = [i \in 1..n |-> w + i]
  <2>1. hit = Run(in, 0, n)
    BY <1>1, <1>9, <1>10, CutFront
  <2> HIDE DEF n
  <2>2. \A i \in 1..n : i \in 1..m /\ 0 + i = i
    BY <1>5, <1>10
  <2> QED
    BY <1>8, <2>1, <2>2 DEF Run
<1> HIDE DEF hit, n
<1>12. hit \in Seq(Nat) /\ Len(hit) = n /\ DOMAIN hit = 1..n /\ (hit = <<>> <=> n = 0)
  <2>1. hit \in [1..n -> Nat]
    BY <1>3, <1>11
  <2>2. hit \in Seq(Nat) /\ Len(hit) = n
    BY <1>10, <2>1, FiniteSeq
  <2>3. hit = <<>> <=> n = 0
    BY <2>2, EmptySeq
  <2> QED
    BY <2>1, <2>2, <2>3
<1>13. PageIn(all, want) = Run(all, w, n)
  BY <1>2, <1>3, PageIsRun DEF w, n
<1>14. [i \in DOMAIN hit |-> all[hit[i]]] = PageIn(all, want)
  BY <1>11, <1>12, <1>13 DEF Run
<1>15. Len(PageIn(all, want)) = n /\ (PageIn(all, want) = <<>> <=> n = 0)
  <2>1. Within(all, w, n)
    BY <1>2, <1>10 DEF Within
  <2> QED
    BY <1>2, <1>3, <1>10, <1>13, <2>1, RunType
<1>16. /\ result.rows = PageIn(all, want) /\ result.token = token2
       /\ result.hasMore = (m > P /\ op # "last")
  <2>1. result = Page([i \in DOMAIN hit |-> all[hit[i]]], token2, Len(in) > PageSize /\ op # "last")
    BY DEF FetchByOrdinal, result, hit, in, places, token2, lo, hi
  <2> QED
    BY <1>9, <1>14, <2>1 DEF Page
<1> HIDE DEF result
<1>17. TokenMarks("rowid", order, all, token2, want)
  <2>1. CASE n = 0
    BY <1>12, <2>1 DEF TokenMarks, NoToken
  <2>2. CASE n # 0
    <3>1. Head(hit) = w + 1 /\ hit[Len(hit)] = w + n
      <4>1. Head(hit) = hit[1] /\ 1 \in 1..n /\ n \in 1..n
        BY <1>10, <1>12, <2>2
      <4> QED
        BY <1>11, <1>12, <4>1
    <3>2. token2.valid /\ token2.first = w + 1 /\ token2.last = w + n
      BY <1>12, <2>2, <3>1
    <3>3. FirstRowOnPage(want) + Len(PageIn(all, want)) - 1 = w + n
      BY <1>3, <1>10, <1>15
    <3> HIDE DEF token2
    <3> QED
      BY <1>3, <1>15, <2>2, <3>2, <3>3 DEF TokenMarks
  <2> QED
    BY <2>1, <2>2
<1>18. op # "prev" => ((m > P /\ op # "last") <=> w + P < N)
  BY <1>1, <1>2, <1>3, <1>5 DEF Left, PageOps
<1>19. Brings("rowid", order, all, op, want, result)
  BY <1>2, <1>3, <1>16, <1>17, <1>18 DEF Brings
<1> QED
  BY <1>3, <1>19 DEF all, result

-----------------------------------------------------------------------------
\* A page of a file is all there is of it, or as far as the index got.
Partly(s, all, want, result) ==
    /\ s.kind = "csv" /\ ~s.complete /\ s.indexed < want * PageSize
    /\ result.rows # <<>>
    /\ result.rows = AtMost(PageIn(all, want), Len(result.rows))

\* The page asked for begins where the source looks for it.
LEMMA StartIsWanted ==
    ASSUME NEW all \in Seq(Nat), NEW op \in PageOps, NEW token \in Token, NEW total \in Total,
           NEW page \in Nat \ {0}, NEW want,
           AsksFor("csv", Unsorted, all, op, token, total, page, want)
    PROVE  StartOrdinal(op, token, total) = Start(want) /\ want \in Nat \ {0}
<1> DEFINE o == Start(page)
           w == Start(want)
           N == Len(all)
           P == PageSize
           l == LastPageSize(total)
<1>1. P \in Nat /\ P > 0 /\ N \in Nat
  BY PageSizeAssumption, LenProperties
<1>2. /\ o \in Nat /\ w \in Nat /\ want \in Nat \ {0} /\ FirstRowOnPage(page) = o + 1
      /\ op = "first" => w = 0
      /\ op = "next" => w = o + P
      /\ op = "prev" => w = o - P
      /\ op = "last" => N > 0 /\ total = N /\ w = N - l
  BY WantedStart
<1>3. op \in {"next", "prev"} => token.offset = FirstRowOnPage(page) - 1
  BY DEF AsksFor, TokenMarks
<1>4. op \in {"next", "prev"} => token.offset = o
  <2> HIDE DEF o
  <2> QED
    BY <1>2, <1>3
<1> HIDE DEF o, w, N
<1>5. StartOrdinal(op, token, total) = w
  <2>1. CASE op = "first"
    BY <1>2, <2>1 DEF StartOrdinal
  <2>2. CASE op = "next"
    BY <1>2, <1>4, <2>2 DEF StartOrdinal
  <2>3. CASE op = "prev"
    BY <1>1, <1>2, <1>4, <2>3 DEF StartOrdinal
  <2>4. CASE op = "last"
    <3>1. StartOrdinal(op, token, total) = IF total <= 0 THEN 0 ELSE total - l
      BY <2>4 DEF StartOrdinal
    <3> HIDE DEF l
    <3> QED
      BY <1>1, <1>2, <2>4, <3>1
  <2> QED
    BY <2>1, <2>2, <2>3, <2>4 DEF PageOps
<1> QED
  BY <1>2, <1>5 DEF w

\* Pages of a file.
LEMMA CsvBrings ==
    ASSUME NEW s, s.kind = "csv", s.indexed \in Nat, s.complete \in BOOLEAN,
           NEW table \in SUBSET Row, table = 1..Cardinality(table), s.indexed <= Cardinality(table),
           s.complete => s.indexed = Cardinality(table),
           NEW op \in PageOps, NEW token \in Token, NEW total \in Total,
           NEW page \in Nat \ {0}, NEW want,
           AsksFor("csv", Unsorted, Ranked(table, Unsorted), op, token, total, page, want),
           CsvFetch(s, op, token, total).ok
    PROVE  LET all == Ranked(table, Unsorted)
               result == CsvFetch(s, op, token, total)
           IN  /\ result.rows = PageIn(all, want) \/ Partly(s, all, want, result)
               /\ TokenMarks("csv", Unsorted, all, result.token, want)
               /\ want * PageSize < Len(all) => result.hasMore
<1> DEFINE all == Ranked(table, Unsorted)
           N == Cardinality(table)
           P == PageSize
           w == Start(want)
           result == CsvFetch(s, op, token, total)
           start == StartOrdinal(op, token, total)
           k == IF start + PageSize <= s.indexed THEN PageSize ELSE s.indexed - start
           found == [i \in 1..k |-> start + i]
<1>1. P \in Nat /\ P > 0
  BY PageSizeAssumption
<1>2. Unsorted \in Order
  BY DEF Order
<1>3. all \in Seq(table) /\ all \in Seq(Nat) /\ Len(all) = N /\ N \in Nat
  BY <1>2, AllRows
<1>4. all = [i \in 1..N |-> i]
  <2>1. Ranked((0 + 1)..(0 + N), Unsorted) = [i \in 1..N |-> 0 + i]
    BY <1>3, RankedInterval
  <2>2. 0 + 1 = 1 /\ 0 + N = N /\ \A i \in 1..N : 0 + i = i
    BY <1>3
  <2> QED
    BY <2>1, <2>2
<1>5. start = w /\ want \in Nat \ {0}
  BY <1>3, StartIsWanted
<1>6. /\ w \in Nat /\ want * P = w + P /\ FirstRowOnPage(want) = w + 1
  BY <1>5, Offsets DEF Start
<1>7. PageIn(all, want) = Run(all, w, Left(N, w, P))
  BY <1>3, <1>5, PageIsRun
<1> HIDE DEF all, w, N, start
<1>8. PageIn(all, want) = [i \in 1..Left(N, w, P) |-> w + i]
  <2>1. \A i \in 1..Left(N, w, P) : w + i \in 1..N
    BY <1>1, <1>3, <1>6 DEF Left
  <2> QED
    BY <1>4, <1>7, <2>1 DEF Run
<1>9. result = IF Refused(op, token, total) \/ s.changed \/ (start >= s.indexed /\ ~s.complete)
               THEN FailedPage
               ELSE IF start >= s.indexed
               THEN Page(<<>>, [NoToken EXCEPT !.offset = start], FALSE)
               ELSE Page(found, [valid |-> TRUE, first |-> 0, last |-> 0, offset |-> start],
                         s.indexed > start + Len(found) \/ ~s.complete)
  BY DEF CsvFetch, start
<1>10. result # FailedPage
  BY DEF FailedPage
<1>11. CASE start >= s.indexed
  <2>1. result = Page(<<>>, [NoToken EXCEPT !.offset = start], FALSE) /\ s.complete
    BY <1>9, <1>10, <1>11
  <2>2. result.rows = <<>> /\ result.token = [NoToken EXCEPT !.offset = start]
    BY <2>1 DEF Page
  <2>3. N <= w
    BY <1>5, <1>11, <2>1 DEF N
  <2>4. PageIn(all, want) = <<>>
    BY <1>8, <2>3, <1>3, <1>6 DEF Left
  <2>5. ~(want * P < N)
    BY <1>1, <1>3, <1>6, <2>3
  <2>6. ~result.token.valid
    BY <2>2 DEF NoToken
  <2> HIDE DEF result
  <2> QED
    BY <1>3, <2>2, <2>4, <2>5, <2>6 DEF TokenMarks, all, result
<1>12. CASE start < s.indexed
  <2>1. result = Page(found, [valid |-> TRUE, first |-> 0, last |-> 0, offset |-> start],
                      s.indexed > start + Len(found) \/ ~s.complete)
    <3>1. ~(start >= s.indexed)
      BY <1>5, <1>6, <1>12
    <3> HIDE DEF result, found
    <3> QED
      BY <1>9, <1>10, <3>1
  <2>2. /\ result.rows = found /\ result.token.offset = w
        /\ result.hasMore = (s.indexed > start + Len(found) \/ ~s.complete)
    <3> HIDE DEF result, found
    <3> QED
      BY <1>5, <2>1 DEF Page
  <2>3. k \in Nat /\ k > 0
    BY <1>1, <1>5, <1>6, <1>12
  <2>4. found \in Seq(Nat) /\ Len(found) = k
    <3>1. found \in [1..k -> Nat]
      BY <1>5, <1>6, <2>3
    <3> HIDE DEF found
    <3> QED
      BY <2>3, <3>1, FiniteSeq
  <2>5. found # <<>>
    BY <2>3, <2>4, EmptySeq
  <2>6. TokenMarks("csv", Unsorted, all, result.token, want)
    <3>1. FirstRowOnPage(want) - 1 = w
      BY <1>6
    <3> HIDE DEF result
    <3> QED
      BY <2>2, <3>1 DEF TokenMarks
  <2>7. want * P < N => result.hasMore
    <3> SUFFICES ASSUME want * P < N PROVE s.indexed > start + k \/ ~s.complete
      BY <2>2, <2>4
    <3>1. s.complete => s.indexed = N
      BY DEF N
    <3>2. s.complete => k = P
      BY <1>1, <1>3, <1>5, <1>6, <3>1
    <3> HIDE DEF k
    <3> QED
      BY <1>1, <1>3, <1>5, <1>6, <3>1, <3>2
  <2>8. s.indexed <= N /\ (s.complete => s.indexed = N)
    BY DEF N
  <2>9. CASE k = Left(N, w, P)
    <3>1. found = PageIn(all, want)
      BY <1>5, <1>8, <2>9
    <3> HIDE DEF result, found
    <3> QED
      BY <1>3, <2>2, <2>6, <2>7, <3>1 DEF all, result
  <2>10. CASE k # Left(N, w, P)
    <3>1. /\ s.indexed < w + P /\ ~s.complete
          /\ k < Left(N, w, P) /\ Left(N, w, P) \in Nat /\ k < P
      <4>1. w < s.indexed /\ k = (IF w + P <= s.indexed THEN P ELSE s.indexed - w)
        BY <1>5, <1>12
      <4>2. s.indexed <= N /\ w < N
        BY <1>3, <1>6, <2>8, <4>1
      <4>3. Left(N, w, P) = IF N - w < P THEN N - w ELSE P
        <5>1. ~(N <= w)
          BY <1>3, <1>6, <4>2
        <5> QED
          BY <5>1 DEF Left
      <4>4. s.indexed < w + P
        BY <1>1, <1>3, <1>6, <2>10, <4>1, <4>2, <4>3
      <4> HIDE DEF k
      <4>5. s.indexed # N
        BY <1>1, <1>3, <1>6, <2>10, <4>1, <4>3, <4>4
      <4>6. /\ w \in Nat /\ N \in Nat /\ P \in Nat \ {0} /\ s.indexed \in Nat
            /\ s.indexed < N
        BY <1>1, <1>3, <1>6, <4>2, <4>5
      <4>7. k = s.indexed - w
        BY <4>1, <4>4, <4>6
      <4>8. k < P
        BY <4>4, <4>6, <4>7
      <4>9. Left(N, w, P) \in Nat /\ k < Left(N, w, P)
        BY <4>2, <4>3, <4>6, <4>7, <4>8
      <4> QED
        BY <2>8, <4>4, <4>5, <4>8, <4>9
    <3>2. PageIn(all, want) \in Seq(Nat) /\ Len(PageIn(all, want)) = Left(N, w, P)
      <4>1. PageIn(all, want) \in [1..Left(N, w, P) -> Nat]
        BY <1>6, <1>8
      <4> QED
        BY <3>1, <4>1, FiniteSeq
    <3> HIDE DEF k
    <3>3. AtMost(PageIn(all, want), k) = Run(PageIn(all, want), 0, Left(Left(N, w, P), 0, k))
      BY <2>3, <3>2, CutFront
    <3>4. Left(Left(N, w, P), 0, k) = k
      <4> DEFINE n == Left(N, w, P)
      <4>1. n \in Nat /\ k < n
        BY <3>1
      <4> HIDE DEF n
      <4>2. Left(n, 0, k) = k
        BY <2>3, <4>1 DEF Left
      <4> QED
        BY <4>2 DEF n
    <3>5. \A i \in 1..k : 0 + i = i /\ i \in 1..Left(N, w, P)
      BY <2>3, <3>1
    <3>6. Run(PageIn(all, want), 0, k) = [i \in 1..k |-> w + i]
      BY <1>8, <3>5 DEF Run
    <3>7. found = AtMost(PageIn(all, want), Len(found))
      BY <1>5, <2>4, <3>3, <3>4, <3>6
    <3>8. s.indexed < want * P
      BY <1>6, <3>1
    <3> HIDE DEF result, found
    <3>9. Partly(s, all, want, result)
      BY <2>2, <2>5, <3>1, <3>7, <3>8 DEF Partly
    <3> QED
      BY <1>3, <2>6, <2>7, <3>9 DEF all, result
  <2> QED
    BY <2>9, <2>10
<1> QED
  BY <1>3, <1>5, <1>6, <1>11, <1>12

\* Whatever a source is and however it was asked, a page it answers with is the
\* page that was asked for, and the token and hasMore that come with it are true
\* of that page: fetchPage, first(), next(), prev() and last() of both sources.
THEOREM FetchShowsPage ==
    ASSUME NEW table \in SUBSET Row, NEW s, s.kind \in Kind, s.order \in Order,
           s.indexed \in Nat, s.complete \in BOOLEAN,
           s.order # Unsorted => s.kind = "rowid" /\ s.ordinals = Ranked(table, s.order),
           s.kind = "csv" => /\ table = 1..Cardinality(table) /\ s.indexed <= Cardinality(table)
                             /\ s.complete => s.indexed = Cardinality(table),
           NEW op \in PageOps, NEW token \in Token, NEW total \in Total,
           NEW page \in Nat \ {0}, NEW want,
           ~Refused(op, token, total) =>
               AsksFor(s.kind, s.order, Ranked(table, s.order), op, token, total, page, want),
           Fetch(s, table, op, token, total).ok
    PROVE  LET all == Ranked(table, s.order)
               result == Fetch(s, table, op, token, total)
           IN  /\ result.rows = PageIn(all, want) \/ Partly(s, all, want, result)
               /\ TokenMarks(s.kind, s.order, all, result.token, want)
               /\ want * PageSize < Len(all) => result.hasMore \/ op = "prev"
               /\ result.hasMore /\ op # "prev" /\ s.kind # "csv" => want * PageSize < Len(all)
               /\ ~Refused(op, token, total)
<1> DEFINE all == Ranked(table, s.order)
           result == Fetch(s, table, op, token, total)
<1>1. ~Refused(op, token, total)
  BY DEF Fetch, CsvFetch, SqliteFetch, FailedPage
<1>2. AsksFor(s.kind, s.order, all, op, token, total, page, want)
  BY <1>1
<1>3. CASE s.kind = "csv"
  <2>1. s.order = Unsorted /\ result = CsvFetch(s, op, token, total)
    BY <1>3 DEF Fetch
  <2>2. /\ result.rows = PageIn(all, want) \/ Partly(s, all, want, result)
        /\ TokenMarks("csv", Unsorted, all, result.token, want)
        /\ want * PageSize < Len(all) => result.hasMore
    BY <1>2, <1>3, <2>1, CsvBrings
  <2> QED
    BY <1>1, <1>3, <2>1, <2>2
<1>4. CASE s.kind # "csv"
  <2> DEFINE op2 == IF op = "last" /\ total = 0 THEN "first" ELSE op
  <2>1. op2 = op
    BY <1>2 DEF AsksFor
  <2>2. Brings(s.kind, s.order, all, op, want, result)
    <3>1. CASE s.order # Unsorted
      <4>1. result = FetchByOrdinal(table, all, op, token, total)
        BY <1>1, <1>4, <2>1, <3>1 DEF Fetch, SqliteFetch
      <4> QED
        BY <1>2, <3>1, <4>1, OrdinalBrings
    <3>2. CASE s.order = Unsorted /\ s.kind = "rowid"
      <4>1. result = FetchByRowid(table, op, token, total)
        BY <1>1, <1>4, <2>1, <3>2 DEF Fetch, SqliteFetch
      <4>2. want \in Nat
        <5>1. all \in Seq(table)
          BY AllRows
        <5> QED
          BY <1>2, <5>1, WantedStart
      <4> QED
        BY <1>2, <3>2, <4>1, <4>2, RowidBrings
    <3>3. CASE s.order = Unsorted /\ s.kind # "rowid"
      <4>1. s.kind = "norowid"
        BY <1>4, <3>3 DEF Kind
      <4>2. result = FetchByOffset(table, op, token, total)
        BY <1>1, <1>4, <2>1, <3>3 DEF Fetch, SqliteFetch
      <4> QED
        BY <1>2, <3>3, <4>1, <4>2, OffsetBrings
    <3> QED
      BY <3>1, <3>2, <3>3
  <2> HIDE DEF result
  <2>3. /\ result.rows = PageIn(all, want)
        /\ TokenMarks(s.kind, s.order, all, result.token, want)
        /\ op # "prev" => (result.hasMore <=> want * PageSize < Len(all))
    BY <2>2 DEF Brings
  <2> QED
    BY <1>1, <1>4, <2>3 DEF result
<1> QED
  BY <1>3, <1>4

-----------------------------------------------------------------------------
(* Types of what the handlers build.                                       *)

\* Calls, signals and sources are well-formed records.
LEMMA NewCallType ==
    ASSUME NEW op \in Ops, NEW view \in Nat, NEW gen \in Nat, NEW kind \in Kind
    PROVE  NewCall(op, view, gen, kind) \in Call
BY DEF NewCall, Call, Token, NoToken, Total, NoTotal, Order

\* NoCall is a call no handler takes for a request.
LEMMA NoCallType == NoCall \in Call /\ NoCall.op = "shutdown" /\ NoCall.view = 0
<1>1. NoCall \in Call
  BY NewCallType DEF NoCall, Ops, Kind
<1> QED
  BY <1>1 DEF NoCall, NewCall

\* Signals before their payload is filled in.
LEMMA NewEventType ==
    ASSUME NEW sig \in {"openCompleted", "pageReady", "sortCompleted", "indexProgress"},
           NEW view \in Nat, NEW gen \in Nat, NEW ok \in BOOLEAN
    PROVE  NewEvent(sig, view, gen, ok) \in Event
<1>1. <<>> \in Seq(Nat)
  OBVIOUS
<1> QED
  BY <1>1 DEF NewEvent, Event, Token, NoToken, Total, NoTotal

\* The answer to a page request.
LEMMA PageReadyType ==
    ASSUME NEW c \in Call, NEW result \in PageResult
    PROVE  PageReady(c, result) \in Event
<1>1. c.view \in Nat /\ c.gen \in Nat
  BY DEF Call
<1>2. /\ result.ok \in BOOLEAN /\ result.rows \in Seq(Nat)
      /\ result.token \in Token /\ result.hasMore \in BOOLEAN
  BY DEF PageResult
<1>3. NewEvent("pageReady", c.view, c.gen, result.ok) \in Event
  BY <1>1, <1>2, NewEventType
<1> QED
  BY <1>2, <1>3 DEF PageReady, Event

\* A source that holds nothing yet.
LEMMA EmptySourceType ==
    ASSUME NEW kind \in Kind \union {"none"}, NEW view \in Nat
    PROVE  EmptySource(kind, view) \in Source
<1>1. <<>> \in Seq(Row)
  OBVIOUS
<1> QED
  BY <1>1 DEF EmptySource, Source, Order

\* The rows at any moment are finitely many.
LEMMA RowsFinite ==
    ASSUME WorkerTypeOK
    PROVE  rows \subseteq Row /\ IsFiniteSet(rows) /\ Cardinality(rows) \in Nat
<1>1. rows \subseteq Row
  BY DEF WorkerTypeOK
<1>2. IsFiniteSet(rows)
  BY <1>1, FS_Subset, TableAssumption
<1> QED
  BY <1>1, <1>2, FS_CardinalityType

\* What a failed check makes of the source.
LEMMA VerifiedType ==
    ASSUME WorkerTypeOK, NEW s \in Source
    PROVE  Verified(s) \in Source
BY DEF Verified, Source

\* The signal after a slice.
LEMMA ProgressType ==
    ASSUME NEW view \in Nat, NEW s \in Source
    PROVE  Progress(view, s) \in Event
<1>1. Broken(s) \in BOOLEAN /\ s.indexed \in Nat /\ s.complete \in BOOLEAN
  BY DEF Broken, Source
<1>2. NewEvent("indexProgress", view, 0, ~Broken(s)) \in Event
  BY <1>1, NewEventType
<1> QED
  BY <1>1, <1>2 DEF Progress, Event, Total, NoTotal

\* A page query yields a page of the table, or fails.
LEMMA PagesType ==
    ASSUME WorkerTypeOK, NEW c \in Call, c.op \in PageOps, NEW s \in Source
    PROVE  Pages(c, s) \subseteq PageResult
<1>1. FailedPage \in PageResult
  BY FailedPageType
<1>2. Fetch(Verified(s), rows, c.op, c.token, c.total) \in PageResult
  <2>1. Verified(s) \in Source
    BY VerifiedType
  <2>2. /\ Verified(s).indexed \in Nat /\ Verified(s).complete \in BOOLEAN
        /\ Verified(s).ordinals \in Seq(Row)
    BY <2>1 DEF Source
  <2>3. c.token \in Token /\ c.total \in Total
    BY DEF Call
  <2> QED
    BY <2>2, <2>3, FetchType, RowsFinite
<1> QED
  BY <1>1, <1>2 DEF Pages

\* What open() leaves behind.
LEMMA OpenOutcomesType ==
    ASSUME WorkerTypeOK, NEW c \in Call
    PROVE  /\ OpenOutcomes(c) \subseteq Source
           /\ \A s \in OpenOutcomes(c) :
                /\ s.kind = c.kind /\ s.view = c.view
                /\ s.kind = "csv" /\ ~IndexEnded(s) => s.left > 0
<1> DEFINE empty == EmptySource(c.kind, c.view)
           fresh == [empty EXCEPT !.open = TRUE, !.asOpened = rows]
<1>1. c.view \in Nat /\ c.kind \in Kind
  BY DEF Call
<1>2. empty \in Source /\ empty.kind = c.kind /\ empty.view = c.view /\ ~empty.open
  BY <1>1, EmptySourceType DEF EmptySource
<1>3. rows \in SUBSET Row /\ Cardinality(rows) \in Nat
  BY RowsFinite
<1> HIDE DEF empty
<1>4. fresh \in Source /\ fresh.kind = c.kind /\ fresh.view = c.view
  BY <1>2, <1>3 DEF Source
<1> HIDE DEF fresh
<1>5. ASSUME NEW n \in 0..Cardinality(rows), NEW left \in 1..MaxSlices
      PROVE  LET s == [fresh EXCEPT !.indexed = n, !.left = left]
             IN  s \in Source /\ s.kind = c.kind /\ s.view = c.view /\ s.left > 0
  <2>1. n \in Nat /\ left \in Nat /\ left > 0
    BY <1>3, MaxSlicesAssumption
  <2> QED
    BY <1>4, <2>1 DEF Source
<1>6. LET s == [fresh EXCEPT !.indexed = Cardinality(rows), !.complete = TRUE]
      IN  s \in Source /\ s.kind = c.kind /\ s.view = c.view /\ s.complete
  BY <1>3, <1>4 DEF Source
<1>7. ASSUME NEW s \in OpenOutcomes(c)
      PROVE  /\ s \in Source /\ s.kind = c.kind /\ s.view = c.view
             /\ ~s.open \/ s.kind # "csv" \/ s.complete \/ s.left > 0
  <2>1. CASE s = empty
    BY <1>2, <2>1
  <2>2. CASE s # empty /\ c.kind # "csv"
    <3>1. s = fresh
      BY <2>2 DEF OpenOutcomes, empty, fresh
    <3> QED
      BY <1>4, <2>2, <3>1
  <2>3. CASE s # empty /\ c.kind = "csv" /\ s = [fresh EXCEPT !.indexed = Cardinality(rows), !.complete = TRUE]
    BY <1>6, <2>3
  <2>4. CASE s # empty /\ c.kind = "csv" /\ s # [fresh EXCEPT !.indexed = Cardinality(rows), !.complete = TRUE]
    <3> DEFINE partial(n, left) == [fresh EXCEPT !.indexed = n, !.left = left]
    <3>1. s \in Sampled(fresh)
      BY <2>4 DEF OpenOutcomes, empty, fresh
    <3>2. Sampled(fresh) = {partial(n, left) : n \in 0..Cardinality(rows), left \in 1..MaxSlices}
      BY DEF Sampled
    <3> HIDE DEF partial
    <3>3. PICK n \in 0..Cardinality(rows), left \in 1..MaxSlices : s = partial(n, left)
      BY <3>1, <3>2
    <3> QED
      BY <1>5, <3>3 DEF partial
  <2> QED
    BY <2>1, <2>2, <2>3, <2>4
<1> QED
  BY <1>7 DEF IndexEnded, Broken

\* What a slice of indexing leaves behind: the same source, further on.
LEMMA SliceOutcomesType ==
    ASSUME WorkerTypeOK, NEW s \in Source, s.left > 0 \/ IndexEnded(s), NEW t \in SliceOutcomes(s)
    PROVE  /\ t \in Source /\ t.kind = s.kind /\ t.view = s.view /\ t.open = s.open
           /\ t.left > 0 \/ IndexEnded(t)
<1>1. rows \in SUBSET Row /\ Cardinality(rows) \in Nat
  BY RowsFinite
<1>2. s.indexed \in Nat /\ s.left \in Nat /\ s.asOpened \in SUBSET Row
  BY DEF Source
<1>3. CASE IndexEnded(s)
  BY <1>3 DEF SliceOutcomes
<1>4. CASE ~IndexEnded(s) /\ rows # s.asOpened
  <2>1. t = Verified(s) /\ s.left > 0
    BY <1>4 DEF SliceOutcomes
  <2> QED
    BY <2>1, VerifiedType DEF Verified, Source
<1>5. CASE ~IndexEnded(s) /\ rows = s.asOpened
  <2>1. CASE \E n \in s.indexed..Cardinality(rows) : t = [s EXCEPT !.indexed = n, !.failed = TRUE]
    <3>1. PICK n \in s.indexed..Cardinality(rows) : t = [s EXCEPT !.indexed = n, !.failed = TRUE]
      BY <2>1
    <3>2. n \in Nat
      BY <1>1, <1>2
    <3> QED
      BY <1>5, <3>1, <3>2 DEF Source
  <2>2. CASE ~\E n \in s.indexed..Cardinality(rows) : t = [s EXCEPT !.indexed = n, !.failed = TRUE]
    <3>1. PICK n \in s.indexed..Cardinality(rows) :
             t = [s EXCEPT !.indexed = n, !.left = s.left - 1, !.complete = (s.left = 1)]
      BY <1>5, <2>2 DEF SliceOutcomes
    <3>2. n \in Nat /\ s.left - 1 \in Nat
      BY <1>1, <1>2, <1>5
    <3>3. t.left = s.left - 1 /\ t.complete = (s.left = 1)
      BY <3>1 DEF Source
    <3>4. t.left > 0 \/ IndexEnded(t)
      <4>1. CASE s.left = 1
        BY <3>3, <4>1 DEF IndexEnded
      <4>2. CASE s.left # 1
        BY <1>2, <3>2, <3>3, <4>2
      <4> QED
        BY <4>1, <4>2
    <3> QED
      BY <3>1, <3>2, <3>4 DEF Source
  <2> QED
    BY <2>1, <2>2
<1> QED
  BY <1>3, <1>4, <1>5

-----------------------------------------------------------------------------
(* Each step of the worker keeps the types of its state.                   *)

\* The queue behind its head: its calls were in it before, in the same order.
LEMMA QueueTail ==
    ASSUME NEW S, NEW q \in Seq(S), q # <<>>
    PROVE  /\ Head(q) \in S /\ Head(q) = q[1] /\ 1 \in DOMAIN q
           /\ Tail(q) \in Seq(S)
           /\ \A i \in DOMAIN Tail(q) : i + 1 \in DOMAIN q /\ Tail(q)[i] = q[i + 1]
           /\ \A i \in DOMAIN q : i = 1 \/ (i - 1 \in DOMAIN Tail(q) /\ Tail(q)[i - 1] = q[i])
<1>1. Len(q) \in Nat /\ Len(q) # 0 /\ DOMAIN q = 1..Len(q)
  OBVIOUS
<1>2. /\ Tail(q) \in Seq(S) /\ Len(Tail(q)) = Len(q) - 1
      /\ \A i \in 1..(Len(q) - 1) : Tail(q)[i] = q[i + 1]
  OBVIOUS
<1>3. DOMAIN Tail(q) = 1..(Len(q) - 1)
  BY <1>2
<1>4. Head(q) \in S /\ Head(q) = q[1]
  BY <1>1
<1> QED
  BY <1>1, <1>2, <1>3, <1>4

\* The queue with one more call behind it.
LEMMA QueueAppend ==
    ASSUME NEW S, NEW q \in Seq(S), NEW c \in S
    PROVE  /\ Append(q, c) \in Seq(S)
           /\ \A i \in DOMAIN q : i \in DOMAIN Append(q, c) /\ Append(q, c)[i] = q[i]
           /\ \A i \in DOMAIN Append(q, c) : i \in DOMAIN q \/ Append(q, c)[i] = c
           /\ \E i \in DOMAIN Append(q, c) : Append(q, c)[i] = c
<1>1. Len(q) \in Nat /\ DOMAIN q = 1..Len(q)
  OBVIOUS
<1>2. /\ Append(q, c) \in Seq(S) /\ Len(Append(q, c)) = Len(q) + 1
      /\ \A i \in 1..Len(q) : Append(q, c)[i] = q[i]
      /\ Append(q, c)[Len(q) + 1] = c
  OBVIOUS
<1>3. DOMAIN Append(q, c) = 1..(Len(q) + 1)
  BY <1>2
<1> QED
  BY <1>1, <1>2, <1>3

\* A worker starts with no source and nothing to do.
LEMMA InitType == WorkerInit => WorkerTypeOK
<1> SUFFICES ASSUME WorkerInit PROVE WorkerTypeOK
  OBVIOUS
<1>1. <<>> \in Seq(Call) /\ <<>> \in Seq(Event)
  OBVIOUS
<1>2. NoSource \in Source /\ NoSource.kind = "none"
  BY EmptySourceType DEF NoSource, EmptySource
<1> QED
  BY <1>1, <1>2, NoCallType DEF WorkerInit, WorkerTypeOK

\* What taking a call off the queue leaves.
LEMMA TakeCallType ==
    ASSUME WorkerTypeOK, NEW ops, TakeCall(ops)
    PROVE  /\ Head(inbox) \in Call /\ Head(inbox).op \in ops
           /\ inbox' \in Seq(Call)
           /\ rows' = rows /\ viewGen' = viewGen /\ opGen' = opGen
BY QueueTail DEF TakeCall, WorkerTypeOK

\* Starting open() or sort().
LEMMA BeginTaskType == WorkerTypeOK /\ BeginTask => WorkerTypeOK'
<1> SUFFICES ASSUME WorkerTypeOK, BeginTask PROVE WorkerTypeOK'
  OBVIOUS
<1>1. /\ Head(inbox) \in Call /\ inbox' \in Seq(Call)
      /\ rows' = rows /\ viewGen' = viewGen /\ opGen' = opGen
  BY TakeCallType DEF BeginTask
<1>2. task' \in Call /\ parked' \in {parked, NoCall} /\ src' = src /\ events' = events
  BY <1>1 DEF BeginTask, WorkerTypeOK
<1> QED
  BY <1>1, <1>2, NoCallType DEF WorkerTypeOK, IndexEnded, Broken

\* open() returns.
LEMMA FinishOpenType == WorkerTypeOK /\ FinishOpen => WorkerTypeOK'
<1> SUFFICES ASSUME WorkerTypeOK, FinishOpen PROVE WorkerTypeOK'
  OBVIOUS
<1>1. task \in Call /\ task.view \in Nat /\ task.gen \in Nat
  BY DEF WorkerTypeOK, Call
<1>2. PICK s \in OpenOutcomes(task) :
         /\ src' = s
         /\ IF IsStale(task) THEN UNCHANGED <<events, inbox>> ELSE OpenCompleted(task, s)
  BY DEF FinishOpen
<1>3. s \in Source /\ (s.kind = "csv" /\ ~IndexEnded(s) => s.left > 0)
  BY <1>1, OpenOutcomesType
<1>4. inbox' \in Seq(Call) /\ events' \in Seq(Event)
  <2>1. CASE IsStale(task)
    BY <1>2, <2>1 DEF WorkerTypeOK
  <2>2. CASE ~IsStale(task)
    <3> DEFINE done == [NewEvent("openCompleted", task.view, task.gen, s.open)
                          EXCEPT !.canSort = CanSort(s)]
               slice == NewCall("slice", task.view, 0, "csv")
    <3>1. done \in Event
      <4>1. s.open \in BOOLEAN /\ CanSort(s) \in BOOLEAN
        BY <1>3 DEF Source, CanSort
      <4>2. NewEvent("openCompleted", task.view, task.gen, s.open) \in Event
        BY <1>1, <4>1, NewEventType
      <4> QED
        BY <4>1, <4>2 DEF Event
    <3>2. slice \in Call
      BY <1>1, NewCallType DEF Ops, Kind
    <3>3. Progress(task.view, s) \in Event
      BY <1>1, <1>3, ProgressType
    <3>4. /\ events' = Append(events, done) \/ events' = events \o <<done, Progress(task.view, s)>>
          /\ inbox' = inbox \/ inbox' = Append(inbox, slice)
      BY <1>2, <2>2 DEF OpenCompleted
    <3> HIDE DEF done, slice
    <3>5. inbox \in Seq(Call) /\ events \in Seq(Event)
      BY DEF WorkerTypeOK
    <3>6. events \o <<done, Progress(task.view, s)>> \in Seq(Event)
      BY <3>1, <3>3, <3>5
    <3>7. Append(events, done) \in Seq(Event) /\ Append(inbox, slice) \in Seq(Call)
      BY <3>1, <3>2, <3>5, QueueAppend
    <3> QED
      BY <3>4, <3>5, <3>6, <3>7
  <2> QED
    BY <2>1, <2>2
<1>5. /\ task' = NoCall /\ src' = s
      /\ UNCHANGED <<rows, viewGen, opGen, parked>>
  BY <1>2 DEF FinishOpen
<1> QED
  BY <1>3, <1>4, <1>5, NoCallType DEF WorkerTypeOK, IndexEnded, Broken

\* sort() returns.
LEMMA FinishSortType == WorkerTypeOK /\ FinishSort => WorkerTypeOK'
<1> SUFFICES ASSUME WorkerTypeOK, FinishSort PROVE WorkerTypeOK'
  OBVIOUS
<1>1. /\ task \in Call /\ task.view \in Nat /\ task.gen \in Nat /\ task.sort \in Order
      /\ src \in Source /\ events \in Seq(Event)
  BY DEF WorkerTypeOK, Call
<1>2. rows \in SUBSET Row /\ IsFiniteSet(rows) /\ Cardinality(rows) \in Nat
  BY RowsFinite
<1>3. Ranked(rows, task.sort) \in Seq(Row)
  <2>1. IsStrictOrder(rows, task.sort)
    <3>1. CASE task.sort = Unsorted
      BY <1>2, <3>1, NaturalOrder, TableAssumption
    <3>2. CASE task.sort \in SortState
      BY <1>2, <3>2, SortOrder
    <3> QED
      BY <1>1, <3>1, <3>2 DEF Order
  <2>2. Ranked(rows, task.sort) \in [1..Cardinality(rows) -> rows]
    BY <1>2, <2>1, RankedEnumerates
  <2>3. Ranked(rows, task.sort) \in [1..Cardinality(rows) -> Row]
    BY <1>2, <2>2
  <2> QED
    BY <1>2, <2>3, FiniteSeq
<1>4. PICK done \in BOOLEAN :
         /\ src' = IF done THEN [src EXCEPT !.order = task.sort,
                                            !.ordinals = Ranked(rows, task.sort)]
                           ELSE src
         /\ events' = IF IsStale(task) THEN events
                      ELSE Append(events, [NewEvent("sortCompleted", task.view, task.gen, done)
                                 EXCEPT !.total = IF done THEN Cardinality(rows) ELSE 0])
  BY DEF FinishSort
<1>5. /\ src' \in Source /\ src'.kind = src.kind /\ src'.left = src.left
      /\ IndexEnded(src') <=> IndexEnded(src)
  BY <1>1, <1>3, <1>4 DEF Source, IndexEnded, Broken
<1>6. events' \in Seq(Event)
  <2> DEFINE total == IF done THEN Cardinality(rows) ELSE 0
             e == [NewEvent("sortCompleted", task.view, task.gen, done) EXCEPT !.total = total]
  <2>1. NewEvent("sortCompleted", task.view, task.gen, done) \in Event
    BY <1>1, NewEventType
  <2>2. total \in Total
    BY <1>2 DEF Total
  <2> HIDE DEF total
  <2>3. e \in Event
    BY <2>1, <2>2 DEF Event
  <2>4. events' = events \/ events' = Append(events, e)
    BY <1>4 DEF total
  <2> HIDE DEF e
  <2> QED
    BY <1>1, <2>3, <2>4, QueueAppend
<1>7. task' = NoCall /\ UNCHANGED <<rows, viewGen, opGen, inbox, parked>>
  BY DEF FinishSort
<1>8. src'.kind = "csv" /\ ~IndexEnded(src') => src'.left > 0
  BY <1>5 DEF WorkerTypeOK
<1> QED
  BY <1>5, <1>6, <1>7, <1>8, NoCallType DEF WorkerTypeOK, IndexEnded, Broken

\* Looking at the file again loses nothing of what is indexed.
LEMMA VerifiedKeeps ==
    ASSUME WorkerTypeOK, NEW s \in Source, s.kind = "csv" /\ ~IndexEnded(s) => s.left > 0
    PROVE  /\ Verified(s) \in Source
           /\ Verified(s).kind = s.kind /\ Verified(s).view = s.view
           /\ Verified(s).open = s.open
           /\ Verified(s).kind = "csv" /\ ~IndexEnded(Verified(s)) => Verified(s).left > 0
<1>1. Verified(s) \in Source
  BY VerifiedType
<1>2. /\ Verified(s).kind = s.kind /\ Verified(s).view = s.view
      /\ Verified(s).open = s.open /\ Verified(s).left = s.left
      /\ Verified(s).complete = s.complete /\ Verified(s).failed = s.failed
      /\ s.changed => Verified(s).changed
  BY DEF Verified, Source
<1> QED
  BY <1>1, <1>2 DEF IndexEnded, Broken

\* A page request is parked or answered.
LEMMA FetchPageType == WorkerTypeOK /\ FetchPage => WorkerTypeOK'
<1> SUFFICES ASSUME WorkerTypeOK, FetchPage PROVE WorkerTypeOK'
  OBVIOUS
<1> DEFINE c == Head(inbox)
<1>1. /\ c \in Call /\ c.op \in PageOps /\ inbox' \in Seq(Call)
      /\ rows' = rows /\ viewGen' = viewGen /\ opGen' = opGen /\ task' = task
  BY TakeCallType DEF FetchPage
<1>2. src \in Source /\ events \in Seq(Event) /\ task \in Call
  BY DEF WorkerTypeOK
<1>3. \/ UNCHANGED <<parked, src, events>>
      \/ parked' = c /\ UNCHANGED <<src, events>>
      \/ /\ parked' = NoCall
         /\ src' = Verified(src)
         /\ \E page \in Pages(c, src) : events' = Append(events, PageReady(c, page))
  BY DEF FetchPage, Unpark
<1>4. \A page \in Pages(c, src) : Append(events, PageReady(c, page)) \in Seq(Event)
  BY <1>1, <1>2, PagesType, PageReadyType, QueueAppend
<1>5. events' \in Seq(Event)
  BY <1>2, <1>3, <1>4
<1>6. src' \in Source /\ (src'.kind = "csv" /\ ~IndexEnded(src') => src'.left > 0)
  <2>1. src.kind = "csv" /\ ~IndexEnded(src) => src.left > 0
    BY DEF WorkerTypeOK
  <2>2. CASE src' = src
    BY <1>2, <2>1, <2>2
  <2>3. CASE src' = Verified(src)
    BY <1>2, <2>1, <2>3, VerifiedKeeps
  <2> QED
    BY <1>3, <2>2, <2>3
<1>7. parked' \in Call /\ (parked' = NoCall \/ parked'.op \in PageOps)
  BY <1>1, <1>3, NoCallType DEF WorkerTypeOK
<1> QED
  BY <1>1, <1>2, <1>5, <1>6, <1>7 DEF WorkerTypeOK, IndexEnded, Broken

\* A slice of indexing, and the answer it allows.
LEMMA IndexSliceType == WorkerTypeOK /\ IndexSlice => WorkerTypeOK'
<1> SUFFICES ASSUME WorkerTypeOK, IndexSlice PROVE WorkerTypeOK'
  OBVIOUS
<1> DEFINE c == Head(inbox)
<1>1. /\ src \in Source /\ events \in Seq(Event) /\ inbox \in Seq(Call) /\ inbox # <<>>
      /\ parked \in Call /\ (parked = NoCall \/ parked.op \in PageOps)
      /\ (src.kind = "csv" /\ ~IndexEnded(src) => src.left > 0)
  BY DEF WorkerTypeOK, IndexSlice
<1>2. c \in Call /\ c.view \in Nat /\ Tail(inbox) \in Seq(Call)
  <2>1. c \in Call /\ Tail(inbox) \in Seq(Call)
    BY <1>1, QueueTail
  <2> QED
    BY <2>1 DEF Call
<1>3. Append(Tail(inbox), c) \in Seq(Call)
  BY <1>2, QueueAppend
<1>4. UNCHANGED <<rows, viewGen, opGen, task>>
  BY DEF IndexSlice
<1>5. CASE IsViewStale(c) \/ src.kind # "csv"
  <2>1. inbox' = Tail(inbox) /\ UNCHANGED <<parked, src, events>>
    BY <1>5 DEF IndexSlice
  <2> QED
    BY <1>1, <1>2, <1>4, <2>1 DEF WorkerTypeOK, IndexEnded, Broken
<1>6. CASE ~(IsViewStale(c) \/ src.kind # "csv")
  <2>1. PICK s \in SliceOutcomes(src) :
           /\ \E sofar \in Reports(c.view, s) : AnswerParked(s, sofar)
           /\ inbox' = IF IndexEnded(s) THEN Tail(inbox) ELSE Append(Tail(inbox), c)
    BY <1>6 DEF IndexSlice
  <2>2. s \in Source /\ (s.left > 0 \/ IndexEnded(s))
    BY <1>1, <1>6, SliceOutcomesType
  <2>10. PICK sofar \in Reports(c.view, s) : AnswerParked(s, sofar)
    BY <2>1
  <2>3. sofar \in Seq(Event)
    <3>1. Append(events, Progress(c.view, s)) \in Seq(Event)
      BY <1>1, <1>2, <2>2, ProgressType, QueueAppend
    <3> QED
      BY <1>1, <2>10, <3>1 DEF Reports
  <2>4. FailedPage \in PageResult
    BY FailedPageType
  <2>5. inbox' \in Seq(Call)
    BY <1>2, <1>3, <2>1
  <2>6. /\ src' = s \/ src' = Verified(s)
        /\ parked' = NoCall \/ parked' = parked
    BY <2>10 DEF AnswerParked, Unpark
  <2>7. events' \in Seq(Event)
    <3>1. \/ events' = sofar
          \/ /\ parked # NoCall
             /\ \/ events' = Append(sofar, PageReady(parked, FailedPage))
                \/ \E page \in Pages(parked, s) :
                     events' = Append(sofar, PageReady(parked, page))
      BY <2>10 DEF AnswerParked
    <3>2. parked # NoCall =>
             \A page \in Pages(parked, s) : Append(sofar, PageReady(parked, page)) \in Seq(Event)
      BY <1>1, <2>2, <2>3, PagesType, PageReadyType, QueueAppend
    <3>3. Append(sofar, PageReady(parked, FailedPage)) \in Seq(Event)
      BY <1>1, <2>3, <2>4, PageReadyType, QueueAppend
    <3> QED
      BY <2>3, <3>1, <3>2, <3>3
  <2>8. src' \in Source /\ (src'.kind = "csv" /\ ~IndexEnded(src') => src'.left > 0)
    BY <2>2, <2>6, VerifiedKeeps
  <2>9. parked' \in Call /\ (parked' = NoCall \/ parked'.op \in PageOps)
    BY <1>1, <2>6, NoCallType
  <2> QED
    BY <1>4, <2>5, <2>7, <2>8, <2>9 DEF WorkerTypeOK, IndexEnded, Broken
<1> QED
  BY <1>5, <1>6

\* The worker lets its source go.
LEMMA ShutdownType == WorkerTypeOK /\ Shutdown => WorkerTypeOK'
<1> SUFFICES ASSUME WorkerTypeOK, Shutdown PROVE WorkerTypeOK'
  OBVIOUS
<1>1. /\ inbox' \in Seq(Call)
      /\ rows' = rows /\ viewGen' = viewGen /\ opGen' = opGen
  BY TakeCallType DEF Shutdown
<1>2. NoSource \in Source /\ NoSource.kind = "none"
  BY EmptySourceType DEF NoSource, EmptySource
<1>3. src' = NoSource /\ parked' = NoCall /\ task' = task /\ events' = events
  BY DEF Shutdown, Unpark
<1> QED
  BY <1>1, <1>2, <1>3, NoCallType DEF WorkerTypeOK

\* A step of the worker leaves everything well formed.
LEMMA WorkerType == WorkerTypeOK /\ WorkerNext => WorkerTypeOK'
BY BeginTaskType, FinishOpenType, FinishSortType, FetchPageType, IndexSliceType,
   ShutdownType DEF WorkerNext

\* A new worker, for the table it is to open.
LEMMA NewWorkerType ==
    ASSUME NEW view \in Nat, NEW gen \in Nat, NEW kind \in Kind,
           WorkerTypeOK, NewWorker(view, gen, kind), rows' \in SUBSET Row, UNCHANGED events
    PROVE  WorkerTypeOK'
<1>1. <<NewCall("open", view, gen, kind)>> \in Seq(Call)
  <2>1. NewCall("open", view, gen, kind) \in Call
    BY NewCallType DEF Ops
  <2> QED
    BY <2>1
<1>2. NoSource \in Source /\ NoSource.kind = "none"
  BY EmptySourceType DEF NoSource, EmptySource
<1>3. /\ viewGen' = view /\ opGen' = gen /\ task' = NoCall /\ src' = NoSource
      /\ parked' = NoCall /\ inbox' = <<NewCall("open", view, gen, kind)>>
  BY DEF NewWorker
<1> QED
  BY <1>1, <1>2, <1>3, NoCallType DEF WorkerTypeOK

\* A row goes away behind the program's back.
LEMMA DeleteRowType == WorkerTypeOK /\ DeleteRow => WorkerTypeOK'
BY DEF WorkerTypeOK, DeleteRow, IndexEnded, Broken

\* Calls and signals are numbered.
LEMMA Numbers ==
    ASSUME WorkerTypeOK
    PROVE  /\ viewGen \in Nat /\ opGen \in Nat
           /\ inbox \in Seq(Call) /\ events \in Seq(Event)
           /\ \A i \in DOMAIN inbox : inbox[i].view \in Nat /\ inbox[i].gen \in Nat
           /\ \A i \in DOMAIN events : events[i].view \in Nat /\ events[i].gen \in Nat
           /\ parked.view \in Nat /\ parked.gen \in Nat
<1>1. /\ \A i \in DOMAIN inbox : inbox[i] \in Call
      /\ \A i \in DOMAIN events : events[i] \in Event
  BY DEF WorkerTypeOK
<1>2. /\ \A i \in DOMAIN inbox : inbox[i].view \in Nat /\ inbox[i].gen \in Nat
      /\ \A i \in DOMAIN events : events[i].view \in Nat /\ events[i].gen \in Nat
  BY <1>1 DEF Call, Event
<1> QED
  BY <1>2 DEF WorkerTypeOK, Call

\* A longer queue: where its last element is.
LEMMA QueueLast ==
    ASSUME NEW S, NEW q \in Seq(S), NEW c \in S
    PROVE  /\ Len(q) + 1 \notin DOMAIN q
           /\ DOMAIN Append(q, c) = DOMAIN q \union {Len(q) + 1}
           /\ Append(q, c)[Len(q) + 1] = c
           /\ \A i \in DOMAIN q : Append(q, c)[i] = q[i]
<1>1. Len(q) \in Nat /\ DOMAIN q = 1..Len(q)
  OBVIOUS
<1>2. /\ Len(Append(q, c)) = Len(q) + 1
      /\ \A i \in 1..Len(q) : Append(q, c)[i] = q[i]
      /\ Append(q, c)[Len(q) + 1] = c
  OBVIOUS
<1>3. DOMAIN Append(q, c) = 1..(Len(q) + 1)
  BY <1>2
<1> QED
  BY <1>1, <1>2, <1>3

-----------------------------------------------------------------------------
(* What each step of the worker does, in the terms invariants speak of.    *)

\* Parts of a source that only open() and sort() change.
SameSource(s, t) ==
    /\ t.kind = s.kind /\ t.view = s.view /\ t.open = s.open /\ t.asOpened = s.asOpened
    /\ t.order = s.order /\ t.ordinals = s.ordinals

\* Starting open() or sort(): the call is dropped, or in progress from then on.
LEMMA BeginTaskFacts ==
    ASSUME WorkerTypeOK, BeginTask
    PROVE  /\ inbox # <<>> /\ inbox' = Tail(inbox) /\ task = NoCall
           /\ Head(inbox).op \in {"open", "sort"}
           /\ UNCHANGED <<rows, viewGen, opGen, src, events>>
           /\ \/ UNCHANGED <<task, parked>>
              \/ ~IsStale(Head(inbox)) /\ task' = Head(inbox) /\ parked' \in {parked, NoCall}
BY DEF BeginTask, TakeCall

\* A source that was just opened has no order of its own.
LEMMA OpenOutcomesFacts ==
    ASSUME WorkerTypeOK, NEW c \in Call, NEW s \in OpenOutcomes(c)
    PROVE  /\ s \in Source /\ s.kind = c.kind /\ s.view = c.view
           /\ s.order = Unsorted /\ s.ordinals = <<>>
           /\ ~s.changed /\ ~s.failed
           /\ s.open => s.asOpened = rows
           /\ s.indexed <= Cardinality(rows)
           /\ s.complete => s.indexed = Cardinality(rows)
<1> DEFINE empty == EmptySource(c.kind, c.view)
           fresh == [empty EXCEPT !.open = TRUE, !.asOpened = rows]
<1>1. s \in Source /\ s.kind = c.kind /\ s.view = c.view
  BY OpenOutcomesType
<1>2. rows \in SUBSET Row /\ Cardinality(rows) \in Nat
  BY RowsFinite
<1>3. /\ empty.order = Unsorted /\ empty.ordinals = <<>> /\ ~empty.changed /\ ~empty.failed
      /\ ~empty.open /\ empty.indexed = 0 /\ ~empty.complete
  BY DEF EmptySource
<1>4. /\ fresh.order = Unsorted /\ fresh.ordinals = <<>> /\ ~fresh.changed /\ ~fresh.failed
      /\ fresh.asOpened = rows /\ fresh.indexed = 0 /\ ~fresh.complete
  BY DEF EmptySource
<1>5. empty \in Source
  <2>1. c.kind \in Kind /\ c.view \in Nat
    BY DEF Call
  <2> QED
    BY <2>1, EmptySourceType
<1> HIDE DEF empty
<1>6. fresh \in Source
  BY <1>2, <1>5 DEF Source
<1> HIDE DEF fresh
<1>7. ASSUME NEW n \in 0..Cardinality(rows), NEW left \in 1..MaxSlices,
             s = [fresh EXCEPT !.indexed = n, !.left = left]
      PROVE  /\ s.order = Unsorted /\ s.ordinals = <<>> /\ ~s.changed /\ ~s.failed
             /\ s.asOpened = rows /\ s.indexed <= Cardinality(rows) /\ ~s.complete
  BY <1>2, <1>4, <1>6, <1>7 DEF Source
<1>8. ASSUME s = [fresh EXCEPT !.indexed = Cardinality(rows), !.complete = TRUE]
      PROVE  /\ s.order = Unsorted /\ s.ordinals = <<>> /\ ~s.changed /\ ~s.failed
             /\ s.asOpened = rows /\ s.indexed = Cardinality(rows)
  BY <1>2, <1>4, <1>6, <1>8 DEF Source
<1>9. \/ s = empty \/ s = fresh
      \/ s = [fresh EXCEPT !.indexed = Cardinality(rows), !.complete = TRUE]
      \/ \E n \in 0..Cardinality(rows), left \in 1..MaxSlices :
            s = [fresh EXCEPT !.indexed = n, !.left = left]
  <2>1. s = empty \/ s = fresh \/ s \in Sampled(fresh)
        \/ s = [fresh EXCEPT !.indexed = Cardinality(rows), !.complete = TRUE]
    BY DEF OpenOutcomes, empty, fresh
  <2> DEFINE partial(n, left) == [fresh EXCEPT !.indexed = n, !.left = left]
  <2>2. Sampled(fresh) = {partial(n, left) : n \in 0..Cardinality(rows), left \in 1..MaxSlices}
    BY DEF Sampled
  <2> HIDE DEF partial
  <2>3. s \in Sampled(fresh) => \E n \in 0..Cardinality(rows), left \in 1..MaxSlices :
                                     s = partial(n, left)
    BY <2>2
  <2> QED
    BY <2>1, <2>3 DEF partial
<1>10. CASE s = empty
  BY <1>1, <1>2, <1>3, <1>10
<1>11. CASE s = fresh
  BY <1>1, <1>2, <1>4, <1>11
<1>12. CASE s = [fresh EXCEPT !.indexed = Cardinality(rows), !.complete = TRUE]
  BY <1>1, <1>2, <1>8, <1>12
<1>13. CASE \E n \in 0..Cardinality(rows), left \in 1..MaxSlices :
               s = [fresh EXCEPT !.indexed = n, !.left = left]
  BY <1>1, <1>2, <1>7, <1>13
<1> QED
  BY <1>9, <1>10, <1>11, <1>12, <1>13

\* What the signals of a step say.
LEMMA EventFields ==
    ASSUME NEW sig, NEW view, NEW gen, NEW ok, NEW b, NEW n, NEW c, NEW page, NEW s
    PROVE  /\ LET e == [NewEvent(sig, view, gen, ok) EXCEPT !.canSort = b]
              IN  e.sig = sig /\ e.view = view /\ e.gen = gen /\ e.ok = ok /\ e.canSort = b
           /\ LET e == [NewEvent(sig, view, gen, ok) EXCEPT !.total = n]
              IN  e.sig = sig /\ e.view = view /\ e.gen = gen /\ e.ok = ok /\ e.total = n
           /\ LET e == PageReady(c, page)
              IN  e.sig = "pageReady" /\ e.view = c.view /\ e.gen = c.gen /\ e.ok = page.ok
                  /\ e.rows = page.rows /\ e.token = page.token /\ e.hasMore = page.hasMore
           /\ LET e == Progress(view, s)
              IN  e.sig = "indexProgress" /\ e.view = view /\ e.gen = 0
                  /\ e.ok = ~Broken(s) /\ e.complete = s.complete
                  /\ e.total = IF Broken(s) THEN NoTotal ELSE s.indexed
BY DEF NewEvent, PageReady, Progress

\* open() returns.
LEMMA FinishOpenFacts ==
    ASSUME WorkerTypeOK, FinishOpen
    PROVE  /\ task.op = "open" /\ task' = NoCall
           /\ UNCHANGED <<rows, viewGen, opGen, parked>>
           /\ src' \in OpenOutcomes(task)
           /\ \/ IsStale(task) /\ UNCHANGED <<events, inbox>>
              \/ /\ ~IsStale(task)
                 /\ \/ inbox' = inbox
                    \/ inbox' = Append(inbox, NewCall("slice", task.view, 0, "csv"))
                       /\ src'.kind = "csv"
                 /\ \E done \in Event :
                      /\ done.sig = "openCompleted" /\ done.view = task.view /\ done.gen = task.gen
                      /\ done.ok = src'.open /\ done.canSort = CanSort(src')
                      /\ \/ events' = Append(events, done)
                         \/ events' = Append(Append(events, done), Progress(task.view, src'))
                            /\ src'.complete /\ src'.kind = "csv"
<1>1. /\ task.op = "open" /\ task' = NoCall /\ UNCHANGED <<rows, viewGen, opGen, parked>>
      /\ src' \in OpenOutcomes(task)
      /\ IF IsStale(task) THEN UNCHANGED <<events, inbox>> ELSE OpenCompleted(task, src')
  BY DEF FinishOpen
<1>2. task \in Call /\ task.view \in Nat /\ task.gen \in Nat /\ events \in Seq(Event)
  BY DEF WorkerTypeOK, Call
<1>3. src' \in Source /\ src'.kind = task.kind
  BY <1>1, <1>2, OpenOutcomesType
<1>4. ASSUME ~IsStale(task)
      PROVE  /\ \/ inbox' = inbox
                \/ inbox' = Append(inbox, NewCall("slice", task.view, 0, "csv"))
                   /\ src'.kind = "csv"
             /\ \E done \in Event :
                  /\ done.sig = "openCompleted" /\ done.view = task.view /\ done.gen = task.gen
                  /\ done.ok = src'.open /\ done.canSort = CanSort(src')
                  /\ \/ events' = Append(events, done)
                     \/ events' = Append(Append(events, done), Progress(task.view, src'))
                        /\ src'.complete /\ src'.kind = "csv"
  <2> DEFINE bare == NewEvent("openCompleted", task.view, task.gen, src'.open)
             done == [bare EXCEPT !.canSort = CanSort(src')]
             progress == Progress(task.view, src')
  <2>1. done \in Event
    <3>1. src'.open \in BOOLEAN /\ CanSort(src') \in BOOLEAN
      BY <1>3 DEF Source, CanSort
    <3>2. bare \in Event
      BY <1>2, <3>1, NewEventType
    <3> QED
      BY <3>1, <3>2 DEF Event
  <2>2. progress \in Event
    BY <1>2, <1>3, ProgressType
  <2>3. /\ \/ events' = Append(events, done)
           \/ events' = events \o <<done, progress>> /\ src'.complete /\ src'.kind = "csv"
        /\ \/ inbox' = inbox
           \/ inbox' = Append(inbox, NewCall("slice", task.view, 0, "csv")) /\ src'.kind = "csv"
    BY <1>1, <1>3, <1>4 DEF OpenCompleted
  <2>4. /\ done.sig = "openCompleted" /\ done.view = task.view /\ done.gen = task.gen
        /\ done.ok = src'.open /\ done.canSort = CanSort(src')
    BY EventFields
  <2> HIDE DEF done, progress
  <2>5. events \o <<done, progress>> = Append(Append(events, done), progress)
    BY <1>2, <2>1, <2>2
  <2> QED
    BY <2>1, <2>3, <2>4, <2>5 DEF progress
<1> QED
  BY <1>1, <1>4

\* sort() returns.
LEMMA FinishSortFacts ==
    ASSUME WorkerTypeOK, FinishSort
    PROVE  /\ task.op = "sort" /\ task' = NoCall
           /\ UNCHANGED <<rows, viewGen, opGen, inbox, parked>>
           /\ src'.kind = src.kind /\ src'.view = src.view /\ src'.open = src.open
           /\ src'.asOpened = src.asOpened /\ src'.changed = src.changed
           /\ src'.failed = src.failed
           /\ src'.indexed = src.indexed /\ src'.complete = src.complete
           /\ \E done \in BOOLEAN :
                /\ done => CanSort(src) /\ src'.order = task.sort
                           /\ src'.ordinals = Ranked(rows, task.sort)
                /\ ~done => src' = src
                /\ IsStale(task) => events' = events
                /\ ~IsStale(task) => \E e \in Event :
                     /\ e.sig = "sortCompleted" /\ e.view = task.view /\ e.gen = task.gen
                     /\ e.ok = done /\ (done => e.total = Cardinality(rows))
                     /\ events' = Append(events, e)
<1>1. /\ task.op = "sort" /\ task' = NoCall
      /\ UNCHANGED <<rows, viewGen, opGen, inbox, parked>>
  BY DEF FinishSort
<1>2. PICK done \in BOOLEAN :
         /\ done => CanSort(src)
         /\ src' = IF done THEN [src EXCEPT !.order = task.sort,
                                            !.ordinals = Ranked(rows, task.sort)]
                           ELSE src
         /\ events' = IF IsStale(task) THEN events
                      ELSE Append(events, [NewEvent("sortCompleted", task.view, task.gen, done)
                                 EXCEPT !.total = IF done THEN Cardinality(rows) ELSE 0])
  BY DEF FinishSort
<1>3. src \in Source /\ task.view \in Nat /\ task.gen \in Nat
  BY DEF WorkerTypeOK, Call
<1>4. /\ src'.kind = src.kind /\ src'.view = src.view /\ src'.open = src.open
      /\ src'.asOpened = src.asOpened /\ src'.changed = src.changed /\ src'.failed = src.failed
      /\ src'.indexed = src.indexed /\ src'.complete = src.complete
      /\ done => src'.order = task.sort /\ src'.ordinals = Ranked(rows, task.sort)
  BY <1>2, <1>3 DEF Source
<1> DEFINE total == IF done THEN Cardinality(rows) ELSE 0
           e == [NewEvent("sortCompleted", task.view, task.gen, done) EXCEPT !.total = total]
<1>5. total \in Total
  BY RowsFinite DEF Total
<1>6. e \in Event
  <2>1. NewEvent("sortCompleted", task.view, task.gen, done) \in Event
    BY <1>3, NewEventType
  <2> QED
    BY <1>5, <2>1 DEF Event
<1>7. /\ e.sig = "sortCompleted" /\ e.view = task.view /\ e.gen = task.gen /\ e.ok = done
      /\ e.total = total
  BY EventFields
<1>8. events' = IF IsStale(task) THEN events ELSE Append(events, e)
  BY <1>2
<1>9. done => total = Cardinality(rows)
  OBVIOUS
<1> HIDE DEF e, total
<1>10. ~IsStale(task) => \E x \in Event :
          /\ x.sig = "sortCompleted" /\ x.view = task.view /\ x.gen = task.gen
          /\ x.ok = done /\ (done => x.total = Cardinality(rows))
          /\ events' = Append(events, x)
  BY <1>6, <1>7, <1>8, <1>9
<1>11. IsStale(task) => events' = events
  BY <1>8
<1> QED
  BY <1>1, <1>2, <1>4, <1>10, <1>11

\* A look at the file changes only what is known of it.
LEMMA VerifiedSame ==
    ASSUME NEW s \in Source
    PROVE  /\ SameSource(s, Verified(s)) /\ Verified(s).indexed = s.indexed
           /\ Verified(s).complete = s.complete /\ Verified(s).failed = s.failed
           /\ s.changed => Verified(s).changed
           /\ rows = s.asOpened => Verified(s).changed = s.changed
BY DEF Verified, SameSource, Source

\* The page is there, or no more of the file will be indexed.
Served(c, s) == s.kind = "csv" => Readiness(s, StartOrdinal(c.op, c.token, c.total)) # "Pending"

\* A page request is dropped, parked, or answered.
LEMMA FetchPageFacts ==
    ASSUME WorkerTypeOK, FetchPage
    PROVE  /\ inbox # <<>> /\ inbox' = Tail(inbox) /\ task = NoCall
           /\ Head(inbox).op \in PageOps
           /\ UNCHANGED <<rows, viewGen, opGen, task>>
           /\ \/ (IsStale(Head(inbox)) \/ src.kind = "none") /\ UNCHANGED <<parked, src, events>>
              \/ ~IsStale(Head(inbox)) /\ parked' = Head(inbox) /\ UNCHANGED <<src, events>>
              \/ /\ ~IsStale(Head(inbox)) /\ parked' = NoCall
                 /\ src' = Verified(src) /\ src.kind # "none" /\ Served(Head(inbox), src)
                 /\ \E page \in Pages(Head(inbox), src) :
                      events' = Append(events, PageReady(Head(inbox), page))
BY DEF FetchPage, TakeCall, Unpark, Served

\* A slice of indexing moves the end of what is indexed, and nothing else.
LEMMA SliceOutcomesFacts ==
    ASSUME WorkerTypeOK, NEW s \in Source, NEW t \in SliceOutcomes(s)
    PROVE  /\ SameSource(s, t)
           /\ rows = s.asOpened => t.changed = s.changed
           /\ s.indexed <= Cardinality(rows) => t.indexed <= Cardinality(rows)
           /\ t = s \/ (t.complete => t.indexed = Cardinality(rows)) \/ t = Verified(s)
           /\ s.failed => t.failed
<1>1. Cardinality(rows) \in Nat /\ s.indexed \in Nat
  BY RowsFinite DEF Source
<1>2. CASE t = s
  BY <1>2 DEF SameSource
<1>3. CASE t = Verified(s)
  BY <1>3, VerifiedSame
<1>4. ASSUME NEW n \in s.indexed..Cardinality(rows), t = [s EXCEPT !.indexed = n, !.failed = TRUE],
             ~IndexEnded(s)
      PROVE  /\ SameSource(s, t) /\ t.changed = s.changed /\ t.indexed <= Cardinality(rows)
             /\ ~t.complete /\ t.failed
  <2>1. ~s.complete
    BY <1>4 DEF IndexEnded
  <2> QED
    BY <1>1, <1>4, <2>1 DEF SameSource, Source
<1>5. ASSUME NEW n \in s.indexed..Cardinality(rows),
             t = [s EXCEPT !.indexed = n, !.left = s.left - 1, !.complete = (s.left = 1)]
      PROVE  /\ SameSource(s, t) /\ t.changed = s.changed /\ t.indexed <= Cardinality(rows)
             /\ t.failed = s.failed
  BY <1>1, <1>5 DEF SameSource, Source
<1>6. \/ t = s \/ t = Verified(s)
      \/ ~IndexEnded(s) /\ \E n \in s.indexed..Cardinality(rows) : t = [s EXCEPT !.indexed = n, !.failed = TRUE]
      \/ /\ \E n \in s.indexed..Cardinality(rows) :
              t = [s EXCEPT !.indexed = n, !.left = s.left - 1, !.complete = (s.left = 1)]
         /\ t.complete => t.indexed = Cardinality(rows)
  BY DEF SliceOutcomes
<1> QED
  BY <1>2, <1>3, <1>4, <1>5, <1>6

\* A slice of indexing is dropped, or moves the index on; the parked request is
\* dropped, kept or answered.
LEMMA IndexSliceFacts ==
    ASSUME WorkerTypeOK, IndexSlice
    PROVE  /\ inbox # <<>> /\ task = NoCall /\ Head(inbox).op = "slice"
           /\ inbox' = Tail(inbox) \/ inbox' = Append(Tail(inbox), Head(inbox))
           /\ UNCHANGED <<rows, viewGen, opGen, task>>
           /\ \/ UNCHANGED <<parked, src, events>>
              \/ /\ Head(inbox).view = viewGen /\ src.kind = "csv"
                 /\ \E s \in SliceOutcomes(src), sofar \in Seq(Event) :
                      /\ s \in Source
                      /\ src' = s \/ src' = Verified(s)
                      /\ \/ sofar = events /\ ~IndexEnded(s)
                         \/ sofar = Append(events, Progress(Head(inbox).view, s))
                      /\ Progress(Head(inbox).view, s) \in Event
                      /\ \/ events' = sofar
                            /\ (parked' = NoCall \/ parked' = parked)
                         \/ /\ parked # NoCall /\ ~IsStale(parked) /\ parked' = NoCall
                            /\ \E page \in Pages(parked, s) :
                                 /\ events' = Append(sofar, PageReady(parked, page))
                                 /\ page.ok => src' = Verified(s) /\ Served(parked, s)
<1> DEFINE c == Head(inbox)
<1>1. /\ src \in Source /\ events \in Seq(Event) /\ inbox \in Seq(Call)
      /\ src.kind = "csv" /\ ~IndexEnded(src) => src.left > 0
  BY DEF WorkerTypeOK
<1>2. /\ inbox # <<>> /\ task = NoCall /\ c.op = "slice"
      /\ UNCHANGED <<rows, viewGen, opGen, task>>
  BY DEF IndexSlice
<1>3. c.view \in Nat
  <2>1. c \in Call
    BY <1>1, <1>2, QueueTail
  <2> QED
    BY <2>1 DEF Call
<1>4. CASE IsViewStale(c) \/ src.kind # "csv"
  BY <1>2, <1>4 DEF IndexSlice
<1>5. CASE ~(IsViewStale(c) \/ src.kind # "csv")
  <2>1. PICK s \in SliceOutcomes(src) :
           /\ \E sofar \in Reports(c.view, s) : AnswerParked(s, sofar)
           /\ inbox' = IF IndexEnded(s) THEN Tail(inbox) ELSE Append(Tail(inbox), c)
    BY <1>5 DEF IndexSlice
  <2>2. PICK sofar \in Reports(c.view, s) : AnswerParked(s, sofar)
    BY <2>1
  <2>3. s \in Source
    BY <1>1, <1>5, SliceOutcomesType
  <2>4. Progress(c.view, s) \in Event
    BY <1>3, <2>3, ProgressType
  <2>5. \/ sofar = events /\ ~IndexEnded(s)
        \/ sofar = Append(events, Progress(c.view, s))
    BY <2>2 DEF Reports
  <2>6. sofar \in Seq(Event)
    <3> DEFINE e == Progress(c.view, s)
    <3> HIDE DEF e
    <3>1. e \in Event /\ (sofar = events \/ sofar = Append(events, e))
      BY <2>4, <2>5 DEF e
    <3>2. Append(events, e) \in Seq(Event)
      BY <1>1, <3>1, QueueAppend
    <3> QED
      BY <1>1, <3>1, <3>2
  <2>7. FailedPage \in Pages(parked, s) /\ ~FailedPage.ok
    BY DEF Pages, FailedPage
  <2>8. /\ src' = s \/ src' = Verified(s)
        /\ \/ events' = sofar /\ (parked' = NoCall \/ parked' = parked)
           \/ /\ parked # NoCall /\ ~IsStale(parked) /\ parked' = NoCall
              /\ \E page \in Pages(parked, s) :
                    /\ events' = Append(sofar, PageReady(parked, page))
                    /\ page.ok => src' = Verified(s) /\ Served(parked, s)
    BY <2>2, <2>7 DEF AnswerParked, Unpark, Served
  <2>9. c.view = viewGen /\ src.kind = "csv"
    BY <1>5 DEF IsViewStale
  <2> QED
    BY <1>2, <2>1, <2>3, <2>4, <2>5, <2>6, <2>8, <2>9
<1> QED
  BY <1>4, <1>5

\* The worker lets its source go.
LEMMA ShutdownFacts ==
    ASSUME WorkerTypeOK, Shutdown
    PROVE  /\ inbox # <<>> /\ inbox' = Tail(inbox) /\ Head(inbox).op = "shutdown"
           /\ src' = NoSource /\ parked' = NoCall
           /\ UNCHANGED <<rows, viewGen, opGen, task, events>>
BY DEF Shutdown, TakeCall, Unpark

\* The pages a source may answer with are in the order it is in.
LEMMA PagesInOrder ==
    ASSUME WorkerTypeOK, NEW c \in Call, c.op \in PageOps, NEW s \in Source,
           s.order # Unsorted => s.kind # "csv" /\ Ordered(s.order, s.ordinals),
           NEW page \in Pages(c, s)
    PROVE  Ordered(s.order, page.rows)
<1>1. CASE page = FailedPage
  BY <1>1 DEF FailedPage, Ordered
<1>2. CASE page # FailedPage
  <2>1. page = Fetch(Verified(s), rows, c.op, c.token, c.total)
    BY <1>2 DEF Pages
  <2>2. Verified(s) \in Source
    BY VerifiedType
  <2>3. /\ Verified(s).kind = s.kind /\ Verified(s).order = s.order
        /\ Verified(s).ordinals = s.ordinals
    BY VerifiedSame DEF SameSource
  <2>4. /\ Verified(s).indexed \in Nat /\ Verified(s).ordinals \in Seq(Row)
        /\ c.token \in Token /\ c.total \in Total /\ rows \in SUBSET Row
    BY <2>2, RowsFinite DEF Source, Call
  <2> QED
    BY <2>1, <2>3, <2>4, FetchInOrder
<1> QED
  BY <1>1, <1>2

=============================================================================
