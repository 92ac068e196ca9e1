----------------------------- MODULE IndexProofs -----------------------------
(***************************************************************************)
(* Proofs about CsvRecordIndex, for every size of the buffer, the cache    *)
(* and the blocks: whatever is read is what was appended (IndexCorrect,    *)
(* IndexImplementsList), and an index whose file works never fails         *)
(* (HealthyIndex).                                                         *)
(***************************************************************************)
EXTENDS CsvRecordIndex, TLAPS

AnySpan == Span \union {Hole}

-----------------------------------------------------------------------------
(* Sequences, element by element.                                          *)

\* What concatenation yields.
LEMMA ConcatElements ==
    ASSUME NEW S, NEW a \in Seq(S), NEW b \in Seq(S)
    PROVE  /\ a \o b \in Seq(S)
           /\ Len(a \o b) = Len(a) + Len(b)
           /\ \A i \in 1..(Len(a) + Len(b)) :
                (a \o b)[i] = IF i <= Len(a) THEN a[i] ELSE b[i - Len(a)]
  OBVIOUS

\* Two sequences with the same elements are the same.
LEMMA SameElements ==
    ASSUME NEW S, NEW a \in Seq(S), NEW b \in Seq(S), Len(a) = Len(b),
           \A i \in 1..Len(a) : a[i] = b[i]
    PROVE  a = b
  OBVIOUS

\* A function on 1..n is a sequence.
LEMMA FunctionIsSequence ==
    ASSUME NEW S, NEW n \in Nat, NEW f \in [1..n -> S]
    PROVE  f \in Seq(S)
  OBVIOUS

\* Appending to the second of two parts appends to the whole.
LEMMA ConcatAppend ==
    ASSUME NEW S, NEW a \in Seq(S), NEW b \in Seq(S), NEW s \in S
    PROVE  a \o Append(b, s) = Append(a \o b, s)
  <1> DEFINE c == Append(b, s)
             d == a \o b
  <1>1. /\ c \in Seq(S)
        /\ Len(c) = Len(b) + 1
        /\ \A i \in 1..(Len(b) + 1) : c[i] = IF i <= Len(b) THEN b[i] ELSE s
    OBVIOUS
  <1>2. /\ d \in Seq(S)
        /\ Len(d) = Len(a) + Len(b)
        /\ \A i \in 1..(Len(a) + Len(b)) : d[i] = IF i <= Len(a) THEN a[i] ELSE b[i - Len(a)]
    BY ConcatElements
  <1>3. /\ Append(d, s) \in Seq(S)
        /\ Len(Append(d, s)) = Len(d) + 1
        /\ \A i \in 1..(Len(d) + 1) : Append(d, s)[i] = IF i <= Len(d) THEN d[i] ELSE s
    BY <1>2
  <1> HIDE DEF c, d
  <1>4. /\ a \o c \in Seq(S)
        /\ Len(a \o c) = Len(a) + Len(c)
        /\ \A i \in 1..(Len(a) + Len(c)) :
             (a \o c)[i] = IF i <= Len(a) THEN a[i] ELSE c[i - Len(a)]
    BY <1>1, ConcatElements
  <1>5. Len(a) \in Nat /\ Len(b) \in Nat
    OBVIOUS
  <1>6. ASSUME NEW i \in 1..Len(a \o c)
        PROVE  (a \o c)[i] = Append(d, s)[i]
    <2>1. i \in 1..(Len(a) + Len(b) + 1)
      BY <1>1, <1>4, <1>5
    <2>2. CASE i <= Len(a)
      BY <2>1, <2>2, <1>1, <1>2, <1>3, <1>4, <1>5
    <2>3. CASE i > Len(a) /\ i <= Len(a) + Len(b)
      <3>1. i - Len(a) \in 1..Len(b)
        BY <2>1, <2>3, <1>5
      <3>2. (a \o c)[i] = c[i - Len(a)]
        BY <2>1, <2>3, <1>1, <1>4, <1>5
      <3>3. c[i - Len(a)] = b[i - Len(a)]
        BY <3>1, <1>1, <1>5
      <3>4. Append(d, s)[i] = b[i - Len(a)]
        BY <2>1, <2>3, <1>2, <1>3, <1>5
      <3> QED
        BY <3>2, <3>3, <3>4
    <2>4. CASE i = Len(a) + Len(b) + 1
      <3>1. (a \o c)[i] = c[Len(b) + 1]
        BY <2>1, <2>4, <1>1, <1>4, <1>5
      <3>2. c[Len(b) + 1] = s
        BY <1>1, <1>5
      <3>3. Append(d, s)[i] = s
        BY <2>1, <2>4, <1>2, <1>3, <1>5
      <3> QED
        BY <3>1, <3>2, <3>3
    <2>5. i <= Len(a) \/ (i > Len(a) /\ i <= Len(a) + Len(b)) \/ i = Len(a) + Len(b) + 1
      BY <2>1, <1>5
    <2> QED
      BY <2>2, <2>3, <2>4, <2>5
  <1>7. a \o c = Append(d, s)
    BY <1>1, <1>2, <1>3, <1>4, <1>5, <1>6, SameElements
  <1> QED
    BY <1>7 DEF c, d

\* An empty second part adds nothing.
LEMMA ConcatEmpty ==
    ASSUME NEW S, NEW a \in Seq(S)
    PROVE  a \o <<>> = a
  OBVIOUS

\* A part of a sequence, counted from 0.
LEMMA RunElements ==
    ASSUME NEW S, NEW a \in Seq(S), NEW first \in Nat, NEW n \in Nat, first + n <= Len(a)
    PROVE  /\ SubSeq(a, first + 1, first + n) \in Seq(S)
           /\ Len(SubSeq(a, first + 1, first + n)) = n
           /\ \A i \in 1..n : SubSeq(a, first + 1, first + n)[i] = a[first + i]
  OBVIOUS

\* What agrees with a part of a sequence is that part.
LEMMA SameRun ==
    ASSUME NEW S, NEW a \in Seq(S), NEW first \in Nat, NEW g \in Seq(S),
           first + Len(g) <= Len(a),
           \A i \in 1..Len(g) : g[i] = a[first + i]
    PROVE  g = SubSeq(a, first + 1, first + Len(g))
  <1>1. Len(g) \in Nat
    OBVIOUS
  <1>2. /\ SubSeq(a, first + 1, first + Len(g)) \in Seq(S)
        /\ Len(SubSeq(a, first + 1, first + Len(g))) = Len(g)
        /\ \A i \in 1..Len(g) : SubSeq(a, first + 1, first + Len(g))[i] = a[first + i]
    BY <1>1, RunElements
  <1> QED
    BY <1>2, SameElements

-----------------------------------------------------------------------------
(* flushBuffer().                                                          *)

\* What a write at any offset leaves in the file.
LEMMA WrittenType ==
    ASSUME disk \in Seq(AnySpan), NEW offset \in Nat, NEW spans \in Seq(Span)
    PROVE  Written(offset, spans) \in Seq(AnySpan)
  <1> DEFINE end == offset + Len(spans)
             top == IF end < Len(disk) THEN Len(disk) ELSE end
  <1>1. top \in Nat /\ Len(disk) \in Nat /\ Len(spans) \in Nat
    OBVIOUS
  <1>2. ASSUME NEW i \in 1..top
        PROVE  (IF offset < i /\ i <= end THEN spans[i - offset]
                ELSE IF i <= Len(disk) THEN disk[i] ELSE Hole) \in AnySpan
    <2>1. CASE offset < i /\ i <= end
      <3>1. i - offset \in 1..Len(spans)
        BY <2>1, <1>1
      <3> QED
        BY <2>1, <3>1 DEF AnySpan
    <2>2. CASE ~(offset < i /\ i <= end) /\ i <= Len(disk)
      BY <2>2, <1>1
    <2>3. CASE ~(offset < i /\ i <= end) /\ ~(i <= Len(disk))
      BY <2>3 DEF AnySpan
    <2> QED
      BY <2>1, <2>2, <2>3
  <1>3. [i \in 1..top |-> IF offset < i /\ i <= end THEN spans[i - offset]
                          ELSE IF i <= Len(disk) THEN disk[i] ELSE Hole]
            \in [1..top -> AnySpan]
    BY <1>2
  <1>4. Written(offset, spans) \in [1..top -> AnySpan]
    BY <1>3 DEF Written
  <1> QED
    BY <1>1, <1>4, FunctionIsSequence

\* A write at the end of the file makes it longer by what is written.
LEMMA WrittenAtEnd ==
    ASSUME disk \in Seq(Span), NEW spans \in Seq(Span)
    PROVE  Written(Len(disk), spans) = disk \o spans
  <1> DEFINE w == Written(Len(disk), spans)
  <1>1. Len(disk) \in Nat /\ Len(spans) \in Nat
    OBVIOUS
  <1>2. /\ w \in Seq(AnySpan)
        /\ Len(w) = Len(disk) + Len(spans)
        /\ \A i \in 1..(Len(disk) + Len(spans)) :
             w[i] = IF Len(disk) < i THEN spans[i - Len(disk)] ELSE disk[i]
    <2>1. disk \in Seq(AnySpan)
      BY DEF AnySpan
    <2>2. w \in Seq(AnySpan)
      BY <2>1, <1>1, WrittenType
    <2>3. w = [i \in 1..(Len(disk) + Len(spans)) |->
                 IF Len(disk) < i /\ i <= Len(disk) + Len(spans) THEN spans[i - Len(disk)]
                 ELSE IF i <= Len(disk) THEN disk[i] ELSE Hole]
      BY <1>1 DEF Written
    <2> QED
      BY <2>2, <2>3, <1>1
  <1>3. /\ disk \o spans \in Seq(AnySpan)
        /\ Len(disk \o spans) = Len(disk) + Len(spans)
        /\ \A i \in 1..(Len(disk) + Len(spans)) :
             (disk \o spans)[i] = IF i <= Len(disk) THEN disk[i] ELSE spans[i - Len(disk)]
    BY ConcatElements DEF AnySpan
  <1> HIDE DEF w
  <1>4. \A i \in 1..Len(w) : w[i] = (disk \o spans)[i]
    BY <1>1, <1>2, <1>3
  <1>5. w = disk \o spans
    BY <1>2, <1>3, <1>4, SameElements
  <1> QED
    BY <1>5 DEF w

\* A flush moves the buffer to the end of the file and changes nothing of what
\* the index holds.
LEMMA FlushKeepsContents ==
    ASSUME disk \in Seq(Span), NEW buffer \in Seq(Span), NEW count,
           count = Len(disk) + Len(buffer), FlushBuffer(count, buffer)
    PROVE  /\ disk' = disk \o buffer
           /\ disk' \in Seq(Span)
           /\ Len(disk') = count
           /\ writeBuffer' = <<>>
  <1>1. disk \o buffer \in Seq(Span) /\ Len(disk \o buffer) = count
    BY ConcatElements
  <1>2. WriteOffset(count, buffer) = Len(disk)
    BY DEF WriteOffset
  <1>3. disk' = disk \o buffer
    BY <1>2, WrittenAtEnd, ConcatEmpty DEF FlushBuffer
  <1> QED
    BY <1>1, <1>3 DEF FlushBuffer

-----------------------------------------------------------------------------
(* The invariant: every span is the same wherever it is found.             *)

\* As long as the index is in use, its contents are one span per record.
LEMMA ContentsElements ==
    ASSUME TypeOK, FileHoldsTheRest
    PROVE  /\ Contents \in Seq(Span)
           /\ Len(Contents) = recordCount
           /\ Len(disk) \in Nat /\ Len(writeBuffer) \in Nat
           /\ \A i \in 1..Len(disk) : Contents[i] = disk[i]
  <1>1. disk \in Seq(Span) /\ writeBuffer \in Seq(Span)
    BY DEF TypeOK, FileHoldsTheRest
  <1> QED
    BY <1>1, ConcatElements DEF Contents, FileHoldsTheRest

\* Before a file is opened the index holds nothing.
LEMMA InitInv ==
    ASSUME Init
    PROVE  IndexInv
  <1>1. Len(<<>>) = 0 /\ <<>> \in Seq(Span)
    OBVIOUS
  <1>2. TypeOK
    <2>1. <<>> \in Seq(Span \union {Hole})
      OBVIOUS
    <2>2. want \in [first : Nat, count : Nat] \union {NoRead}
      BY DEF Init
    <2> QED
      BY <1>1, <2>1, <2>2 DEF Init, TypeOK
  <1>3. FileHoldsTheRest
    BY <1>1, IndexAssumption DEF Init, FileHoldsTheRest
  <1>4. RamHoldsTheFirst
    BY <1>1, IndexAssumption DEF Init, RamHoldsTheFirst, Least
  <1>5. BlockHoldsWhatIsOnDisk
    BY DEF Init, BlockHoldsWhatIsOnDisk
  <1> QED
    BY <1>2, <1>3, <1>4, <1>5
    DEF Init, IndexInv, PlacesAgree, GotIsARun, NothingAfterFailure, CompleteIsOnDisk

\* init() starts over with an empty file.
LEMMA InitIndexInv ==
    ASSUME IndexInv, InitIndex
    PROVE  IndexInv'
  <1>1. TypeOK'
    <2>1. handle' \in BOOLEAN
      BY DEF InitIndex
    <2>2. want' = want /\ got' = got /\ answer' = answer
      BY DEF InitIndex, readVars
    <2>3. <<>> \in Seq(Span) /\ <<>> \in Seq(Span \union {Hole})
      OBVIOUS
    <2> QED
      BY <2>1, <2>2, <2>3 DEF InitIndex, IndexInv, TypeOK
  <1>2. /\ failed' = FALSE /\ complete' = FALSE /\ recordCount' = 0 /\ ramCache' = <<>>
        /\ writeBuffer' = <<>> /\ disk' = <<>> /\ blockStart' = -1 /\ want' = NoRead
    BY DEF InitIndex, readVars
  <1>3. Len(<<>>) = 0 /\ <<>> \in Seq(Span)
    OBVIOUS
  <1>4. FileHoldsTheRest'
    BY <1>2, <1>3, IndexAssumption DEF FileHoldsTheRest
  <1>5. RamHoldsTheFirst'
    BY <1>2, <1>3, IndexAssumption DEF RamHoldsTheFirst, Least
  <1>6. BlockHoldsWhatIsOnDisk'
    BY <1>2 DEF BlockHoldsWhatIsOnDisk
  <1> QED
    BY <1>1, <1>2, <1>4, <1>5, <1>6
    DEF IndexInv, PlacesAgree, GotIsARun, NothingAfterFailure, CompleteIsOnDisk

\* What a failed write leaves in the file is of the right type, whatever it is.
LEMMA FlushFailsType ==
    ASSUME TypeOK, NEW count, NEW buffer \in Seq(Span), FlushFails(count, buffer),
           count - Len(buffer) \in Nat
    PROVE  disk' \in Seq(AnySpan) /\ writeBuffer' \in Seq(Span) /\ failed' = TRUE
  <1>1. PICK n \in 0..(IF handle THEN Len(buffer) ELSE 0) :
           disk' = Written(WriteOffset(count, buffer), SubSeq(buffer, 1, n))
    BY DEF FlushFails
  <1>2. SubSeq(buffer, 1, n) \in Seq(Span)
    BY <1>1
  <1>3. disk \in Seq(AnySpan)
    BY DEF TypeOK, AnySpan
  <1>4. disk' \in Seq(AnySpan)
    BY <1>1, <1>2, <1>3, WrittenType DEF WriteOffset
  <1> QED
    BY <1>4 DEF FlushFails

\* A step that ends with a failed index need only keep the types, as long as
\* no read is left under way.
LEMMA FailedIsInv ==
    ASSUME TypeOK', failed' = TRUE, want' = NoRead
    PROVE  IndexInv'
  BY DEF IndexInv, PlacesAgree, NothingAfterFailure, CompleteIsOnDisk

\* appendSpan(), unless it fails, makes the contents longer by the new span and
\* takes nothing away from the file.
LEMMA AppendSpanContents ==
    ASSUME IndexInv, NEW s \in Span, AppendSpan(s), ~failed'
    PROVE  /\ failed' = FALSE
           /\ disk' \in Seq(Span) /\ writeBuffer' \in Seq(Span)
           /\ Contents' = Append(Contents, s)
           /\ Len(disk') + Len(writeBuffer') = recordCount + 1
           /\ Len(writeBuffer') < WriteBufferSize
           /\ Len(disk) <= Len(disk')
           /\ \A i \in 1..Len(disk) : disk'[i] = disk[i]
           /\ ~handle => disk' = <<>>
  <1> DEFINE buffer == Append(writeBuffer, s)
  <1>1. TypeOK /\ FileHoldsTheRest /\ ~failed
    BY DEF IndexInv, PlacesAgree, AppendSpan
  <1>2. /\ buffer \in Seq(Span) /\ buffer # <<>>
        /\ Len(disk) \in Nat /\ Len(buffer) \in Nat
        /\ disk \in Seq(Span) /\ writeBuffer \in Seq(Span)
        /\ recordCount + 1 = Len(disk) + Len(buffer)
        /\ disk \o buffer = Append(Contents, s)
    <2>1. disk \in Seq(Span) /\ writeBuffer \in Seq(Span)
      BY <1>1 DEF TypeOK, FileHoldsTheRest
    <2>2. Len(disk) \in Nat /\ Len(writeBuffer) \in Nat
      BY <2>1
    <2>3. buffer \in Seq(Span) /\ Len(buffer) = Len(writeBuffer) + 1
      BY <2>1
    <2>4. buffer # <<>>
      BY <2>2, <2>3
    <2>5. recordCount = Len(disk) + Len(writeBuffer)
      BY <1>1 DEF FileHoldsTheRest
    <2>6. disk \o buffer = Append(Contents, s)
      BY <2>1, ConcatAppend DEF Contents
    <2> QED
      BY <2>1, <2>2, <2>3, <2>4, <2>5, <2>6
  <1> HIDE DEF buffer
  <1>3. CASE Len(buffer) < WriteBufferSize
    <2>1. writeBuffer' = buffer /\ disk' = disk /\ failed' = failed
      BY <1>2, <1>3, IndexAssumption DEF AppendSpan, buffer
    <2> QED
      BY <2>1, <1>1, <1>2, <1>3 DEF TypeOK, FileHoldsTheRest, Contents
  <1>4. CASE ~(Len(buffer) < WriteBufferSize)
    <2>1. FlushBuffer(recordCount + 1, buffer) /\ failed' = failed
      BY <1>4 DEF AppendSpan, FlushFails, buffer
    <2>2. /\ disk' = disk \o buffer /\ disk' \in Seq(Span)
          /\ Len(disk') = recordCount + 1 /\ writeBuffer' = <<>>
      BY <2>1, <1>2, FlushKeepsContents
    <2>3. handle
      BY <2>1, <1>2 DEF FlushBuffer
    <2>4. Contents' = disk \o buffer
      BY <2>2, ConcatEmpty DEF Contents
    <2>5. \A i \in 1..Len(disk) : disk'[i] = disk[i]
      <3>1. \A i \in 1..(Len(disk) + Len(buffer)) :
              (disk \o buffer)[i] = IF i <= Len(disk) THEN disk[i] ELSE buffer[i - Len(disk)]
        BY <1>2, ConcatElements
      <3>2. \A i \in 1..Len(disk) : i \in 1..(Len(disk) + Len(buffer)) /\ i <= Len(disk)
        BY <1>2
      <3> QED
        BY <2>2, <3>1, <3>2
    <2> QED
      BY <2>1, <2>2, <2>3, <2>4, <2>5, <1>1, <1>2, IndexAssumption DEF TypeOK
  <1> QED
    BY <1>3, <1>4

\* appendSpan(): the new span is the last one in the buffer or, once that is
\* full, in the file.
LEMMA AppendSpanInv ==
    ASSUME IndexInv, NEW s \in Span, AppendSpan(s)
    PROVE  IndexInv'
  <1> DEFINE buffer == Append(writeBuffer, s)
             ram == IF Len(ramCache) < MaxCachedSpans THEN Append(ramCache, s) ELSE ramCache
  <1>1. /\ TypeOK /\ FileHoldsTheRest /\ RamHoldsTheFirst /\ BlockHoldsWhatIsOnDisk
        /\ ~failed /\ ~complete /\ want = NoRead
    BY DEF IndexInv, PlacesAgree, AppendSpan
  <1>2. /\ buffer \in Seq(Span) /\ buffer # <<>>
        /\ Len(buffer) = Len(writeBuffer) + 1
        /\ Len(disk) \in Nat /\ Len(writeBuffer) \in Nat
        /\ disk \in Seq(Span) /\ writeBuffer \in Seq(Span)
        /\ recordCount + 1 = Len(disk) + Len(buffer)
        /\ (recordCount + 1) - Len(buffer) \in Nat
    <2>1. disk \in Seq(Span) /\ writeBuffer \in Seq(Span)
      BY <1>1 DEF TypeOK, FileHoldsTheRest
    <2>2. Len(disk) \in Nat /\ Len(writeBuffer) \in Nat
      BY <2>1
    <2>3. buffer \in Seq(Span) /\ Len(buffer) = Len(writeBuffer) + 1
      BY <2>1
    <2>4. buffer # <<>>
      BY <2>2, <2>3
    <2>5. recordCount = Len(disk) + Len(writeBuffer)
      BY <1>1 DEF FileHoldsTheRest
    <2> QED
      BY <2>1, <2>2, <2>3, <2>4, <2>5
  <1>3. /\ disk \o buffer \in Seq(Span)
        /\ Len(disk \o buffer) = recordCount + 1
        /\ (disk \o buffer)[recordCount + 1] = s
        /\ \A i \in 1..recordCount : (disk \o buffer)[i] = Contents[i]
        /\ disk \o buffer = Append(Contents, s)
    <2>1. disk \o buffer = Append(Contents, s)
      BY <1>2, ConcatAppend DEF Contents
    <2>2. Contents \in Seq(Span) /\ Len(Contents) = recordCount
      BY <1>1, ContentsElements
    <2> QED
      BY <2>1, <2>2
  <1>4. /\ ramCache' = ram
        /\ ramCache' \in Seq(Span)
        /\ Len(ramCache') = Least(recordCount + 1, MaxCachedSpans)
        /\ \A i \in 1..Len(ramCache') : ramCache'[i] = (disk \o buffer)[i]
    <2>1. /\ ramCache \in Seq(Span) /\ Len(ramCache) \in Nat /\ recordCount \in Nat
          /\ Len(ramCache) = Least(recordCount, MaxCachedSpans)
          /\ \A i \in 1..Len(ramCache) : ramCache[i] = Contents[i]
      BY <1>1 DEF TypeOK, RamHoldsTheFirst
    <2>2. CASE Len(ramCache) < MaxCachedSpans
      <3>1. Len(ramCache) = recordCount
        BY <2>1, <2>2, IndexAssumption DEF Least
      <3>2. /\ ram \in Seq(Span) /\ Len(ram) = recordCount + 1
            /\ ram[recordCount + 1] = s
            /\ \A i \in 1..recordCount : ram[i] = ramCache[i]
        BY <2>1, <2>2, <3>1
      <3>3. Least(recordCount + 1, MaxCachedSpans) = recordCount + 1
        BY <2>1, <2>2, <3>1, IndexAssumption DEF Least
      <3>4. \A i \in 1..(recordCount + 1) : i \in 1..recordCount \/ i = recordCount + 1
        BY <2>1
      <3>5. \A i \in 1..(recordCount + 1) : ram[i] = (disk \o buffer)[i]
        BY <3>1, <3>2, <3>4, <2>1, <1>3
      <3> QED
        BY <3>2, <3>3, <3>5 DEF AppendSpan
    <2>3. CASE ~(Len(ramCache) < MaxCachedSpans)
      <3>1. Len(ramCache) = Least(recordCount + 1, MaxCachedSpans) /\ Len(ramCache) <= recordCount
        BY <2>1, <2>3, IndexAssumption DEF Least
      <3>2. \A i \in 1..Len(ramCache) : ramCache[i] = (disk \o buffer)[i]
        BY <3>1, <2>1, <1>3
      <3> QED
        BY <2>1, <2>3, <3>1, <3>2 DEF AppendSpan
    <2> QED
      BY <2>2, <2>3
  <1> HIDE DEF buffer, ram
  <1>5. /\ handle' = handle /\ complete' = FALSE /\ want' = NoRead
        /\ recordCount' = recordCount + 1
        /\ UNCHANGED <<complete, blockCache, blockStart, got, answer>>
    BY <1>1 DEF AppendSpan, readVars, TypeOK
  <1>6. CASE failed'
    <2>1. FlushFails(recordCount + 1, buffer)
      BY <1>1, <1>6 DEF AppendSpan, buffer
    <2>2. disk' \in Seq(AnySpan) /\ writeBuffer' \in Seq(Span) /\ failed' = TRUE
      BY <1>1, <1>2, <2>1, FlushFailsType DEF TypeOK
    <2>3. TypeOK'
      BY <1>1, <1>4, <1>5, <2>2 DEF TypeOK, AnySpan
    <2> QED
      BY <1>5, <2>2, <2>3, FailedIsInv
  <1>7. CASE ~failed'
    <2>1. /\ failed' = FALSE
          /\ disk' \in Seq(Span) /\ writeBuffer' \in Seq(Span)
          /\ Contents' = disk \o buffer
          /\ Len(disk') + Len(writeBuffer') = recordCount + 1
          /\ Len(writeBuffer') < WriteBufferSize
          /\ Len(disk) <= Len(disk')
          /\ \A i \in 1..Len(disk) : disk'[i] = disk[i]
          /\ ~handle => disk' = <<>>
      BY <1>3, <1>7, AppendSpanContents DEF buffer
    <2>2. TypeOK'
      <3>1. disk' \in Seq(Span \union {Hole})
        BY <2>1
      <3>2. writeBuffer' \in Seq(Span) /\ failed' = FALSE /\ ramCache' \in Seq(Span)
        BY <1>4, <2>1
      <3>3. /\ handle' \in BOOLEAN /\ complete' \in BOOLEAN /\ recordCount' \in Nat
            /\ want' \in [first : Nat, count : Nat] \union {NoRead}
        BY <1>1, <1>5 DEF TypeOK
      <3>4. /\ blockCache' \in Seq(Span \union {Hole}) /\ blockStart' \in Nat \union {-1}
            /\ got' \in Seq(Span \union {Hole}) /\ answer' \in Seq(Span \union {Hole})
        BY <1>1, <1>5 DEF TypeOK
      <3> QED
        BY <3>1, <3>2, <3>3, <3>4 DEF TypeOK
    <2>3. FileHoldsTheRest'
      BY <1>5, <2>1 DEF FileHoldsTheRest
    <2>4. RamHoldsTheFirst'
      BY <1>4, <1>5, <2>1 DEF RamHoldsTheFirst
    <2>5. BlockHoldsWhatIsOnDisk'
      <3>1. CASE blockStart >= 0
        <4>1. /\ blockStart \in Nat /\ Len(blockCache) \in Nat /\ Len(disk) \in Nat
              /\ Len(disk') \in Nat
              /\ blockStart + Len(blockCache) <= Len(disk)
              /\ \A i \in 1..Len(blockCache) : blockCache[i] = disk[blockStart + i]
          BY <3>1, <1>1, <2>1 DEF BlockHoldsWhatIsOnDisk, TypeOK
        <4>2. \A i \in 1..Len(blockCache) : blockStart + i \in 1..Len(disk)
          BY <4>1
        <4>3. \A i \in 1..Len(blockCache) : blockCache[i] = disk'[blockStart + i]
          BY <4>1, <4>2, <2>1
        <4> QED
          BY <4>1, <4>3, <1>1, <1>5, <2>1 DEF BlockHoldsWhatIsOnDisk, TypeOK
      <3>2. CASE ~(blockStart >= 0)
        BY <3>2, <1>5 DEF BlockHoldsWhatIsOnDisk
      <3> QED
        BY <3>1, <3>2
    <2> QED
      BY <1>5, <2>1, <2>2, <2>3, <2>4, <2>5
      DEF IndexInv, PlacesAgree, GotIsARun, NothingAfterFailure, CompleteIsOnDisk
  <1> QED
    BY <1>6, <1>7

\* markComplete(): what was buffered is in the file when the flag is set.
LEMMA MarkCompleteInv ==
    ASSUME IndexInv, MarkComplete
    PROVE  IndexInv'
  <1>1. /\ TypeOK /\ FileHoldsTheRest /\ RamHoldsTheFirst /\ BlockHoldsWhatIsOnDisk
        /\ ~failed /\ want = NoRead
    BY DEF IndexInv, PlacesAgree, MarkComplete
  <1>2. /\ disk \in Seq(Span) /\ writeBuffer \in Seq(Span)
        /\ recordCount = Len(disk) + Len(writeBuffer)
        /\ Len(disk) \in Nat /\ Len(writeBuffer) \in Nat
        /\ recordCount - Len(writeBuffer) \in Nat
    <2>1. disk \in Seq(Span) /\ writeBuffer \in Seq(Span)
      BY <1>1 DEF TypeOK, FileHoldsTheRest
    <2>2. recordCount = Len(disk) + Len(writeBuffer)
      BY <1>1 DEF FileHoldsTheRest
    <2> QED
      BY <2>1, <2>2
  <1>3. /\ want' = NoRead /\ handle' = handle /\ recordCount' = recordCount
        /\ UNCHANGED <<ramCache, blockCache, blockStart, got, answer>>
    BY <1>1 DEF MarkComplete, cacheVars, readVars
  <1>4. CASE FlushFails(recordCount, writeBuffer) /\ complete' = FALSE
    <2>1. disk' \in Seq(AnySpan) /\ writeBuffer' \in Seq(Span) /\ failed' = TRUE
      BY <1>1, <1>2, <1>4, FlushFailsType
    <2>2. TypeOK'
      BY <1>1, <1>3, <1>4, <2>1 DEF TypeOK, AnySpan
    <2> QED
      BY <1>3, <2>1, <2>2, FailedIsInv
  <1>5. ASSUME FlushBuffer(recordCount, writeBuffer), complete' \in BOOLEAN, failed' \in BOOLEAN
        PROVE  IndexInv'
    <2>1. /\ disk' = disk \o writeBuffer /\ disk' \in Seq(Span)
          /\ Len(disk') = recordCount /\ writeBuffer' = <<>>
      BY <1>2, <1>5, FlushKeepsContents
    <2>2. /\ disk' \in Seq(Span \union {Hole})
          /\ writeBuffer' \in Seq(Span) /\ Len(writeBuffer') = 0
      BY <2>1
    <2>3. TypeOK'
      BY <1>1, <1>3, <1>5, <2>2 DEF TypeOK
    <2>4. FileHoldsTheRest'
      <3>1. ~handle => disk' = <<>>
        <4>1. writeBuffer # <<>> => handle
          BY <1>5 DEF FlushBuffer
        <4>2. writeBuffer = <<>> => disk' = disk
          BY <1>5 DEF FlushBuffer
        <4> QED
          BY <4>1, <4>2, <1>1 DEF FileHoldsTheRest
      <3> QED
        BY <1>1, <1>3, <2>1, <2>2, <3>1, IndexAssumption DEF FileHoldsTheRest, TypeOK
    <2>5. Contents' = Contents
      BY <2>1, ConcatEmpty DEF Contents
    <2>6. RamHoldsTheFirst'
      BY <1>1, <1>3, <2>5 DEF RamHoldsTheFirst
    <2>7. BlockHoldsWhatIsOnDisk'
      <3>1. \A i \in 1..Len(disk) : disk'[i] = disk[i]
        BY <1>2, <2>1, ConcatElements
      <3> QED
        BY <1>1, <1>2, <1>3, <2>1, <3>1 DEF BlockHoldsWhatIsOnDisk, TypeOK
    <2> QED
      BY <1>3, <2>1, <2>3, <2>4, <2>6, <2>7
      DEF IndexInv, PlacesAgree, GotIsARun, NothingAfterFailure, CompleteIsOnDisk
  <1> QED
    BY <1>1, <1>4, <1>5 DEF MarkComplete, TypeOK

-----------------------------------------------------------------------------
(* The steps of a read.                                                    *)

\* A read begins with nothing.
LEMMA ReadSpansInv ==
    ASSUME IndexInv, NEW first \in Nat, NEW count \in Nat, ReadSpans(first, count)
    PROVE  IndexInv'
  <1>1. /\ want' = [first |-> first, count |-> count] /\ got' = <<>>
        /\ UNCHANGED <<handle, recordCount, complete, failed, writeBuffer, ramCache,
                       blockCache, blockStart, disk, answer>>
    BY DEF ReadSpans, cacheVars
  <1>2. <<>> \in Seq(Span \union {Hole}) /\ Len(<<>>) = 0
    OBVIOUS
  <1>3. TypeOK'
    BY <1>1, <1>2 DEF IndexInv, TypeOK
  <1>4. GotIsARun'
    BY <1>1, <1>2 DEF GotIsARun
  <1>5. Contents' = Contents
    BY <1>1 DEF Contents
  <1>6. ~failed' => FileHoldsTheRest' /\ RamHoldsTheFirst' /\ BlockHoldsWhatIsOnDisk'
    BY <1>1, <1>5
    DEF IndexInv, PlacesAgree, FileHoldsTheRest, RamHoldsTheFirst, BlockHoldsWhatIsOnDisk
  <1> QED
    BY <1>1, <1>3, <1>4, <1>6
    DEF IndexInv, PlacesAgree, NothingAfterFailure, CompleteIsOnDisk

\* What is true of every readable span.
LEMMA ReadableFacts ==
    ASSUME IndexInv, Readable
    PROVE  /\ TypeOK /\ FileHoldsTheRest /\ RamHoldsTheFirst /\ BlockHoldsWhatIsOnDisk
           /\ GotIsARun
           /\ ~failed /\ want # NoRead /\ want \in [first : Nat, count : Nat]
           /\ got \in Seq(Span \union {Hole})
           /\ Len(got) \in Nat /\ Ordinal \in Nat /\ recordCount \in Nat
           /\ Ordinal = want.first + Len(got)
           /\ Len(got) < want.count
           /\ Ordinal < recordCount
           /\ \A i \in 1..Len(got) : got[i] = Contents[want.first + i]
  <1>1. /\ TypeOK /\ FileHoldsTheRest /\ RamHoldsTheFirst /\ BlockHoldsWhatIsOnDisk /\ GotIsARun
        /\ ~failed /\ want # NoRead
    BY DEF IndexInv, PlacesAgree, Readable, Reading
  <1>2. want \in [first : Nat, count : Nat] /\ got \in Seq(Span \union {Hole}) /\ recordCount \in Nat
    BY <1>1 DEF TypeOK
  <1>3. Len(got) \in Nat /\ Ordinal \in Nat /\ Ordinal = want.first + Len(got)
    BY <1>2 DEF Ordinal
  <1> QED
    BY <1>1, <1>2, <1>3 DEF GotIsARun, Readable, Reading

\* One span more, if it is the right one, is still a run of the contents.
LEMMA OneMore ==
    ASSUME IndexInv, Readable, NEW s \in Span \union {Hole}, s = Contents[Ordinal + 1],
           got' = Append(got, s), want' = want, recordCount' = recordCount,
           Contents' = Contents
    PROVE  GotIsARun' /\ got' \in Seq(Span \union {Hole})
  <1>1. /\ want \in [first : Nat, count : Nat]
        /\ got \in Seq(Span \union {Hole})
        /\ Len(got) \in Nat /\ Ordinal \in Nat /\ recordCount \in Nat
        /\ Ordinal = want.first + Len(got) /\ Len(got) < want.count /\ Ordinal < recordCount
        /\ \A i \in 1..Len(got) : got[i] = Contents[want.first + i]
    BY ReadableFacts
  <1>2. /\ got' \in Seq(Span \union {Hole}) /\ Len(got') = Len(got) + 1
        /\ got'[Len(got) + 1] = s
        /\ \A i \in 1..Len(got) : got'[i] = got[i]
    BY <1>1
  <1>3. want.first \in Nat /\ want.count \in Nat
    BY <1>1
  <1>4. Ordinal' = want.first + Len(got')
    BY DEF Ordinal
  <1>5. \A i \in 1..Len(got') : i \in 1..Len(got) \/ i = Len(got) + 1
    BY <1>1, <1>2
  <1>6. \A i \in 1..Len(got') : got'[i] = Contents[want.first + i]
    <2>1. Contents[want.first + (Len(got) + 1)] = s
      BY <1>1, <1>3
    <2> QED
      BY <1>1, <1>2, <1>5, <2>1
  <1> QED
    BY <1>1, <1>2, <1>3, <1>4, <1>6 DEF GotIsARun

\* A read that only returns or takes a span from memory leaves the places alone.
LEMMA PlacesUnchanged ==
    ASSUME IndexInv, UNCHANGED <<handle, recordCount, complete, failed, ramCache, writeBuffer,
                                 blockCache, blockStart, disk>>
    PROVE  /\ Contents' = Contents
           /\ ~failed' => FileHoldsTheRest' /\ RamHoldsTheFirst' /\ BlockHoldsWhatIsOnDisk'
           /\ CompleteIsOnDisk'
  <1>1. Contents' = Contents
    BY DEF Contents
  <1> QED
    BY <1>1
    DEF IndexInv, PlacesAgree, FileHoldsTheRest, RamHoldsTheFirst, BlockHoldsWhatIsOnDisk,
        CompleteIsOnDisk

\* readSpans() returns.
LEMMA ReadEndsInv ==
    ASSUME IndexInv, ReadEnds
    PROVE  IndexInv'
  <1>1. /\ want' = NoRead /\ answer' = got /\ got' = got
        /\ UNCHANGED <<handle, recordCount, complete, failed, ramCache, writeBuffer,
                       blockCache, blockStart, disk>>
    BY DEF ReadEnds, Return, fileVars, cacheVars
  <1>2. TypeOK'
    BY <1>1 DEF IndexInv, TypeOK
  <1> QED
    BY <1>1, <1>2, PlacesUnchanged DEF IndexInv, PlacesAgree, GotIsARun, NothingAfterFailure

\* A span served from memory or from the last block is the right one.
LEMMA ReadCachedInv ==
    ASSUME IndexInv, ReadRam \/ ReadBlock
    PROVE  IndexInv'
  <1>1. /\ Readable
        /\ UNCHANGED <<handle, recordCount, complete, failed, ramCache, writeBuffer,
                       blockCache, blockStart, disk, want, answer>>
    BY DEF ReadRam, ReadBlock, fileVars, cacheVars
  <1>2. /\ TypeOK /\ FileHoldsTheRest /\ RamHoldsTheFirst /\ BlockHoldsWhatIsOnDisk
        /\ ~failed /\ Ordinal \in Nat
    BY <1>1, ReadableFacts
  <1>3. PICK s \in Span \union {Hole} : got' = Append(got, s) /\ s = Contents[Ordinal + 1]
    <2>1. CASE ReadRam
      <3>1. ramCache \in Seq(Span) /\ Ordinal + 1 \in 1..Len(ramCache)
        BY <1>2, <2>1 DEF ReadRam, InRam, TypeOK
      <3>2. ramCache[Ordinal + 1] \in Span
        BY <3>1
      <3>3. ramCache[Ordinal + 1] = Contents[Ordinal + 1]
        BY <1>2, <3>1 DEF RamHoldsTheFirst
      <3> QED
        BY <2>1, <3>2, <3>3 DEF ReadRam
    <2>2. CASE ReadBlock
      <3> DEFINE i == BlockOffset(Ordinal) + 1
      <3>1. /\ blockStart \in Nat /\ i = Ordinal - blockStart + 1
            /\ i \in 1..Len(blockCache)
        BY <1>2, <2>2 DEF ReadBlock, InBlock, BlockOffset, TypeOK
      <3>2. blockCache[i] \in Span \union {Hole}
        BY <1>2, <3>1 DEF TypeOK
      <3>3. blockStart + i = Ordinal + 1 /\ Ordinal + 1 \in 1..Len(disk)
        BY <1>2, <3>1 DEF BlockHoldsWhatIsOnDisk, TypeOK
      <3>4. blockCache[i] = disk[Ordinal + 1]
        BY <1>2, <3>1, <3>3 DEF BlockHoldsWhatIsOnDisk
      <3>5. disk[Ordinal + 1] = Contents[Ordinal + 1]
        BY <1>2, <3>3, ContentsElements
      <3> QED
        BY <2>2, <3>2, <3>4, <3>5 DEF ReadBlock
    <2> QED
      BY <2>1, <2>2
  <1>4. Contents' = Contents
    BY <1>1, PlacesUnchanged
  <1>5. GotIsARun' /\ got' \in Seq(Span \union {Hole})
    BY <1>1, <1>3, <1>4, OneMore
  <1>6. TypeOK'
    BY <1>1, <1>2, <1>5 DEF TypeOK
  <1> QED
    BY <1>1, <1>2, <1>5, <1>6, PlacesUnchanged DEF IndexInv, PlacesAgree, NothingAfterFailure

\* The flush before a block is read moves spans, it does not change them.
LEMMA FlushBeforeReadFacts ==
    ASSUME IndexInv, Readable, FlushBeforeRead, handle' = handle,
           recordCount' = recordCount, ramCache' = ramCache
    PROVE  /\ Contents' = Contents
           /\ disk' = Contents /\ writeBuffer' = <<>>
           /\ disk' \in Seq(Span) /\ Len(disk') = recordCount
           /\ FileHoldsTheRest' /\ RamHoldsTheFirst'
  <1>1. /\ TypeOK /\ FileHoldsTheRest /\ RamHoldsTheFirst
        /\ FlushBuffer(recordCount, writeBuffer)
    BY ReadableFacts DEF FlushBeforeRead
  <1>2. /\ disk \in Seq(Span) /\ writeBuffer \in Seq(Span)
        /\ recordCount = Len(disk) + Len(writeBuffer)
    BY <1>1 DEF TypeOK, FileHoldsTheRest
  <1>3. /\ disk' = disk \o writeBuffer /\ disk' \in Seq(Span)
        /\ Len(disk') = recordCount /\ writeBuffer' = <<>>
    BY <1>1, <1>2, FlushKeepsContents
  <1>4. disk' = Contents /\ Contents' = Contents
    BY <1>3, ConcatEmpty DEF Contents
  <1>5. Len(writeBuffer') = 0
    BY <1>3
  <1>6. ~handle => disk' = <<>>
    BY <1>1 DEF FlushBuffer, FileHoldsTheRest
  <1>7. FileHoldsTheRest'
    <2>1. Len(disk') + Len(writeBuffer') = recordCount
      BY <1>1, <1>3, <1>5 DEF TypeOK
    <2> QED
      BY <2>1, <1>3, <1>5, <1>6, IndexAssumption DEF FileHoldsTheRest
  <1>8. RamHoldsTheFirst'
    BY <1>1, <1>4 DEF RamHoldsTheFirst
  <1> QED
    BY <1>3, <1>4, <1>7, <1>8

\* A span read from the file is the right one, and so is the block behind it.
LEMMA ReadDiskInv ==
    ASSUME IndexInv, ReadDisk
    PROVE  IndexInv'
  <1>1. /\ Readable /\ FlushBeforeRead
        /\ UNCHANGED <<handle, recordCount, complete, failed, ramCache, want, answer>>
        /\ Ordinal + BlockLength <= Len(disk')
        /\ blockStart' = Ordinal
        /\ blockCache' = SubSeq(disk', Ordinal + 1, Ordinal + BlockLength)
        /\ got' = Append(got, disk'[Ordinal + 1])
    BY DEF ReadDisk
  <1>2. TypeOK /\ ~failed /\ Ordinal \in Nat /\ Ordinal < recordCount /\ recordCount \in Nat
    BY <1>1, ReadableFacts
  <1>3. /\ Contents' = Contents /\ disk' = Contents /\ writeBuffer' = <<>>
        /\ disk' \in Seq(Span) /\ Len(disk') = recordCount
        /\ FileHoldsTheRest' /\ RamHoldsTheFirst'
    BY <1>1, FlushBeforeReadFacts
  <1>4. disk'[Ordinal + 1] \in Span
    BY <1>2, <1>3
  <1>5. GotIsARun' /\ got' \in Seq(Span \union {Hole})
    <2>1. disk'[Ordinal + 1] = Contents[Ordinal + 1]
      BY <1>3
    <2>2. disk'[Ordinal + 1] \in Span \union {Hole}
      BY <1>4
    <2> QED
      BY <1>1, <1>3, <2>1, <2>2, OneMore
  <1>6. BlockLength \in Nat
    BY <1>2, IndexAssumption DEF BlockLength, Least
  <1>7. /\ blockCache' \in Seq(Span) /\ Len(blockCache') = BlockLength
        /\ \A i \in 1..BlockLength : blockCache'[i] = disk'[Ordinal + i]
    BY <1>1, <1>2, <1>3, <1>6
  <1>8. BlockHoldsWhatIsOnDisk'
    BY <1>1, <1>7 DEF BlockHoldsWhatIsOnDisk
  <1>9. TypeOK'
    <2>1. disk' \in Seq(Span \union {Hole}) /\ blockCache' \in Seq(Span \union {Hole})
      BY <1>3, <1>7
    <2>2. writeBuffer' \in Seq(Span)
      BY <1>3
    <2>3. blockStart' \in Nat \union {-1}
      BY <1>1, <1>2
    <2> QED
      BY <1>1, <1>2, <1>5, <2>1, <2>2, <2>3 DEF TypeOK
  <1> QED
    BY <1>1, <1>2, <1>3, <1>5, <1>8, <1>9
    DEF IndexInv, PlacesAgree, NothingAfterFailure, CompleteIsOnDisk

\* A read that fails leaves no read under way.
LEMMA ReadDiskFailsInv ==
    ASSUME IndexInv, ReadDiskFails
    PROVE  IndexInv'
  <1>1. /\ Readable
        /\ want' = NoRead /\ answer' = got /\ got' = got
        /\ UNCHANGED <<handle, recordCount, complete, ramCache>>
    BY DEF ReadDiskFails, Return
  <1>2. TypeOK /\ FileHoldsTheRest
    BY <1>1, ReadableFacts
  <1>3. /\ failed' = TRUE
        /\ disk' \in Seq(Span \union {Hole}) /\ writeBuffer' \in Seq(Span)
        /\ blockCache' \in Seq(Span \union {Hole}) /\ blockStart' \in Nat \union {-1}
    <2>1. CASE FlushFails(recordCount, writeBuffer) /\ UNCHANGED <<blockCache, blockStart>>
      <3>1. writeBuffer \in Seq(Span) /\ recordCount - Len(writeBuffer) \in Nat
        <4>1. writeBuffer \in Seq(Span) /\ disk \in Seq(Span)
          BY <1>2 DEF TypeOK, FileHoldsTheRest
        <4>2. recordCount = Len(disk) + Len(writeBuffer)
          BY <1>2 DEF FileHoldsTheRest
        <4> QED
          BY <4>1, <4>2
      <3>2. disk' \in Seq(AnySpan) /\ writeBuffer' \in Seq(Span) /\ failed' = TRUE
        BY <1>2, <2>1, <3>1, FlushFailsType
      <3> QED
        BY <1>2, <2>1, <3>2 DEF TypeOK, AnySpan
    <2>2. CASE FlushBeforeRead /\ failed' = TRUE /\ blockCache' = <<>> /\ blockStart' = -1
      <3>1. disk' \in Seq(Span) /\ writeBuffer' = <<>>
        BY <1>1, <2>2, FlushBeforeReadFacts
      <3>2. disk' \in Seq(Span \union {Hole})
        BY <3>1
      <3>3. <<>> \in Seq(Span) /\ <<>> \in Seq(Span \union {Hole})
        OBVIOUS
      <3> QED
        BY <2>2, <3>1, <3>2, <3>3
    <2> QED
      BY <2>1, <2>2 DEF ReadDiskFails
  <1>4. TypeOK'
    BY <1>1, <1>2, <1>3 DEF TypeOK
  <1> QED
    BY <1>1, <1>3, <1>4, FailedIsInv

\* Whatever is read from the index is what was appended to it, in memory, in
\* the last block, in the buffer or in the file (appendSpan, readSpan, init and
\* markComplete of csv_record_index.cpp).
THEOREM IndexCorrect == Spec => []IndexInv
  <1>1. Init => IndexInv
    BY InitInv
  <1>2. IndexInv /\ [Next]_indexVars => IndexInv'
    <2> SUFFICES ASSUME IndexInv, [Next]_indexVars
                 PROVE  IndexInv'
      OBVIOUS
    <2>1. CASE InitIndex
      BY <2>1, InitIndexInv
    <2>2. ASSUME NEW s \in Span, AppendSpan(s)
          PROVE  IndexInv'
      BY <2>2, AppendSpanInv
    <2>3. CASE MarkComplete
      BY <2>3, MarkCompleteInv
    <2>4. ASSUME NEW first \in 0..MaxRecords, NEW count \in 0..MaxRecords,
                 ReadSpans(first, count)
          PROVE  IndexInv'
      <3>1. first \in Nat /\ count \in Nat
        BY IndexAssumption
      <3> QED
        BY <2>4, <3>1, ReadSpansInv
    <2>5. CASE ReadEnds
      BY <2>5, ReadEndsInv
    <2>6. CASE ReadRam \/ ReadBlock
      BY <2>6, ReadCachedInv
    <2>7. CASE ReadDisk
      BY <2>7, ReadDiskInv
    <2>8. CASE ReadDiskFails
      BY <2>8, ReadDiskFailsInv
    <2>9. CASE UNCHANGED indexVars
      <3>1. UNCHANGED <<handle, recordCount, complete, failed, ramCache, writeBuffer,
                        blockCache, blockStart, disk, want, got, answer>>
        BY <2>9 DEF indexVars
      <3>2. TypeOK'
        BY <3>1 DEF IndexInv, TypeOK
      <3>3. ~failed' => GotIsARun'
        <4>1. Contents' = Contents
          BY <3>1 DEF Contents
        <4> QED
          BY <3>1, <4>1 DEF IndexInv, PlacesAgree, GotIsARun, Ordinal
      <3> QED
        BY <3>1, <3>2, <3>3, PlacesUnchanged DEF IndexInv, PlacesAgree, NothingAfterFailure
    <2> QED
      BY <2>1, <2>2, <2>3, <2>4, <2>5, <2>6, <2>7, <2>8, <2>9 DEF Next, UseIndex, ReadStep
  <1> QED
    BY <1>1, <1>2, PTL DEF Spec

-----------------------------------------------------------------------------
(* A file system that works.                                               *)

\* No read asks the temporary file for a span that is not in it (the flush and
\* the length of the block in readSpan), so nothing but the file system makes
\* the index fail.
THEOREM HealthyIndex == Spec => []NeverFailsByItself
  <1>1. Init => NeverFailsByItself
    BY DEF Init, NeverFailsByItself
  <1>2. IndexInv /\ NeverFailsByItself /\ [Next]_indexVars => NeverFailsByItself'
    <2> SUFFICES ASSUME IndexInv, NeverFailsByItself, [Next]_indexVars,
                        ~mayFail', handle'
                 PROVE  ~failed'
      BY DEF NeverFailsByItself
    <2>1. CASE InitIndex
      BY <2>1 DEF InitIndex
    <2> SUFFICES ASSUME ~InitIndex
                 PROVE  ~failed'
      BY <2>1
    <2>2. handle /\ ~failed /\ ~IoFails
      <3>1. mayFail' = mayFail
        BY DEF Next, indexVars
      <3>2. handle' = handle
        BY DEF Next, UseIndex, AppendSpan, MarkComplete, ReadSpans, ReadStep, ReadEnds,
               ReadRam, ReadBlock, ReadDisk, ReadDiskFails, fileVars, indexVars
      <3> QED
        BY <3>1, <3>2 DEF NeverFailsByItself, IoFails
    <2>3. ~\E count, buffer : FlushFails(count, buffer)
      BY <2>2 DEF FlushFails
    <2>4. ASSUME NEW s \in Span, AppendSpan(s)
          PROVE  ~failed'
      BY <2>2, <2>3, <2>4 DEF AppendSpan
    <2>5. CASE MarkComplete
      BY <2>2, <2>3, <2>5 DEF MarkComplete
    <2>6. CASE ReadDiskFails
      <3>1. /\ Readable /\ FlushBeforeRead /\ handle' = handle
            /\ recordCount' = recordCount /\ ramCache' = ramCache
            /\ Ordinal + BlockLength > Len(disk')
        BY <2>2, <2>3, <2>6 DEF ReadDiskFails
      <3>2. Ordinal \in Nat /\ recordCount \in Nat /\ Ordinal < recordCount
        BY <3>1, ReadableFacts
      <3>3. Len(disk') = recordCount
        BY <3>1, FlushBeforeReadFacts
      <3>4. Ordinal + BlockLength <= recordCount
        BY <3>2, IndexAssumption DEF BlockLength, Least
      <3>5. BlockLength \in Nat
        BY <3>2, IndexAssumption DEF BlockLength, Least
      <3> QED
        BY <3>1, <3>2, <3>3, <3>4, <3>5
    <2>7. CASE \E first, count \in 0..MaxRecords : ReadSpans(first, count)
      BY <2>2, <2>7 DEF ReadSpans
    <2>8. CASE ReadEnds \/ ReadRam \/ ReadBlock \/ ReadDisk
      BY <2>2, <2>8 DEF ReadEnds, ReadRam, ReadBlock, ReadDisk
    <2>9. CASE UNCHANGED indexVars
      BY <2>2, <2>9 DEF indexVars
    <2> QED
      BY <2>4, <2>5, <2>6, <2>7, <2>8, <2>9 DEF Next, UseIndex, ReadStep
  <1> QED
    BY <1>1, <1>2, IndexCorrect, PTL DEF Spec

-----------------------------------------------------------------------------
(* The index implements SpanList.                                          *)

\* The list of spans the index stands for.
Spans == IF failed THEN <<>> ELSE Contents

\* What a read has so far is a part of that list.
LEMMA GotIsRunOfSpans ==
    ASSUME IndexInv, want # NoRead
    PROVE  /\ want \in [first : Nat, count : Nat]
           /\ Len(got) \in 0..want.count
           /\ Len(got) > 0 => want.first + Len(got) <= Len(Spans)
           /\ got = SubSeq(Spans, want.first + 1, want.first + Len(got))
           /\ ~failed => Len(Spans) = recordCount
           /\ Len(Spans) \in Nat
  <1>1. TypeOK
    BY DEF IndexInv
  <1>2. /\ want \in [first : Nat, count : Nat]
        /\ want.first \in Nat /\ want.count \in Nat
        /\ got \in Seq(Span \union {Hole}) /\ Len(got) \in Nat
    <2>1. want \in [first : Nat, count : Nat]
      BY <1>1 DEF TypeOK
    <2>2. got \in Seq(Span \union {Hole})
      BY <1>1 DEF TypeOK
    <2> QED
      BY <2>1, <2>2
  <1>3. CASE failed
    <2>1. got = <<>> /\ Spans = <<>>
      BY <1>3 DEF IndexInv, NothingAfterFailure, Spans
    <2>2. SubSeq(<<>>, want.first + 1, want.first + 0) = <<>>
      BY <1>2
    <2>3. Len(got) = 0 /\ Len(Spans) = 0
      BY <2>1
    <2> QED
      BY <1>2, <1>3, <2>1, <2>2, <2>3
  <1>4. CASE ~failed
    <2>1. FileHoldsTheRest /\ GotIsARun
      BY <1>4 DEF IndexInv, PlacesAgree
    <2>2. Spans = Contents /\ Spans \in Seq(Span) /\ Len(Spans) = recordCount
      BY <1>1, <1>4, <2>1, ContentsElements DEF Spans
    <2>3. /\ Len(got) <= want.count
          /\ Len(got) > 0 => want.first + Len(got) <= Len(Spans)
          /\ \A i \in 1..Len(got) : got[i] = Spans[want.first + i]
      BY <2>1, <2>2 DEF GotIsARun, Ordinal
    <2> DEFINE run == SubSeq(Spans, want.first + 1, want.first + Len(got))
    <2>4. CASE Len(got) = 0
      <3>1. run = <<>>
        BY <1>2, <2>2, <2>4
      <3> QED
        BY <1>2, <2>2, <2>3, <2>4, <3>1
    <2>5. CASE Len(got) > 0
      <3>1. Spans \in Seq(Span \union {Hole})
        BY <2>2
      <3>2. got = run
        BY <1>2, <2>3, <2>5, <3>1, SameRun
      <3> QED
        BY <1>2, <2>2, <2>3, <2>5, <3>2
    <2> QED
      BY <1>2, <2>4, <2>5
  <1> QED
    BY <1>3, <1>4

\* A read that returns has the whole of what there is of its range.
LEMMA ReadEndsAnswers ==
    ASSUME IndexInv, ReadEnds
    PROVE  List!Answer
  <1>1. /\ want # NoRead /\ want' = NoRead /\ answer' = got
        /\ UNCHANGED <<complete, failed, disk, writeBuffer>>
        /\ Len(got) >= want.count \/ failed \/ Ordinal >= recordCount
    BY DEF ReadEnds, Return, fileVars
  <1>2. /\ want \in [first : Nat, count : Nat]
        /\ want.first \in Nat /\ want.count \in Nat
        /\ Len(got) \in 0..want.count
        /\ Len(got) > 0 => want.first + Len(got) <= Len(Spans)
        /\ got = SubSeq(Spans, want.first + 1, want.first + Len(got))
        /\ ~failed => Len(Spans) = recordCount
        /\ Len(Spans) \in Nat
    BY <1>1, GotIsRunOfSpans
  <1>3. failed => Len(Spans) = 0
    BY DEF Spans
  <1>4. got = IF want.first >= Len(Spans) THEN <<>>
              ELSE IF want.first + want.count <= Len(Spans)
              THEN SubSeq(Spans, want.first + 1, want.first + want.count)
              ELSE SubSeq(Spans, want.first + 1, want.first + (Len(Spans) - want.first))
    <2>1. CASE want.first >= Len(Spans)
      <3>1. Len(got) = 0
        BY <1>2, <2>1
      <3>2. got \in Seq(Span \union {Hole})
        BY DEF IndexInv, TypeOK
      <3>3. got = <<>>
        BY <3>1, <3>2
      <3> QED
        BY <2>1, <3>3
    <2>2. CASE ~(want.first >= Len(Spans)) /\ want.first + want.count <= Len(Spans)
      <3>1. Len(got) = want.count
        BY <1>1, <1>2, <1>3, <2>2 DEF Ordinal
      <3> QED
        BY <1>2, <2>2, <3>1
    <2>3. CASE ~(want.first >= Len(Spans)) /\ ~(want.first + want.count <= Len(Spans))
      <3>1. Len(got) = Len(Spans) - want.first
        BY <1>1, <1>2, <1>3, <2>3 DEF Ordinal
      <3> QED
        BY <1>2, <2>3, <3>1
    <2> QED
      BY <2>1, <2>2, <2>3
  <1>5. Spans' = Spans /\ (complete /\ ~failed)' = (complete /\ ~failed)
    BY <1>1 DEF Spans, Contents
  <1> QED
    BY <1>1, <1>4, <1>5 DEF List!Answer, List!Run, Spans

\* CsvRecordIndex is the list of spans it is used as (SpanList): init() empties
\* it, appendSpan() adds at its end, readSpans() returns the part asked for or,
\* from the moment anything failed, nothing.
THEOREM IndexImplementsList == Spec => Implements
  <1>1. Init => List!Init
    <2> SUFFICES ASSUME Init
                 PROVE  List!Init
      OBVIOUS
    <2>1. <<>> \o <<>> = <<>>
      OBVIOUS
    <2> QED
      BY <2>1 DEF Init, List!Init, Contents
  <1>2. IndexInv /\ IndexInv' /\ [Next]_indexVars => [List!Next]_List!listVars
    <2> SUFFICES ASSUME IndexInv, IndexInv', [Next]_indexVars
                 PROVE  [List!Next]_List!listVars
      OBVIOUS
    <2>1. CASE InitIndex
      <3>1. Contents' = <<>>
        <4>1. <<>> \o <<>> = <<>>
          OBVIOUS
        <4> QED
          BY <4>1, <2>1 DEF InitIndex, Contents
      <3>2. List!Reset
        BY <2>1, <3>1 DEF InitIndex, readVars, List!Reset
      <3> QED
        BY <3>2 DEF List!Next
    <2>2. ASSUME NEW s \in Span, AppendSpan(s)
          PROVE  List!Next
      <3>1. /\ ~failed /\ ~complete /\ want = NoRead
            /\ want' = want /\ answer' = answer /\ complete' = complete
        BY <2>2 DEF AppendSpan, readVars
      <3>2. CASE failed'
        <4>1. failed' = TRUE
          BY <3>2 DEF IndexInv, TypeOK
        <4> QED
          BY <3>1, <4>1 DEF List!Break, List!Next
      <3>3. CASE ~failed'
        <4>1. failed' = FALSE /\ Contents' = Append(Contents, s)
          BY <2>2, <3>3, AppendSpanContents
        <4>2. failed = FALSE
          BY <3>1 DEF IndexInv, TypeOK
        <4>3. List!Add
          BY <3>1, <4>1, <4>2 DEF List!Add
        <4> QED
          BY <4>3 DEF List!Next
      <3> QED
        BY <3>2, <3>3
    <2>3. CASE MarkComplete
      <3>1. ~failed /\ want = NoRead /\ want' = want /\ answer' = answer
        BY <2>3 DEF MarkComplete, readVars
      <3>2. CASE failed'
        <4>1. failed' = TRUE
          BY <3>2 DEF IndexInv, TypeOK
        <4> QED
          BY <3>1, <4>1 DEF List!Break, List!Next
      <3>3. CASE ~failed'
        <4>1. FlushBuffer(recordCount, writeBuffer) /\ complete' = TRUE /\ failed' = failed
          BY <2>3, <3>3 DEF MarkComplete, FlushFails
        <4>2. /\ disk \in Seq(Span) /\ writeBuffer \in Seq(Span)
              /\ recordCount = Len(disk) + Len(writeBuffer)
          BY <3>1 DEF IndexInv, PlacesAgree, FileHoldsTheRest, TypeOK
        <4>3. disk' = disk \o writeBuffer /\ disk' \in Seq(Span) /\ writeBuffer' = <<>>
          BY <4>1, <4>2, FlushKeepsContents
        <4>4. Contents' = Contents
          BY <4>3, ConcatEmpty DEF Contents
        <4>5. failed = FALSE
          BY <3>1 DEF IndexInv, TypeOK
        <4>6. List!Finish
          BY <3>1, <4>1, <4>4, <4>5 DEF List!Finish
        <4> QED
          BY <4>6 DEF List!Next
      <3> QED
        BY <3>2, <3>3
    <2>4. ASSUME NEW first \in 0..MaxRecords, NEW count \in 0..MaxRecords,
                 ReadSpans(first, count)
          PROVE  List!Next
      <3>1. want' \in [first : Nat, count : Nat]
        BY <2>4, IndexAssumption DEF ReadSpans
      <3>2. /\ want = NoRead /\ want' # NoRead
            /\ UNCHANGED <<complete, failed, writeBuffer, disk, answer>>
        BY <2>4, <3>1, IndexAssumption DEF ReadSpans
      <3>3. List!Ask
        BY <3>2 DEF List!Ask, Contents
      <3> QED
        BY <3>3 DEF List!Next
    <2>5. CASE ReadEnds
      BY <2>5, ReadEndsAnswers DEF List!Next
    <2>6. CASE ReadRam \/ ReadBlock
      BY <2>6 DEF ReadRam, ReadBlock, fileVars, List!listVars, Contents
    <2>7. CASE ReadDisk
      <3>1. /\ Readable /\ FlushBeforeRead
            /\ UNCHANGED <<handle, recordCount, complete, failed, ramCache, want, answer>>
        BY <2>7 DEF ReadDisk
      <3>2. Contents' = Contents
        BY <3>1, FlushBeforeReadFacts
      <3> QED
        BY <3>1, <3>2 DEF List!listVars
    <2>8. CASE ReadDiskFails
      <3>1. /\ want # NoRead /\ ~failed /\ want' = NoRead /\ answer' = got
            /\ complete' = complete
        BY <2>8 DEF ReadDiskFails, Readable, Reading, Return
      <3>2. failed' = TRUE
        BY <2>8 DEF ReadDiskFails, FlushFails
      <3>3. /\ Len(got) \in 0..want.count
            /\ Len(got) > 0 => want.first + Len(got) <= Len(Spans)
            /\ got = SubSeq(Spans, want.first + 1, want.first + Len(got))
        BY <3>1, GotIsRunOfSpans
      <3>4. List!Break
        BY <3>1, <3>2, <3>3 DEF List!Break, List!Run, Spans
      <3> QED
        BY <3>4 DEF List!Next
    <2>9. CASE UNCHANGED indexVars
      BY <2>9 DEF indexVars, List!listVars, Contents
    <2> QED
      BY <2>1, <2>2, <2>3, <2>4, <2>5, <2>6, <2>7, <2>8, <2>9 DEF Next, UseIndex, ReadStep
  <1> QED
    BY <1>1, <1>2, IndexCorrect, PTL DEF Spec, Implements, List!Spec

=============================================================================
