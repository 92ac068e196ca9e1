-------------------------- MODULE CsvRecordScanner --------------------------
(***************************************************************************)
(* The scanner of text files (src/parsers/csv_record_scanner.cpp) with the *)
(* callbacks its users give it.  It is fed a file in slices cut anywhere:  *)
(* in the byte order mark, between CR and LF, between two quotes.  Below   *)
(* it is compared with what a file holds, said of the file as a whole.     *)
(*                                                                         *)
(* Feeding never fails here: only the cancel check makes it fail, and then *)
(* the scanner is not used again (SliceOutcomes in SourceWorker).          *)
(***************************************************************************)
EXTENDS Integers, Sequences, SequencesExt, FiniteSets

CONSTANTS
    Byte, Quote, Delimiter, CR, LF,
    Bom,        \* the byte order mark, three bytes
    Texts,      \* bound: the files
    MaxColumns  \* kMaxColumns, 256 in the code

ASSUME ScannerAssumption ==
    /\ {Quote, Delimiter, CR, LF} \subseteq Byte
    /\ Cardinality({Quote, Delimiter, CR, LF}) = 4
    /\ Bom \in Seq(Byte \ {Quote, Delimiter, CR, LF}) /\ Len(Bom) = 3
    /\ \A t \in Texts : t \in Seq(Byte)
    /\ MaxColumns \in Nat \ {0}

VARIABLES
    text,       \* the file
    scanner,    \* the scanner and what its callbacks have collected
    fed,        \* m_impl->scanOffset: how much of the file was fed
    done        \* the last slice was fed

vars == <<text, scanner, fed, done>>

-----------------------------------------------------------------------------
Record == [start : Nat, end : Nat, fields : Seq(Seq(Byte))]

\* span stands for spanStart: the bytes seen and not yet emitted.  skip is set
\* where the code moves p past the next byte as well.  cell, fields and records
\* belong to the callbacks; m_recordOrdinal is the length of records.
Scanner == [inQuotes : BOOLEAN, pendingQuote : BOOLEAN, pendingCr : BOOLEAN,
            bomChecked : BOOLEAN, bomBuffer : Seq(Byte), start : Nat,
            hasRecordStart : BOOLEAN, sawData : BOOLEAN, col : Nat,
            span : Seq(Byte), skip : BOOLEAN,
            cell : Seq(Byte), fields : Seq(Seq(Byte)), records : Seq(Record)]

Reset == [inQuotes |-> FALSE, pendingQuote |-> FALSE, pendingCr |-> FALSE,
          bomChecked |-> FALSE, bomBuffer |-> <<>>, start |-> 0,
          hasRecordStart |-> FALSE, sawData |-> FALSE, col |-> 0,
          span |-> <<>>, skip |-> FALSE,
          cell |-> <<>>, fields |-> <<>>, records |-> <<>>]

EmitFragment(s, fragment, isEnd) ==
    IF s.col >= MaxColumns THEN s
    ELSE IF isEnd THEN [s EXCEPT !.fields = Append(@, s.cell \o fragment), !.cell = <<>>]
    ELSE [s EXCEPT !.cell = @ \o fragment]

EmitSpan(s, isEnd) == [EmitFragment(s, s.span, isEnd) EXCEPT !.span = <<>>]

EndRecord(s, end) ==
    [s EXCEPT !.records = Append(@, [start |-> s.start, end |-> end, fields |-> s.fields]),
              !.fields = <<>>, !.cell = <<>>, !.col = 0, !.sawData = FALSE,
              !.hasRecordStart = FALSE]

StartRecord(s, offset) == [s EXCEPT !.start = offset, !.hasRecordStart = TRUE]

Follows(bytes, i, c) == i < Len(bytes) /\ bytes[i + 1] = c

\* The byte after the one at i is in the next slice.
CutAfter(bytes, i, isEof) == i = Len(bytes) /\ ~isEof

InsideQuotes(s, bytes, i, isEof) ==
    IF bytes[i] # Quote THEN [s EXCEPT !.span = Append(@, bytes[i])]
    ELSE LET e == EmitSpan(s, FALSE)
         IN  IF Follows(bytes, i, Quote)
             THEN [EmitFragment(e, <<Quote>>, FALSE) EXCEPT !.skip = TRUE]
             ELSE IF CutAfter(bytes, i, isEof) THEN [e EXCEPT !.pendingQuote = TRUE]
             ELSE [e EXCEPT !.inQuotes = FALSE]

EndOfLine(s, bytes, i, base, isEof) ==
    LET ended == EndRecord(EmitSpan(s, TRUE), base + i - 1)
    IN  IF bytes[i] = CR /\ Follows(bytes, i, LF)
        THEN [StartRecord(ended, base + i + 1) EXCEPT !.skip = TRUE]
        ELSE IF bytes[i] = CR /\ CutAfter(bytes, i, isEof)
        THEN [ended EXCEPT !.pendingCr = TRUE]
        ELSE StartRecord(ended, base + i)

OutsideQuotes(s, bytes, i, base, isEof) ==
    LET c == bytes[i]
        t == IF s.hasRecordStart THEN s ELSE StartRecord(s, base + i - 1)
    IN  CASE c = Quote -> [EmitSpan(t, FALSE) EXCEPT !.sawData = TRUE, !.inQuotes = TRUE]
          [] c = Delimiter -> [EmitSpan(t, TRUE) EXCEPT !.sawData = TRUE, !.col = @ + 1]
          [] c \in {CR, LF} -> EndOfLine(t, bytes, i, base, isEof)
          [] OTHER -> [t EXCEPT !.sawData = TRUE, !.span = Append(@, c)]

\* Mutant: the LF of a CRLF cut in two is not consumed.
ResolveCrAlone(s, bytes, base, isEof) ==
    IF ~s.pendingCr THEN s
    ELSE IF bytes # <<>> THEN [StartRecord(s, base) EXCEPT !.pendingCr = FALSE]
    ELSE [s EXCEPT !.pendingCr = ~isEof]

\* Mutant: only an LF settles a CR.
ResolveCrUntilLf(s, bytes, base, isEof) ==
    IF ~s.pendingCr THEN s
    ELSE IF bytes = <<>> THEN [s EXCEPT !.pendingCr = ~isEof]
    ELSE LET lf == bytes[1] = LF
         IN  [StartRecord(s, IF lf THEN base + 1 ELSE base)
                EXCEPT !.pendingCr = ~lf, !.skip = lf]

\* A CR ended the slice before.
ResolveCr(s, bytes, base, isEof) ==
    IF ~s.pendingCr THEN s
    ELSE IF bytes = <<>> THEN [s EXCEPT !.pendingCr = ~isEof]
    ELSE LET lf == bytes[1] = LF
         IN  [StartRecord(s, IF lf THEN base + 1 ELSE base)
                EXCEPT !.pendingCr = FALSE, !.skip = lf]

\* Mutant: an empty slice drops the quote that waits.
ResolveQuoteEagerly(s, bytes, isEof) ==
    IF ~s.pendingQuote THEN s
    ELSE IF bytes # <<>> /\ bytes[1] = Quote
    THEN [EmitFragment(s, <<Quote>>, FALSE) EXCEPT !.pendingQuote = FALSE, !.skip = TRUE]
    ELSE [s EXCEPT !.pendingQuote = FALSE, !.inQuotes = FALSE]

\* A quote within quotes ended it.
ResolveQuote(s, bytes, isEof) ==
    IF ~s.pendingQuote THEN s
    ELSE IF bytes = <<>> THEN [s EXCEPT !.pendingQuote = ~isEof, !.inQuotes = ~isEof]
    ELSE IF bytes[1] = Quote
    THEN [EmitFragment(s, <<Quote>>, FALSE) EXCEPT !.pendingQuote = FALSE, !.skip = TRUE]
    ELSE [s EXCEPT !.pendingQuote = FALSE, !.inQuotes = FALSE]

AtEof(s, end) ==
    IF s.sawData \/ s.inQuotes THEN EndRecord(EmitFragment(s, <<>>, TRUE), end) ELSE s

\* The byte at i, unless it was read together with the one before.
ReadByte(s, bytes, i, base, isEof) ==
    IF s.skip THEN [s EXCEPT !.skip = FALSE]
    ELSE IF s.inQuotes THEN InsideQuotes(s, bytes, i, isEof)
    ELSE OutsideQuotes(s, bytes, i, base, isEof)

\* The loop over the bytes of a slice.
ReadBytes(s, bytes, base, isEof) ==
    LET read[i \in 0..Len(bytes)] ==
          IF i = 0 THEN s ELSE ReadByte(read[i - 1], bytes, i, base, isEof)
    IN  read[Len(bytes)]

\* feed() once the byte order mark is dealt with.
FeedRest(s, bytes, base, isEof) ==
    LET begun == IF ~s.hasRecordStart /\ s.records = <<>> THEN StartRecord(s, base) ELSE s
        ready == ResolveQuote(ResolveCr(begun, bytes, base, isEof), bytes, isEof)
        read == EmitSpan(ReadBytes(ready, bytes, base, isEof), FALSE)
    IN  IF isEof THEN AtEof(read, base + Len(bytes)) ELSE read

Checked(s, offset) == [StartRecord(s, offset) EXCEPT !.bomChecked = TRUE, !.bomBuffer = <<>>]

After(bytes, n) == SubSeq(bytes, n + 1, Len(bytes))

\* Mutant: the mark is looked for wherever a scanner begins.
FeedAnywhere(s, chunk, base, isEof) ==
    IF s.bomChecked THEN FeedRest(s, chunk, base, isEof)
    ELSE IF IsPrefix(Bom, chunk)
    THEN FeedRest(Checked(s, base + 3), After(chunk, 3), base + 3, isEof)
    ELSE FeedRest(Checked(s, base), chunk, base, isEof)

\* The first three bytes are held back until it is known whether they are a
\* byte order mark, which only the beginning of a file can have.
Feed(s, chunk, base, isEof) ==
    IF s.bomChecked THEN FeedRest(s, chunk, base, isEof)
    ELSE IF s.bomBuffer = <<>> /\ base > 0
    THEN FeedRest(Checked(s, base), chunk, base, isEof)
    ELSE LET held == s.bomBuffer \o chunk
             taken == IF Len(held) < 3 THEN Len(chunk) ELSE 3 - Len(s.bomBuffer)
             buffer == s.bomBuffer \o SubSeq(chunk, 1, taken)
         IN  IF Len(held) < 3 /\ ~isEof THEN [s EXCEPT !.bomBuffer = held]
             ELSE IF IsPrefix(Bom, held)
             THEN FeedRest(Checked(s, 3), After(chunk, taken), base + taken, isEof)
             ELSE IF s.bomBuffer = <<>> /\ Len(chunk) >= 3
             THEN FeedRest(Checked(s, 0), chunk, base, isEof)
             ELSE FeedRest(IF buffer = <<>> THEN Checked(s, 0)
                           ELSE FeedRest(Checked(s, 0), buffer, 0, FALSE),
                           After(chunk, taken), base + taken, isEof)

-----------------------------------------------------------------------------
Init ==
    /\ text \in Texts
    /\ scanner = Reset
    /\ fed = 0
    /\ done = FALSE

\* open() and advanceIndex() feed the next slice; slices may be empty, and the
\* end may be known only after the last byte, as in the scanner's tests.
Slice ==
    /\ ~done
    /\ \E n \in 0..(Len(text) - fed), isEof \in BOOLEAN :
         /\ isEof => fed + n = Len(text)
         /\ scanner' = Feed(scanner, SubSeq(text, fed + 1, fed + n), fed, isEof)
         /\ fed' = fed + n
         /\ done' = isEof
    /\ UNCHANGED text

Next == Slice

Spec == Init /\ [][Next]_vars

-----------------------------------------------------------------------------
(* What a file holds.                                                      *)

Nth(S, k) == CHOOSE i \in S : Cardinality({j \in S : j <= i}) = k

BomLength(t) == IF IsPrefix(Bom, t) THEN 3 ELSE 0

\* The bytes before the one at i open more quotes than they close.
Quoted(t, i) == Cardinality({j \in 1..(i - 1) : t[j] = Quote}) % 2 = 1

\* A quote that follows a closing one stands for itself.
Literal(t, i) == i > 1 /\ t[i - 1] = Quote /\ Quoted(t, i - 1)

\* Lines end with CR, LF or CRLF outside quotes.
LineEnds(t) ==
    {i \in 1..Len(t) : /\ ~Quoted(t, i)
                       /\ t[i] \in {CR, LF}
                       /\ t[i] = LF /\ i > 1 => t[i - 1] # CR}

FieldEnds(t, start, end) ==
    {i \in (start + 1)..end : t[i] = Delimiter /\ ~Quoted(t, i)} \union {end + 1}

FieldText(t, from, to) ==
    LET kept == {i \in from..to : t[i] # Quote \/ Literal(t, i)}
    IN  [k \in 1..Cardinality(kept) |-> t[Nth(kept, k)]]

Fields(t, start, end) ==
    LET ends == FieldEnds(t, start, end)
        n == Cardinality(ends)
    IN  [f \in 1..(IF n < MaxColumns THEN n ELSE MaxColumns) |->
            FieldText(t, IF f = 1 THEN start + 1 ELSE Nth(ends, f - 1) + 1, Nth(ends, f) - 1)]

\* Where the line after the one that ends at i begins.
AfterEnd(t, i) == IF t[i] = CR /\ Follows(t, i, LF) THEN i + 1 ELSE i

\* The records: one for each line, and one for what follows the last line.
Records(t) ==
    LET ends == LineEnds(t)
        n == Cardinality(ends)
        start(k) == IF k = 1 THEN BomLength(t) ELSE AfterEnd(t, Nth(ends, k - 1))
        end(k) == IF k <= n THEN Nth(ends, k) - 1 ELSE Len(t)
        count == IF start(n + 1) < Len(t) THEN n + 1 ELSE n
    IN  [k \in 1..count |-> [start |-> start(k), end |-> end(k)]]

\* Those of them that are known to be complete when fed bytes were read.
Complete(records) ==
    IF done THEN records
    ELSE IF ~scanner.bomChecked THEN <<>>
    ELSE SubSeq(records, 1, Cardinality({k \in DOMAIN records : records[k].end < fed}))

-----------------------------------------------------------------------------
TypeOK ==
    /\ text \in Texts
    /\ scanner \in Scanner
    /\ fed \in 0..Len(text)
    /\ done \in BOOLEAN

\* Between two slices at most one byte is undecided, where it makes sense: a
\* quote within quotes, or a CR that has ended a record the next of which has no
\* start yet; and nothing is once the file has ended.
ScannerInv ==
    /\ TypeOK
    /\ scanner.span = <<>> /\ ~scanner.skip
    /\ scanner.pendingQuote => scanner.inQuotes
    /\ scanner.pendingCr => ~scanner.inQuotes /\ ~scanner.sawData /\ ~scanner.hasRecordStart
    /\ scanner.bomChecked \/ Len(scanner.bomBuffer) = fed
    /\ done => /\ scanner.bomChecked
               /\ ~scanner.pendingCr /\ ~scanner.pendingQuote

\* However the file is cut, the records reported so far are the complete ones of
\* the part that was fed, each with its place in the file, and none is missing at
\* the end.  The index takes these places, and pages are read from them.
RecordsAreFound ==
    [k \in DOMAIN scanner.records |->
        [start |-> scanner.records[k].start, end |-> scanner.records[k].end]]
      = Complete(Records(text))

\* Their fields are those of the file: no byte is lost or doubled at a cut,
\* quotes are resolved, and columns past the limit are dropped.
FieldsAreDecoded ==
    \A k \in DOMAIN scanner.records :
        LET r == scanner.records[k]
        IN  r.fields = Fields(text, r.start, r.end)

\* A row decoded by itself, by a scanner that sees only the place the index has
\* for it, has the fields it had in the file (readPage and refetch pad what is
\* missing of an empty line).
RowsDecodeAlone ==
    \A k \in DOMAIN scanner.records \ {1} :
        LET r == scanner.records[k]
            alone == Feed(Reset, SubSeq(text, r.start + 1, r.end), r.start, TRUE).records
        IN  IF r.start = r.end THEN alone = <<>> /\ r.fields = <<<<>>>>
            ELSE alone = <<r>>

=============================================================================
