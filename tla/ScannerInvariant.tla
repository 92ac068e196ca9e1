-------------------------- MODULE ScannerInvariant --------------------------
(***************************************************************************)
(* Why the scanner of CsvRecordScanner is right wherever a file is cut:    *)
(* what it has collected is what the part of the file before a position    *)
(* holds, and its flags say what is still open there.                      *)
(***************************************************************************)
EXTENDS CsvRecordScanner

\* The line ends after o and up to q.
EndsTo(t, o, q) == {i \in LineEnds(t) : o < i /\ i <= q}

\* Where the record after those of rs begins, the first of them beginning at o.
NextStart(t, o, rs) == IF rs = <<>> THEN o ELSE AfterEnd(t, rs[Len(rs)].end + 1)

\* Each record of rs ends at a line end, the kth at the kth one after o, begins
\* behind the one before, holds no line end, and its fields are the file's.
Found(t, o, rs) ==
    \A k \in DOMAIN rs :
        /\ rs[k].end + 1 \in LineEnds(t)
        /\ o <= rs[k].end
        /\ Cardinality(EndsTo(t, o, rs[k].end + 1)) = k
        /\ rs[k].start = IF k = 1 THEN o ELSE AfterEnd(t, rs[k - 1].end + 1)
        /\ rs[k].start <= rs[k].end
        /\ EndsTo(t, rs[k].start, rs[k].end) = {}
        /\ rs[k].fields = Fields(t, rs[k].start, rs[k].end)

\* Within quotes or not; a quote that ended a slice is settled by the next byte.
Quoting(t, s, q) ==
    /\ s.inQuotes = (Quoted(t, q + 1) \/ s.pendingQuote)
    /\ s.pendingQuote => Literal(t, q + 1)
    /\ ~s.pendingQuote /\ q < Len(t) /\ t[q + 1] = Quote => ~Literal(t, q + 1)

\* The LF behind the byte at q belongs to a CRLF.
SplitsCrLf(t, q) == q > 0 /\ q < Len(t) /\ t[q] = CR /\ t[q + 1] = LF /\ ~Quoted(t, q + 1)

\* The fields of the record that is open at q.
FieldsSoFar(t, s, q) ==
    /\ Cardinality(FieldEnds(t, s.start, q)) = s.col + 1
    /\ IF s.col < MaxColumns THEN Append(s.fields, s.cell \o s.span) = Fields(t, s.start, q)
       ELSE s.cell = <<>> /\ s.fields = Fields(t, s.start, q)

\* A record is open at q.
Open(t, o, s, q) ==
    /\ ~s.pendingCr
    /\ s.start = NextStart(t, o, s.records)
    /\ o <= s.start /\ s.start <= q
    /\ EndsTo(t, s.start, q) = {}
    /\ s.sawData = (s.start < q)
    /\ s.inQuotes => s.sawData
    /\ ~SplitsCrLf(t, q)
    /\ FieldsSoFar(t, s, q)

\* A CR ended a record at q, and the next byte may be its LF.
Between(t, o, s, q) ==
    /\ s.pendingCr \/ q = Len(t)
    /\ s.records # <<>>
    /\ s.records[Len(s.records)].end + 1 = q
    /\ t[q] = CR
    /\ ~s.inQuotes /\ ~s.sawData
    /\ s.col = 0 /\ s.fields = <<>> /\ s.cell = <<>> /\ s.span = <<>>

\* The scanner has read t from o to q.
Scan(t, o, s, q) ==
    /\ s \in Scanner
    /\ s.bomChecked
    /\ o <= q /\ q <= Len(t)
    /\ Quoting(t, s, q)
    /\ Found(t, o, s.records)
    /\ Cardinality(EndsTo(t, o, q)) = Len(s.records)
    /\ IF s.hasRecordStart THEN Open(t, o, s, q) ELSE Between(t, o, s, q)

\* The record behind the last line.
LastRecord(t, start) == [start |-> start, end |-> Len(t), fields |-> Fields(t, start, Len(t))]

\* The scanner has read all of t from o.
Finished(t, o, s) ==
    /\ s \in Scanner
    /\ s.bomChecked /\ ~s.pendingCr /\ ~s.pendingQuote
    /\ \E rs \in Seq(Record) :
         /\ Found(t, o, rs)
         /\ Cardinality(EndsTo(t, o, Len(t))) = Len(rs)
         /\ EndsTo(t, NextStart(t, o, rs), Len(t)) = {}
         /\ s.records = IF NextStart(t, o, rs) < Len(t)
                        THEN Append(rs, LastRecord(t, NextStart(t, o, rs)))
                        ELSE rs

\* Nothing is left of a slice.
Settled(s) == s.span = <<>> /\ ~s.skip

\* The state between two slices.
ScannerIInv ==
    /\ TypeOK
    /\ Settled(scanner)
    /\ IF ~scanner.bomChecked
       THEN ~done /\ fed < 3 /\ scanner = [Reset EXCEPT !.bomBuffer = SubSeq(text, 1, fed)]
       ELSE IF done THEN fed = Len(text) /\ Finished(text, BomLength(text), scanner)
       ELSE Scan(text, BomLength(text), scanner, fed)

=============================================================================
