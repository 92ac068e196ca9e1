------------------------------ MODULE SpanList ------------------------------
(***************************************************************************)
(* What the record index of a file promises to CsvFileSource: a list of    *)
(* byte spans that only grows, of which any range can be read back, until  *)
(* the end of the file is marked.  Where the spans are kept does not show. *)
(* An index that has failed answers nothing any more and is never taken    *)
(* for a complete one.                                                     *)
(***************************************************************************)
EXTENDS Integers, Sequences

CONSTANTS
    Span,           \* byte spans of records
    NoRead          \* no read is in progress

VARIABLES
    list,           \* the spans, none once the index has failed
    complete,       \* the end of the file was reached
    failed,         \* the index is of no use any more
    want,           \* the range being read
    answer          \* what the last read returned

listVars == <<list, complete, failed, want, answer>>

Init ==
    /\ list = <<>>
    /\ complete = FALSE
    /\ failed = FALSE
    /\ want = NoRead
    /\ answer = <<>>

\* The first n spans of the list, from the one with the 0-based number first.
Run(first, n) == SubSeq(list, first + 1, first + n)

\* A new file is opened.
Reset ==
    /\ want = NoRead
    /\ list' = <<>>
    /\ complete' = FALSE
    /\ failed' = FALSE
    /\ UNCHANGED <<want, answer>>

Add ==
    /\ ~failed /\ ~complete
    /\ want = NoRead
    /\ \E s \in Span : list' = Append(list, s)
    /\ UNCHANGED <<complete, failed, want, answer>>

Finish ==
    /\ ~failed
    /\ want = NoRead
    /\ complete' = TRUE
    /\ UNCHANGED <<list, failed, want, answer>>

Ask ==
    /\ want = NoRead
    /\ want' # NoRead
    /\ UNCHANGED <<list, complete, failed, answer>>

\* All of the range there is.
Answer ==
    /\ want # NoRead
    /\ want' = NoRead
    /\ answer' = IF want.first >= Len(list) THEN <<>>
                 ELSE IF want.first + want.count <= Len(list)
                 THEN Run(want.first, want.count)
                 ELSE Run(want.first, Len(list) - want.first)
    /\ UNCHANGED <<list, complete, failed>>

\* The index fails; a read that is under way returns what it has so far.
Break ==
    /\ ~failed
    /\ failed' = TRUE
    /\ list' = <<>>
    /\ complete' = FALSE
    /\ \/ want = NoRead /\ UNCHANGED <<want, answer>>
       \/ /\ want # NoRead
          /\ want' = NoRead
          /\ \E n \in 0..want.count :
               /\ n > 0 => want.first + n <= Len(list)
               /\ answer' = Run(want.first, n)

Next == Reset \/ Add \/ Finish \/ Ask \/ Answer \/ Break

Spec == Init /\ [][Next]_listVars

=============================================================================
