------------------------- MODULE MCCsvRecordScanner -------------------------
\* Every text of up to MaxTail bytes, and some longer ones, after nothing, a byte
\* order mark, a part of one, or a line with the bytes of one behind it.
EXTENDS CsvRecordScanner

CONSTANTS
    b1, b2, b3, other,
    MaxTail     \* bound: bytes after the head of a text, whatever they are

MCBom == <<b1, b2, b3>>
MCByte == {Quote, Delimiter, CR, LF, other, b1, b2, b3}
MCHeads == {<<>>, <<b1, b2>>, MCBom, <<other, LF>> \o MCBom}
MCTails == UNION {[1..n -> {Quote, Delimiter, CR, LF, other}] : n \in 0..MaxTail}
           \union [1..(MaxTail + 1) -> {Quote, CR, LF}]
           \union [1..(MaxTail + 2) -> {Quote, other}]
MCTexts == {head \o tail : head \in MCHeads, tail \in MCTails}

=============================================================================
