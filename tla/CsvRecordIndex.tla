--------------------------- MODULE CsvRecordIndex ---------------------------
(***************************************************************************)
(* The record index of a file (src/parsers/csv_record_index.cpp): a span   *)
(* per record, kept in a temporary file.  New spans collect in a write     *)
(* buffer; the first ones stay in memory; of the others the block read     *)
(* last does.  So a span can be in up to three places at once, and what is *)
(* read has to be the same wherever it is found.  Any access to the file   *)
(* may fail, after which nothing is served any more.                       *)
(*                                                                         *)
(* One thread uses the index: nothing happens between the steps of a read. *)
(* A read takes several steps only because it may fail at any of them.     *)
(***************************************************************************)
EXTENDS Integers, Sequences

CONSTANTS
    Span,               \* byte spans of records
    Hole,               \* what a file holds where nothing was written
    NoRead,             \* no read is in progress
    MaxCachedSpans,     \* kMaxCachedSpans
    WriteBufferSize,    \* kWriteBufferSize
    BlockReadSize,      \* kBlockReadSize
    MaxRecords          \* bound: records in a file

ASSUME IndexAssumption ==
    /\ Hole \notin Span
    /\ NoRead \notin [first : Nat, count : Nat]
    /\ MaxCachedSpans \in Nat
    /\ WriteBufferSize \in Nat \ {0}
    /\ BlockReadSize \in Nat \ {0}
    /\ MaxRecords \in Nat

VARIABLES
    handle,         \* the temporary file exists and is open
    recordCount,    \* m_header.dataRecordCount
    complete,       \* m_header.isComplete
    failed,
    ramCache,
    writeBuffer,
    blockCache,
    blockStart,     \* blockStartOrdinal
    disk,           \* the spans in the temporary file
    mayFail,        \* not in the code: accesses to that file may fail
    want,           \* arguments of the readSpans() in progress
    got,            \* what it has read so far
    answer          \* what the last readSpans() returned

fileVars == <<handle, disk>>
cacheVars == <<ramCache, blockCache, blockStart>>
readVars == <<want, got, answer>>
indexVars == <<handle, recordCount, complete, failed, ramCache, writeBuffer,
               blockCache, blockStart, disk, mayFail, want, got, answer>>

Init ==
    /\ handle = FALSE
    /\ recordCount = 0
    /\ complete = FALSE
    /\ failed = FALSE
    /\ ramCache = <<>>
    /\ writeBuffer = <<>>
    /\ blockCache = <<>>
    /\ blockStart = -1
    /\ disk = <<>>
    /\ mayFail = TRUE
    /\ want = NoRead
    /\ got = <<>>
    /\ answer = <<>>

-----------------------------------------------------------------------------
Least(a, b) == IF a < b THEN a ELSE b

\* Mutant: the buffered spans are counted twice.
WriteOffsetPastBuffer(count, buffer) == count

\* Where flushBuffer() writes: recordCount counts the buffered spans as well.
WriteOffset(count, buffer) == count - Len(buffer)

\* The file after spans were written at an offset; it grows as needed.
Written(offset, spans) ==
    LET end == offset + Len(spans)
    IN  [i \in 1..(IF end < Len(disk) THEN Len(disk) ELSE end) |->
            IF offset < i /\ i <= end THEN spans[i - offset]
            ELSE IF i <= Len(disk) THEN disk[i] ELSE Hole]

IoFails == mayFail \/ ~handle

\* flushBuffer(), with the buffer and the count it finds.  A failed write
\* leaves any part of the buffer behind.
FlushBuffer(count, buffer) ==
    /\ buffer # <<>> => handle
    /\ disk' = IF buffer = <<>> THEN disk ELSE Written(WriteOffset(count, buffer), buffer)
    /\ writeBuffer' = <<>>

FlushFails(count, buffer) ==
    /\ buffer # <<>>
    /\ IoFails
    /\ \E n \in 0..(IF handle THEN Len(buffer) ELSE 0) :
         disk' = Written(WriteOffset(count, buffer), SubSeq(buffer, 1, n))
    /\ writeBuffer' = buffer
    /\ failed' = TRUE

-----------------------------------------------------------------------------
\* init(), once for every file that is opened, over a file system that works
\* or one that does not: then the temporary file may not be created; a header
\* that cannot be written leaves it open all the same.
InitIndex ==
    /\ want = NoRead
    /\ mayFail' \in BOOLEAN
    /\ handle' \in (IF mayFail' THEN BOOLEAN ELSE {TRUE})
    /\ recordCount' = 0
    /\ complete' = FALSE
    /\ failed' = FALSE
    /\ ramCache' = <<>>
    /\ writeBuffer' = <<>>
    /\ blockCache' = <<>>
    /\ blockStart' = -1
    /\ disk' = <<>>
    /\ UNCHANGED readVars

\* appendSpan().  The scan that calls it ends with markComplete().
AppendSpan(s) ==
    /\ want = NoRead
    /\ ~complete
    /\ recordCount < MaxRecords
    /\ ~failed
    /\ ramCache' = IF Len(ramCache) < MaxCachedSpans THEN Append(ramCache, s) ELSE ramCache
    /\ recordCount' = recordCount + 1
    /\ LET buffer == Append(writeBuffer, s)
       IN  \/ /\ Len(buffer) < WriteBufferSize
              /\ writeBuffer' = buffer
              /\ UNCHANGED <<disk, failed>>
           \/ /\ Len(buffer) >= WriteBufferSize
              /\ FlushBuffer(recordCount + 1, buffer)
              /\ UNCHANGED failed
           \/ /\ Len(buffer) >= WriteBufferSize
              /\ FlushFails(recordCount + 1, buffer)
    /\ UNCHANGED <<handle, complete, blockCache, blockStart, readVars>>

\* markComplete(): the flag is taken back when the buffer or the header cannot
\* be written.
MarkComplete ==
    /\ want = NoRead
    /\ ~failed
    /\ \/ /\ handle
          /\ FlushBuffer(recordCount, writeBuffer)
          /\ complete' = TRUE
          /\ UNCHANGED failed
       \/ /\ FlushFails(recordCount, writeBuffer)
          /\ complete' = FALSE
       \/ /\ IoFails
          /\ FlushBuffer(recordCount, writeBuffer)
          /\ failed' = TRUE
          /\ complete' = FALSE
    /\ UNCHANGED <<handle, recordCount, cacheVars, readVars>>

-----------------------------------------------------------------------------
\* readSpans() begins.
ReadSpans(first, count) ==
    /\ want = NoRead
    /\ want' = [first |-> first, count |-> count]
    /\ got' = <<>>
    /\ UNCHANGED <<handle, recordCount, complete, failed, writeBuffer, cacheVars, disk, answer>>

\* The ordinal readSpan() is called with next.
Ordinal == want.first + Len(got)

Reading == want # NoRead /\ Len(got) < want.count

\* readSpans() returns.
Return ==
    /\ want' = NoRead
    /\ answer' = got
    /\ UNCHANGED got

ReadEnds ==
    /\ want # NoRead
    /\ Len(got) >= want.count \/ failed \/ Ordinal >= recordCount
    /\ Return
    /\ UNCHANGED <<fileVars, recordCount, complete, failed, writeBuffer, cacheVars>>

Readable == Reading /\ ~failed /\ Ordinal < recordCount

InRam == Ordinal < Len(ramCache)

ReadRam ==
    /\ Readable /\ InRam
    /\ got' = Append(got, ramCache[Ordinal + 1])
    /\ UNCHANGED <<fileVars, recordCount, complete, failed, writeBuffer, cacheVars, want, answer>>

\* Mutant: the block is taken to start where the file does.
BlockOffsetFromStart(n) == n

BlockOffset(n) == n - blockStart

InBlock ==
    /\ blockStart >= 0
    /\ Ordinal >= blockStart
    /\ BlockOffset(Ordinal) < Len(blockCache)

ReadBlock ==
    /\ Readable /\ ~InRam /\ InBlock
    /\ got' = Append(got, blockCache[BlockOffset(Ordinal) + 1])
    /\ UNCHANGED <<fileVars, recordCount, complete, failed, writeBuffer, cacheVars, want, answer>>

\* Mutant: the spans still in the write buffer are not written first.
FlushBeforeReadForgotten == UNCHANGED <<disk, writeBuffer>>

FlushBeforeRead == FlushBuffer(recordCount, writeBuffer)

BlockLength == Least(BlockReadSize, recordCount - Ordinal)

\* A block that starts with the span wanted is read from the file, the buffer
\* being flushed before.
ReadDisk ==
    /\ Readable /\ ~InRam /\ ~InBlock
    /\ FlushBeforeRead
    /\ handle
    /\ Ordinal + BlockLength <= Len(disk')
    /\ blockStart' = Ordinal
    /\ blockCache' = SubSeq(disk', Ordinal + 1, Ordinal + BlockLength)
    /\ got' = Append(got, disk'[Ordinal + 1])
    /\ UNCHANGED <<handle, recordCount, complete, failed, ramCache, want, answer>>

\* The flush fails and the block is kept, or the read does and the block goes.
ReadDiskFails ==
    /\ Readable /\ ~InRam /\ ~InBlock
    /\ \/ FlushFails(recordCount, writeBuffer) /\ UNCHANGED <<blockCache, blockStart>>
       \/ /\ FlushBeforeRead
          /\ IoFails \/ Ordinal + BlockLength > Len(disk')
          /\ failed' = TRUE
          /\ blockCache' = <<>>
          /\ blockStart' = -1
    /\ Return
    /\ UNCHANGED <<handle, recordCount, complete, ramCache>>

ReadStep == ReadEnds \/ ReadRam \/ ReadBlock \/ ReadDisk \/ ReadDiskFails

UseIndex ==
    \/ \E s \in Span : AppendSpan(s)
    \/ MarkComplete
    \/ \E first, count \in 0..MaxRecords : ReadSpans(first, count)
    \/ ReadStep

Next ==
    \/ InitIndex
    \/ UseIndex /\ UNCHANGED mayFail

Spec == Init /\ [][Next]_indexVars

-----------------------------------------------------------------------------
\* Everything written, in order: what is in the file and, after it, what is
\* still in the buffer.
Contents == disk \o writeBuffer

\* The index is the list it promises to be (SpanList): wherever a span is
\* found, in memory, in the last block, in the buffer or in the file, it is
\* the one that was appended under that number.
List == INSTANCE SpanList WITH
            list <- IF failed THEN <<>> ELSE Contents,
            complete <- complete /\ ~failed

Implements == List!Spec

\* The types of the fields.
TypeOK ==
    /\ handle \in BOOLEAN
    /\ recordCount \in Nat
    /\ complete \in BOOLEAN
    /\ failed \in BOOLEAN
    /\ ramCache \in Seq(Span)
    /\ writeBuffer \in Seq(Span)
    /\ blockCache \in Seq(Span \union {Hole})
    /\ blockStart \in Nat \union {-1}
    /\ disk \in Seq(Span \union {Hole})
    /\ want \in [first : Nat, count : Nat] \union {NoRead}
    /\ got \in Seq(Span \union {Hole})
    /\ answer \in Seq(Span \union {Hole})

\* The caches and the file agree as long as the index is in use.
FileHoldsTheRest ==
    /\ Len(disk) + Len(writeBuffer) = recordCount
    /\ Len(writeBuffer) < WriteBufferSize
    /\ disk \in Seq(Span)
    /\ ~handle => disk = <<>>

RamHoldsTheFirst ==
    /\ Len(ramCache) = Least(recordCount, MaxCachedSpans)
    /\ \A i \in 1..Len(ramCache) : ramCache[i] = Contents[i]

BlockHoldsWhatIsOnDisk ==
    blockStart >= 0 =>
        /\ blockStart + Len(blockCache) <= Len(disk)
        /\ \A i \in 1..Len(blockCache) : blockCache[i] = disk[blockStart + i]

GotIsARun ==
    want # NoRead =>
        /\ Len(got) <= want.count
        /\ Len(got) > 0 => Ordinal <= recordCount
        /\ \A i \in 1..Len(got) : got[i] = Contents[want.first + i]

PlacesAgree ==
    ~failed => /\ FileHoldsTheRest
               /\ RamHoldsTheFirst
               /\ BlockHoldsWhatIsOnDisk
               /\ GotIsARun

NothingAfterFailure == failed /\ want # NoRead => got = <<>>

\* A complete index is entirely in the file (markComplete flushes it).
CompleteIsOnDisk == complete /\ ~failed => writeBuffer = <<>> /\ Len(disk) = recordCount

IndexInv == TypeOK /\ PlacesAgree /\ NothingAfterFailure /\ CompleteIsOnDisk

\* With a file system that works, the index never fails by itself: no read
\* asks the temporary file for a span that is not in it yet, and every page
\* that is indexed can be served.
NeverFailsByItself == ~mayFail /\ handle => ~failed

=============================================================================
