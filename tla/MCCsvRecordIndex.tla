-------------------------- MODULE MCCsvRecordIndex --------------------------
\* Files of up to five records, of which the first is cached, the others are
\* written in threes and read back in twos.
EXTENDS CsvRecordIndex

=============================================================================
