--------------------------- MODULE ConversionParts ---------------------------
(***************************************************************************)
(* How convert lays the rows of one replay out in Parquet parts, and how   *)
(* the later stages read them: _write_dataset and _validate_parquet_outputs*)
(* of conversion/service.py, _input_batches of datasets/service.py.        *)
(*                                                                         *)
(* A row is its message index: row i of the stream belongs to the symbol   *)
(* stream[i].  One kind of row on one trading day, so a partition is a     *)
(* symbol.  The contents of the rows, schemas and hashes are left out.     *)
(***************************************************************************)
EXTENDS Naturals, FiniteSets, SequencesExt

CONSTANTS
    PartSymbols,   \* symbol ids, 1 upwards
    Streams,       \* the replays: sequences of symbol ids
    ChunkRows,     \* _READ_CHUNK_RECORDS
    MaxOpen        \* _MAX_OPEN_FILES

ASSUME PartsAssumption ==
    /\ PartSymbols \subseteq Nat
    /\ Streams \subseteq Seq(PartSymbols)
    /\ ChunkRows \in Nat \ {0} /\ MaxOpen \in Nat \ {0}

VARIABLES
    stream,    \* symbol of each row
    rows,      \* rows read from it so far
    grouped,   \* symbols of the current chunk still to be written
    opened,    \* writers: open partitions, least recently used first
    parts,     \* rows in each part of each partition
    writing    \* "writing", "validated" or "failed"

partsVars == <<stream, rows, grouped, opened, parts, writing>>

(* Rows in a range of the stream that belong to a symbol, in order. *)
RowsOf(s, first, last) ==
    LET upTo[i \in 0 .. last] ==
            IF i < first THEN <<>>
            ELSE IF stream[i] = s THEN Append(upTo[i - 1], i) ELSE upTo[i - 1]
    IN  upTo[last]

ChunkStart == ((rows - 1) \div ChunkRows) * ChunkRows + 1

(* One call of the reader: the next chunk, grouped by symbol.               *)
ReadChunk ==
    /\ writing = "writing" /\ grouped = {} /\ rows < Len(stream)
    /\ rows' = Min({rows + ChunkRows, Len(stream)})
    /\ grouped' = {stream[i] : i \in rows + 1 .. Min({rows + ChunkRows, Len(stream)})}
    /\ UNCHANGED <<stream, opened, parts, writing>>

(* A partition that is not open gets a new part; at the limit the least     *)
(* recently used writer is closed first.                                    *)
Evicted == IF Len(opened) >= MaxOpen THEN Tail(opened) ELSE opened

WithPartNumberedAgain(s) ==
    IF parts[s] = <<>> THEN <<<<>>>> ELSE IF Contains(opened, s) THEN parts[s]
    ELSE [parts[s] EXCEPT ![Len(parts[s])] = <<>>]

WithPart(s) == IF Contains(opened, s) THEN parts[s] ELSE Append(parts[s], <<>>)

MostRecent(s) == Append(IF Contains(opened, s) THEN RemoveFirst(opened, s) ELSE Evicted, s)

(* Symbols of a chunk are written in the order of their ids.                *)
WriteBatch ==
    /\ writing = "writing"
    /\ \E s \in grouped :
          /\ \A t \in grouped : s <= t
          /\ grouped' = grouped \ {s}
          /\ opened' = MostRecent(s)
          /\ parts' = [parts EXCEPT ![s] =
                [WithPart(s) EXCEPT ![Len(WithPart(s))] = @ \o RowsOf(s, ChunkStart, rows)]]
    /\ UNCHANGED <<stream, rows, writing>>

(* A read, write or close that fails, or a cancellation, closes every file. *)
FailWriting ==
    /\ writing = "writing"
    /\ writing' = "failed" /\ opened' = <<>>
    /\ UNCHANGED <<stream, rows, grouped, parts>>

Increasing(s) == \A i \in 1 .. Len(s) - 1 : s[i] < s[i + 1]

(* Close, then check every partition in the numeric order of its parts.     *)
Validate ==
    /\ writing = "writing" /\ grouped = {} /\ rows = Len(stream)
    /\ writing' = IF \A s \in PartSymbols : Increasing(FlattenSeq(parts[s]))
                  THEN "validated" ELSE "failed"
    /\ opened' = <<>>
    /\ UNCHANGED <<stream, rows, grouped, parts>>

-----------------------------------------------------------------------------
(* What the later stages read.  Part n of a partition is its file           *)
(* part-<n - 1>.parquet.  build-dataset sorts the paths as text, which puts *)
(* a number before those it is a prefix of and part-10 before part-2.       *)

Digits(n) == IF n < 10 THEN <<n>> ELSE <<n \div 10, n % 10>>

PathBefore(m, n) ==
    LET a == Digits(m - 1)  b == Digits(n - 1)
    IN  \/ a[1] < b[1]
        \/ a[1] = b[1] /\ Len(a) < Len(b)
        \/ a[1] = b[1] /\ Len(a) = 2 /\ Len(b) = 2 /\ a[2] < b[2]

PathOrder(n) ==
    [k \in 1 .. n |-> CHOOSE m \in 1 .. n : Cardinality({l \in 1 .. n : PathBefore(l, m)}) = k - 1]

InputBatches(s) == FlattenSeq([k \in DOMAIN parts[s] |-> parts[s][PathOrder(Len(parts[s]))[k]]])

-----------------------------------------------------------------------------
PartsStart ==
    /\ rows = 0 /\ grouped = {} /\ opened = <<>> /\ writing = "writing"
    /\ parts = [s \in PartSymbols |-> <<>>]

PartsInit == stream \in Streams /\ PartsStart

PartsNext == ReadChunk \/ WriteBatch \/ FailWriting \/ Validate

PartsSpec == PartsInit /\ [][PartsNext]_partsVars

(* The parts of a partition hold exactly the rows of its symbol written so  *)
(* far, each once and in message order, whatever was evicted in between; at *)
(* most MaxOpen files are open (docs/05-api-contracts.md:317).              *)
PartsKeepStream ==
    /\ \A s \in PartSymbols :
          FlattenSeq(parts[s]) =
             RowsOf(s, 1, IF s \in grouped THEN ChunkStart - 1 ELSE rows)
    /\ Len(opened) <= MaxOpen /\ Cardinality(ToSet(opened)) = Len(opened)
    /\ \A s \in ToSet(opened) : parts[s] # <<>>

(* docs/04-data-model.md:183: rows are sorted by message index within the   *)
(* Parquet partition.  So build-dataset, which takes a validated partition  *)
(* part after part, reads it in message order.                              *)
ReadInMessageOrder ==
    writing = "validated" => \A s \in PartSymbols : Increasing(InputBatches(s))
=============================================================================
