------------------------------ MODULE RowMerger ------------------------------
(***************************************************************************)
(* The machine that turns the chunks of a Bigtable ReadRows stream into     *)
(* rows (bigtable_client/merge.rs).  The server (external) sends any stream *)
(* its protocol allows: rows in key order, each a series of cells whose     *)
(* family and qualifier are left out while they repeat, several versions of *)
(* a column (latest first), values split over several chunks, rows that are *)
(* dropped and sent again, keys that were scanned and filtered out, and a   *)
(* stream that fails or stops anywhere.                                     *)
(*                                                                          *)
(* Timestamps are kept only as present (1) or absent (0) and labels only as *)
(* present or not: the client never asks for labels, and reads neither.     *)
(***************************************************************************)
EXTENDS Naturals, Sequences, TLC

CONSTANTS
  MaxKey,       \* the keys of the table are 1..MaxKey, ordered as the code does
  Columns,      \* sequence of <<family, qualifier>>: the columns in stream order
  MaxVersions,  \* versions of a column the server may send
  Splits        \* whether the server splits values over two chunks

(* What the constants may be: assumed where the module is instantiated.      *)
RowMergerAssumption ==
  /\ MaxKey \in Nat /\ MaxVersions \in Nat \ {0} /\ Splits \in BOOLEAN
  /\ \A i \in 1..Len(Columns) : Len(Columns[i]) = 2

VARIABLES
  srv,        \* external: where the server is in its stream
  committed,  \* external: the rows the server has committed, by key
  merger,     \* the RowMerger and its PartialRow
  rows,       \* rows: the finished rows, by key
  result      \* "reading" or how process_chunks returned
vars == <<srv, committed, merger, rows, result>>

None == "none"
NoRow == <<>>   \* an empty function from qualifiers to cells
(* No name of a column stands for the absence of one.                        *)
ColumnNames == \A i \in 1..Len(Columns) : None \notin {Columns[i][1], Columns[i][2]}

EmptyCell == [family |-> "", qualifier |-> "", value |-> <<>>, index |-> 0]

PartialRow ==
  [key |-> 0, cells |-> {}, lastFamily |-> "", lastQualifier |-> "",
   collected |-> NoRow, cell |-> EmptyCell]

NewMerger ==
  [state |-> "RowStart", lastKey |-> 0, lastSeenFamily |-> None, row |-> PartialRow]

Invalid(m) == [m EXCEPT !.state = "Invalid"]

Init ==
  /\ srv = [key |-> 0, last |-> 0, col |-> 0, version |-> 0, open |-> FALSE, row |-> NoRow]
  /\ committed = NoRow
  /\ merger = NewMerger
  /\ rows = NoRow
  /\ result = "reading"

-----------------------------------------------------------------------------
(* The steps of the merger, each a function of the merger and the chunk.     *)

(* What a reset that does not discard the partial row would do.              *)
ResetKeepsRow(m, c) ==
  IF \/ m.state = "RowStart"
     \/ c.key # 0 \/ c.family # None \/ c.qualifier # None
     \/ c.timestamp > 0 \/ c.labels \/ c.value # <<>>
  THEN Invalid(m)
  ELSE [m EXCEPT !.state = "RowStart"]

reset_row(m, c) ==
  IF \/ m.state = "RowStart"
     \/ c.key # 0 \/ c.family # None \/ c.qualifier # None
     \/ c.timestamp > 0 \/ c.labels \/ c.value # <<>>
  THEN Invalid(m)
  ELSE [m EXCEPT !.state = "RowStart", !.row = PartialRow]

row_start(m, c) ==
  IF c.key = 0 \/ m.lastKey >= c.key
  THEN Invalid(m)
  ELSE [m EXCEPT !.state = "CellStart",
                 !.lastSeenFamily = IF c.family # None THEN c.family ELSE @,
                 !.row.key = c.key,
                 !.row.cell = EmptyCell]

(* A chunk with no qualifier is a further version of the last column.        *)
cell_start(m, c) ==
  LET family == IF c.family # None THEN c.family ELSE m.lastSeenFamily
  IN IF c.qualifier = None
     THEN [m EXCEPT !.state = "CellComplete"]
     ELSE IF \/ m.row.cells # {} /\ c.key # 0 /\ c.key # m.row.key
             \/ family = None
     THEN Invalid(m)
     ELSE [m EXCEPT
            !.state = IF c.size > 0 THEN "CellInProgress" ELSE "CellComplete",
            !.row.cell.family = family,
            !.row.cell.qualifier = c.qualifier,
            !.row.cell.value = IF c.size > 0 THEN <<>> ELSE @ \o c.value]

(* The last test is the code's: it refuses a continuation WITHOUT labels.    *)
cell_in_progress(m, c) ==
  IF /\ m.row.cell.index > 0
     /\ \/ c.key # 0 \/ c.family # None \/ c.qualifier # None
        \/ c.timestamp > 0 \/ ~c.labels
  THEN Invalid(m)
  ELSE [m EXCEPT !.state = IF c.size > 0 THEN "CellInProgress" ELSE "CellComplete",
                 !.row.cell.index = @ + Len(c.value),
                 !.row.cell.value = @ \o c.value]

(* Only the first cell of a family or column is collected: the versions that *)
(* follow are older.                                                          *)
cell_complete(m, c) ==
  LET r == m.row
      familyChanged == r.lastFamily # r.cell.family
      isNew == familyChanged \/ r.lastQualifier # r.cell.qualifier
      cell == [family |-> r.cell.family, value |-> r.cell.value]
  IN [m EXCEPT !.state = IF c.commit THEN "RowComplete" ELSE "CellStart",
               !.row.cells = IF familyChanged THEN @ \cup {r.cell.family} ELSE @,
               !.row.lastFamily = r.cell.family,
               !.row.lastQualifier = IF isNew THEN r.cell.qualifier ELSE @,
               !.row.collected = IF isNew THEN (r.cell.qualifier :> cell) @@ @ ELSE @,
               !.row.cell.value = <<>>,
               !.row.cell.index = 0]

row_complete(m) ==
  [m EXCEPT !.state = "RowStart", !.lastKey = m.row.key, !.row = PartialRow]

finalize(m) == IF m.state # "RowStart" THEN "invalid" ELSE "ok"

(* The states one chunk feeds through, up to CellComplete.                   *)
ChunkSteps(m, c) ==
  LET a == IF m.state = "RowStart" THEN row_start(m, c) ELSE m
      b == IF a.state = "CellStart" THEN cell_start(a, c) ELSE a
      d == IF b.state = "CellInProgress" THEN cell_in_progress(b, c) ELSE b
  IN IF d.state = "CellComplete" THEN cell_complete(d, c) ELSE d

(* The body of process_chunks for one chunk.                                 *)
ProcessChunk(c) ==
  LET m == IF c.reset THEN reset_row(merger, c) ELSE ChunkSteps(merger, c)
  IN IF m.state = "RowComplete"
     THEN /\ rows' = (m.row.key :> m.row.collected) @@ rows
          /\ merger' = row_complete(m)
          /\ UNCHANGED result
     ELSE /\ merger' = m
          /\ result' = IF m.state = "Invalid" \/ c.commit THEN "invalid" ELSE result
          /\ UNCHANGED rows

-----------------------------------------------------------------------------
(* The server (external), one action per kind of chunk or response.          *)

Reading == result = "reading"

Idle == [key |-> 0, last |-> srv.last, col |-> 0, version |-> 0, open |-> FALSE, row |-> NoRow]

(* The server's side of a committed row.                                     *)
ServerAfter(s, commit) ==
  IF commit
  THEN /\ srv' = [Idle EXCEPT !.last = s.key]
       /\ committed' = (s.key :> s.row) @@ committed
  ELSE srv' = s /\ UNCHANGED committed

Piece(key, col, version) == <<key, col, version>>

(* A cell: the first of a row, one of a later column, or a further version.  *)
(* Family and qualifier may be left out while they repeat.                   *)
SendCell ==
  /\ Reading /\ ~srv.open
  /\ \E key \in (IF srv.key = 0 THEN (srv.last + 1)..MaxKey ELSE {srv.key}),
        col \in 1..Len(Columns), split \in (IF Splits THEN BOOLEAN ELSE {FALSE}),
        namesFamily, namesColumn, commit \in BOOLEAN :
       LET newRow == srv.key = 0
           version == IF col = srv.col THEN srv.version + 1 ELSE 1
           newFamily == newRow \/ Columns[col][1] # Columns[srv.col][1]
           piece == Piece(key, col, version)
           value == IF split THEN <<piece, piece>> ELSE <<piece>>
           cell == [family |-> Columns[col][1], value |-> value]
       IN /\ col >= srv.col /\ version <= MaxVersions
          /\ newFamily => namesFamily
          /\ version = 1 => namesColumn
          /\ namesFamily => namesColumn
          /\ split => ~commit
          /\ ProcessChunk(
               [key |-> IF newRow THEN key ELSE 0,
                family |-> IF namesFamily THEN Columns[col][1] ELSE None,
                qualifier |-> IF namesColumn THEN Columns[col][2] ELSE None,
                timestamp |-> 1, labels |-> FALSE, value |-> <<piece>>,
                size |-> IF split THEN Len(value) ELSE 0,
                commit |-> commit, reset |-> FALSE])
          /\ ServerAfter(
               [srv EXCEPT !.key = key, !.col = col, !.version = version, !.open = split,
                           !.row = IF version = 1 THEN (Columns[col][2] :> cell) @@ @ ELSE @],
               commit)

(* The rest of a split value.                                                *)
SendRest ==
  /\ Reading /\ srv.open
  /\ \E commit \in BOOLEAN :
       /\ ProcessChunk(
            [key |-> 0, family |-> None, qualifier |-> None, timestamp |-> 0, labels |-> FALSE,
             value |-> <<Piece(srv.key, srv.col, srv.version)>>, size |-> 0,
             commit |-> commit, reset |-> FALSE])
       /\ ServerAfter([srv EXCEPT !.open = FALSE], commit)

(* The server drops the row it was sending and will read it again.           *)
SendReset ==
  /\ Reading /\ srv.key # 0
  /\ ProcessChunk(
       [key |-> 0, family |-> None, qualifier |-> None, timestamp |-> 0, labels |-> FALSE,
        value |-> <<>>, size |-> 0, commit |-> FALSE, reset |-> TRUE])
  /\ srv' = Idle
  /\ UNCHANGED committed

(* A response that only tells how far the scan came.                         *)
LastScanned ==
  /\ Reading /\ srv.key = 0
  /\ \E key \in (srv.last + 1)..MaxKey :
       /\ srv' = [srv EXCEPT !.last = key]
       /\ IF merger.lastKey >= key
          THEN result' = "invalid" /\ UNCHANGED merger
          ELSE merger' = [merger EXCEPT !.lastKey = key] /\ UNCHANGED result
  /\ UNCHANGED <<committed, rows>>

StreamFails ==
  /\ Reading
  /\ result' = "failed"
  /\ UNCHANGED <<srv, committed, merger, rows>>

(* The stream stops, after its last row or inside one.                       *)
StreamEnds ==
  /\ Reading
  /\ result' = finalize(merger)
  /\ UNCHANGED <<srv, committed, merger, rows>>

Next == SendCell \/ SendRest \/ SendReset \/ LastScanned \/ StreamFails \/ StreamEnds

Spec == Init /\ [][Next]_vars

-----------------------------------------------------------------------------
TypeOK ==
  /\ merger.state \in {"RowStart", "CellStart", "CellInProgress", "Invalid"}
  /\ merger.lastKey \in 0..MaxKey /\ merger.row.key \in 0..MaxKey
  /\ DOMAIN rows \subseteq 1..MaxKey
  /\ DOMAIN committed \subseteq 1..MaxKey
  /\ result \in {"reading", "ok", "invalid", "failed"}

(* The rows handed back are the rows the server committed, each with the     *)
(* latest version of exactly its columns, whatever was dropped, left out or  *)
(* repeated on the way (process_chunks).                                     *)
MergedIsSent == Reading \/ result = "ok" => rows = committed

(* process_chunks never returns Ok for a stream that stopped inside a row.   *)
NoPartialResult == result = "ok" => srv.key = 0

(* A stream the protocol allows is never refused as an invalid chunk: the    *)
(* only invalid stream is one that stops inside a row.                       *)
LegalStreamAccepted == result = "invalid" => srv.key # 0 /\ merger.state # "Invalid"
=============================================================================
