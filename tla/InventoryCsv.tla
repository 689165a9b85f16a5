------------------------------ MODULE InventoryCsv ------------------------------
(***************************************************************************)
(* What an inventory file says: CsvParser and CsvInventoryRowMerger.  A    *)
(* file is a header of column names and lines of cells.  A cell is blank,  *)
(* an id or a number, each as somebody spelled it: <<kind, value, form>>,  *)
(* where forms differ in case and in surrounding blanks only; a column     *)
(* name is <<name, form>>, where forms differ in case, `_` and `-` too.    *)
(***************************************************************************)
EXTENDS Integers, SequencesExt

Blank == <<"blank", "", "plain">>

IsBlank(cell) == cell[1] = "blank"
Canonical(cell) == <<cell[1], cell[2]>>

(* Of several columns with one canonical name the last is read.            *)
Named(header, name) == {i \in DOMAIN header : header[i][1] = name}
Column(header, name) ==
  IF Named(header, name) = {} THEN 0 ELSE CHOOSE i \in Named(header, name) : \A j \in Named(header, name) : i >= j

IdColumn(header) ==
  IF Column(header, "scryfall id") # 0 THEN Column(header, "scryfall id") ELSE Column(header, "id")
CountColumn(header) ==
  IF Column(header, "count") # 0 THEN Column(header, "count") ELSE Column(header, "quantity")

(* A line may be shorter than the header.                                  *)
Cell(line, column) == IF column \in DOMAIN line THEN line[column] ELSE Blank

HasId(file, line) == ~IsBlank(Cell(line, IdColumn(file.header)))
Count(file, line) ==
  LET cell == Cell(line, CountColumn(file.header))
  IN IF IsBlank(cell) THEN 1 ELSE cell[2]

(* A count that is no number stops the import, unless its line has no id.  *)
Misread(file, line) ==
  LET cell == Cell(line, CountColumn(file.header))
  IN HasId(file, line) /\ ~IsBlank(cell) /\ cell[1] # "number"

Rows(file) ==
  LET Kept(line) == HasId(file, line) /\ Count(file, line) > 0
      Read(line) == [id |-> Canonical(Cell(line, IdColumn(file.header))), count |-> Count(file, line)]
      kept == SelectSeq(file.lines, Kept)
  IN [i \in DOMAIN kept |-> Read(kept[i])]

Importable(file) ==
  /\ IdColumn(file.header) # 0
  /\ \A i \in DOMAIN file.lines : ~Misread(file, file.lines[i])
  /\ Rows(file) # <<>>

(* merge_counts: one entry for each id, the counts of its rows summed.     *)
Merged(rows) ==
  FoldSeq(LAMBDA row, sums : [id \in DOMAIN sums \cup {row.id} |->
                                (IF id \in DOMAIN sums THEN sums[id] ELSE 0)
                                  + (IF id = row.id THEN row.count ELSE 0)],
          [id \in {} |-> 0], rows)
================================================================================
