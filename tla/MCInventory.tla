------------------------------ MODULE MCInventory ------------------------------
(* Instances of Inventory for TLC.                                         *)
EXTENDS Inventory, TLC

Id(p) == <<"id", p, "plain">>
Shouted(p) == <<"id", p, "shouted">>
Number(n) == <<"number", n, "plain">>

MCLists == { <<Id("p"), Id("q")>>, <<Id("p"), Blank, Shouted("p")>>, <<Id("q")>>, <<Id("p"), Id("x")>> }

(* Two files with unknown ids, the second with too many; columns of one    *)
(* name; short lines, lines without id and counts of zero; a misspelled    *)
(* count, and no importable row at all.                                    *)
MCFiles ==
  { [header |-> <<<<"count", "plain">>, <<"id", "plain">>>>,
     lines |-> << <<Number(2), Shouted("p")>>, <<Blank, Id("q")>>, <<Number(1), Id("p")>>, <<Number(3), Id("x")>> >>],
    [header |-> <<<<"scryfall id", "plain">>, <<"quantity", "plain">>, <<"scryfall id", "shouted">>>>,
     lines |-> << <<Id("p"), Number(0), Id("q")>>, <<Id("q"), Number(1), Id("p")>>, <<Id("p"), Number(4)>> >>],
    [header |-> <<<<"id", "plain">>>>,
     lines |-> << <<Id("x")>>, <<Id("y")>>, <<Id("q")>> >>],
    [header |-> <<<<"id", "plain">>, <<"count", "plain">>>>,
     lines |-> << <<Id("p"), <<"word", "two", "plain">>>>, <<Id("q")>> >>],
    [header |-> <<<<"id", "plain">>, <<"count", "plain">>>>,
     lines |-> << <<Blank, <<"word", "two", "plain">>>>, <<Id("q"), Number(-1)>> >>] }

(* What the parser and the merger make of the files.                       *)
ASSUME MCFilesAddUp == FilesAreCounts /\ FilesAddUp

(* Both create, add and delete; one removes.                               *)
OneRemoves == [s \in Sessions |-> IF s = "s1" THEN {"create", "import", "ingest", "add", "delete"}
                                               ELSE {"create", "add", "remove", "delete"}]
BothCreate == [s \in Sessions |-> {"create", "import", "ingest"}]
BothRemove == [s \in Sessions |-> IF s = "s1" THEN {"import", "remove"} ELSE {"remove"}]
================================================================================
