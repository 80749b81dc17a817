----------------------------- MODULE SeedFiles ------------------------------
(***************************************************************************)
(* The files in dataDir: SeedImport with clean_tsv.py, and the operator    *)
(* who runs it or does not.                                                *)
(*                                                                         *)
(* A re-run of the import starts from another export or from the files     *)
(* there, and the operator may have clean_tsv.py go through them first.    *)
(* Nothing else looks at the files while the application serves, so that   *)
(* the cleaning and the restart are one step.                              *)
(***************************************************************************)
EXTENDS SeedImport, CleanTsv

CONSTANTS
    Export,         \* what an export may put into dataDir: a file for each table
    LineOf(_, _)    \* V3's column list and SET: what a line of a table is loaded as

VARIABLES
    dataDir,        \* the files, cut at their line feeds
    exported,       \* history: the files as they were exported
    cleaned         \* history: clean_tsv.py has run on them

fileVars == <<dataDir, exported, cleaned>>
filesVars == <<vars, fileVars>>

\* glob("*.tsv"), sorted
TsvFiles == <<"tb_blog", "tb_shop", "tb_user", "tb_voucher">>

HasLines(disk) == RawLines(ReadText(disk)) # <<>>

\* A text without lines has no stats["expected_cols"]: the KeyError of its message
\* keeps the script from the files that follow.
Reached(files, t) ==
    \E n \in DOMAIN TsvFiles :
        TsvFiles[n] = t /\ \A i \in 1 .. n - 1 : HasLines(files[TsvFiles[i]])

CleanAll(files) == [t \in Table |-> IF Reached(files, t) THEN CleanFile(files[t]) ELSE files[t]]

\* LOAD DATA .. LINES TERMINATED BY '\n' IGNORE 1 LINES: what follows the last line
\* feed is a line unless it is empty.
LinesOf(t, disk) ==
    LET last == IF disk[Len(disk)] = <<>> THEN Len(disk) - 1 ELSE Len(disk)
    IN  [i \in 1 .. last - 1 |-> LineOf(t, disk[i + 1])]

Loaded(files) == [t \in Table |-> LinesOf(t, files[t])]

ASSUME ExportAssumption ==
    /\ Export \subseteq [Table -> DiskFiles]
    /\ \A e \in Export : {Loaded(e), Loaded(CleanAll(e))} \subseteq File

\* The operator puts another export there.
Supply(e, clean) ==
    /\ Serving
    /\ reruns < MaxReruns
    /\ exported' = e
    /\ dataDir' = IF clean THEN CleanAll(e) ELSE e
    /\ cleaned' = clean
    /\ Rerun(Loaded(dataDir'))

\* The files there are imported again, cleaned, or cleaned once more.
Again(clean) ==
    /\ Serving
    /\ reruns < MaxReruns
    /\ dataDir' = IF clean THEN CleanAll(dataDir) ELSE dataDir
    /\ cleaned' = (cleaned \/ clean)
    /\ Rerun(Loaded(dataDir'))
    /\ UNCHANGED exported

FilesInit ==
    /\ exported \in Export
    /\ cleaned \in BOOLEAN
    /\ dataDir = IF cleaned THEN CleanAll(exported) ELSE exported
    /\ Init
    /\ file = Loaded(dataDir)

FilesNext ==
    \/ /\ \/ Import
          \/ Crash
          \/ \E n \in New : Save(n)
          \/ \E b \in rows["tb_blog"] : LikeBlog(b)
       /\ UNCHANGED fileVars
    \/ \E e \in Export, clean \in BOOLEAN : Supply(e, clean)
    \/ \E clean \in BOOLEAN : Again(clean)

FilesSpec == FilesInit /\ [][FilesNext]_filesVars

----------------------------------------------------------------------------
(* Properties *)

\* What a table's file holds if its records, torn apart or not, are put together as
\* the docstring says: none if they cannot be, for instance because they are torn in
\* their last column.
Records(e, t) ==
    LET lines == RawLines(ReadText(e[t]))
    IN  {[i \in 1 .. Len(ends) - 1 |-> LineOf(t, Rejoined(lines, ends)[i + 1])] :
            ends \in {cuts \in Cuts(Len(lines)) : lines[1] # <<>> /\ IsTorn(lines, cuts)}}

RecordsOf == [e \in Export |-> [t \in Table |-> Records(e, t)]]

HasReturns(disk) == \E i \in DOMAIN disk : \E j \in DOMAIN disk[i] : disk[i][j] = CarriageReturn

\* clean_tsv.py, docstring: however exports, cleanings once or again, starts that die
\* and re-runs follow one another, what V3 has loaded of a file that was cleaned is its
\* records, each of them whole and once.  Left out are the files the script did not get
\* to and those it leaves with their returns.
FilesComeWhole ==
    \A t \in Table :
        cleaned /\ Past(Load(t)) /\ Reached(exported, t) /\ ~HasReturns(dataDir[t])
            => \A records \in RecordsOf[exported][t] : stage[t] = records

\* The inductive invariant behind FilesComeWhole: what is in dataDir is the export or
\* the export cleaned once, however often it was cleaned, and the import in hand reads
\* what is there.
FilesInv ==
    /\ MergeInv
    /\ exported \in Export
    /\ dataDir = IF cleaned THEN CleanAll(exported) ELSE exported
    /\ file = Loaded(dataDir)
=============================================================================
