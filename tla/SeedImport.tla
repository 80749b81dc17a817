----------------------------- MODULE SeedImport -----------------------------
(***************************************************************************)
(* The seed import, Flyway's V3 to V5, and the tables it shares with the   *)
(* application.                                                            *)
(*                                                                         *)
(*   V3  empties the four stage tables and loads a TSV file into each.     *)
(*   V4  merges stage_user and stage_shop into tb_user and tb_shop.        *)
(*   V5  merges stage_voucher and stage_blog into tb_voucher and tb_blog.  *)
(*                                                                         *)
(* A merge is INSERT .. SELECT .. ON DUPLICATE KEY UPDATE under two unique *)
(* keys, the primary key of V1 and the natural key of V2.  V4 and V5 merge *)
(* in one transaction each, commit, and reset AUTO_INCREMENT.  Flyway runs *)
(* the versions its history table does not hold before the application     *)
(* serves; a start may die anywhere.  Later an operator may put another    *)
(* file there and have the versions run again.                             *)
(*                                                                         *)
(* A row is its id, its natural key, what else is in it and, for a blog,   *)
(* its likes.  How the lines of dataDir come about is SeedFiles.           *)
(***************************************************************************)
EXTENDS Integers, Sequences, FiniteSetsExt

CONSTANTS
    File,           \* the contents dataDir may have: rows per table
    Key,            \* the natural keys: phones, names with addresses, titles ..
    Text,           \* the other columns of a row
    New,            \* what the application may insert: table, key and text
    Null,           \* SQL NULL
    MaxId,          \* bound on the ids the application draws or likes
    MaxLiked,       \* bound on the likes of a blog
    MaxReruns,      \* bound on the imports after the first
    MaxCrashes      \* bound on the starts that die

Table == {"tb_user", "tb_shop", "tb_voucher", "tb_blog"}

Likes == Nat \cup {Null}

Row == [id : Nat \ {0}, key : Key, text : Text, liked : Likes]

\* A line of a TSV file; empty fields are loaded as NULL.  The key is NULL in every
\* line that WHERE leaves out, for shops without coordinates too.
Line == [id : (Nat \ {0}) \cup {Null}, key : Key \cup {Null}, text : Text, liked : Likes]

ASSUME NullAssumption == Null \notin Nat /\ Null \notin Key
ASSUME FileAssumption == File \subseteq [Table -> Seq(Line)]
ASSUME NewAssumption == New \subseteq [table : Table, key : Key, text : Text]
ASSUME BoundsAssumption ==
    MaxId \in Nat /\ MaxLiked \in Nat /\ MaxReruns \in Nat /\ MaxCrashes \in Nat

VARIABLES
    file,           \* what is in dataDir
    stage,          \* the stage tables, in the order they were loaded
    rows,           \* the four tables as committed
    work,           \* the four tables as Flyway's connection sees them
    autoinc,        \* AUTO_INCREMENT of each table; not part of a transaction
    step,           \* the next step of Plan
    line,           \* within a merge: how many stage rows have been merged
    recorded,       \* the versions in flyway_schema_history
    reruns, crashes,
    before,         \* history: rows when the import in hand was asked for
    thanked         \* history: how many likeBlog calls on an id answered true

importVars == <<file, stage, step, line, recorded>>
boundVars == <<reruns, crashes>>
vars == <<importVars, rows, work, autoinc, boundVars, before, thanked>>

----------------------------------------------------------------------------
(* The migrations *)

Merge(t) == [do |-> "merge", on |-> t]
Reset(t) == [do |-> "reset", on |-> t]
Load(t) == [do |-> "load", on |-> t]
Commit(v) == [do |-> "commit", on |-> v]
Record(v) == [do |-> "record", on |-> v]

\* Mutant of V4: its row of the history is written first.
V4Early ==
    << Record("V4"), Merge("tb_user"), Merge("tb_shop"), Commit("V4"),
       Reset("tb_user"), Reset("tb_shop") >>

V3 ==
    << [do |-> "truncate", on |-> "V3"], Load("tb_user"), Load("tb_shop"),
       Load("tb_voucher"), Load("tb_blog"), Record("V3") >>

V4 ==
    << Merge("tb_user"), Merge("tb_shop"), Commit("V4"),
       Reset("tb_user"), Reset("tb_shop"), Record("V4") >>

V5 ==
    << Merge("tb_voucher"), Merge("tb_blog"), Commit("V5"),
       Reset("tb_voucher"), Reset("tb_blog"), Record("V5") >>

Plan == V3 \o V4 \o V5

Serving == step > Len(Plan)

At(what) == ~Serving /\ Plan[step].do = what

\* The table or version the step is about.
On == Plan[step].on

Done == step' = step + 1 /\ line' = 0

\* V3: TRUNCATE of the four stage tables.
Truncate ==
    /\ At("truncate")
    /\ stage' = [t \in Table |-> <<>>]
    /\ Done
    /\ UNCHANGED <<file, recorded, rows, work, autoinc, boundVars, before, thanked>>

\* V3: LOAD DATA, after which the rows are there whatever happens.
LoadData ==
    /\ At("load")
    /\ stage' = [stage EXCEPT ![On] = @ \o file[On]]
    /\ Done
    /\ UNCHANGED <<file, recorded, rows, work, autoinc, boundVars, before, thanked>>

\* IFNULL(liked, 0); only tb_blog has the column.
LikedOf(s) == IF s.liked = Null THEN 0 ELSE s.liked

\* An explicit id pushes AUTO_INCREMENT past itself, NULL draws the next value;
\* neither is undone by a duplicate or a rollback.
NextId(next, id) ==
    CASE id = Null -> next + 1
      [] id # Null /\ id >= next -> id + 1
      [] OTHER -> next

IdOf(t, s) == IF s.id = Null THEN autoinc[t] ELSE s.id

NewRow(id, s) == [id |-> id, key |-> s.key, text |-> s.text, liked |-> LikedOf(s)]

Insert(tbl, id, s) == tbl \cup {NewRow(id, s)}

\* ON DUPLICATE KEY UPDATE: every column but the id and the natural key.
Taken(b, s) == [b EXCEPT !.text = s.text, !.liked = LikedOf(s)]

Update(tbl, b, s) == (tbl \ {b}) \cup {Taken(b, s)}

\* Mutant of Upsert: REPLACE INTO.
UpsertReplaces(tbl, id, s) ==
    Insert({b \in tbl : b.id # id /\ b.key # s.key}, id, s)

\* Where both keys are hit, in two rows, MySQL updates the one found by the
\* primary key.
Upsert(tbl, id, s) ==
    CASE \E b \in tbl : b.id = id ->
            Update(tbl, CHOOSE b \in tbl : b.id = id, s)
      [] (\A b \in tbl : b.id # id) /\ (\E b \in tbl : b.key = s.key) ->
            Update(tbl, CHOOSE b \in tbl : b.key = s.key, s)
      [] OTHER -> Insert(tbl, id, s)

\* Mutant of MergeRow: no WHERE.
MergeUnfiltered ==
    /\ At("merge")
    /\ line < Len(stage[On])
    /\ LET s == stage[On][line + 1]
       IN  /\ work' = [work EXCEPT ![On] = Upsert(@, IdOf(On, s), s)]
           /\ autoinc' = [autoinc EXCEPT ![On] = NextId(@, s.id)]
    /\ line' = line + 1
    /\ UNCHANGED <<file, stage, step, recorded, rows, boundVars, before, thanked>>

\* V4 and V5: one row of the SELECT.  WHERE leaves those without a key out.
MergeRow ==
    /\ At("merge")
    /\ line < Len(stage[On])
    /\ LET s == stage[On][line + 1]
       IN  IF s.key = Null
           THEN UNCHANGED <<work, autoinc>>
           ELSE /\ work' = [work EXCEPT ![On] = Upsert(@, IdOf(On, s), s)]
                /\ autoinc' = [autoinc EXCEPT ![On] = NextId(@, s.id)]
    /\ line' = line + 1
    /\ UNCHANGED <<file, stage, step, recorded, rows, boundVars, before, thanked>>

MergeEnds ==
    /\ At("merge")
    /\ line = Len(stage[On])
    /\ Done
    /\ UNCHANGED <<file, stage, recorded, rows, work, autoinc, boundVars, before, thanked>>

CommitWork ==
    /\ At("commit")
    /\ rows' = work
    /\ Done
    /\ UNCHANGED <<file, stage, recorded, work, autoinc, boundVars, before, thanked>>

Ids(tbl) == {b.id : b \in tbl}

\* Mutant of NextFree: MAX(id) without the + 1.
NextTaken(tbl) == Max(Ids(tbl) \cup {1})

\* IFNULL(MAX(id), 0) + 1
NextFree(tbl) == Max(Ids(tbl) \cup {0}) + 1

\* ALTER TABLE .. AUTO_INCREMENT = ..
ResetAutoIncrement ==
    /\ At("reset")
    /\ autoinc' = [autoinc EXCEPT ![On] = NextFree(rows[On])]
    /\ Done
    /\ UNCHANGED <<file, stage, recorded, rows, work, boundVars, before, thanked>>

\* Flyway writes the version's row into its history once the script has ended.
RecordVersion ==
    /\ At("record")
    /\ recorded' = recorded \cup {On}
    /\ Done
    /\ UNCHANGED <<file, stage, rows, work, autoinc, boundVars, before, thanked>>

\* Where the next start begins: with the first version not recorded.
FirstMissing(done) ==
    CASE "V3" \notin done -> 1
      [] "V3" \in done /\ "V4" \notin done -> Len(V3) + 1
      [] {"V3", "V4"} \subseteq done /\ "V5" \notin done -> Len(V3 \o V4) + 1
      [] OTHER -> Len(Plan) + 1

\* The start dies, or a statement fails: MySQL rolls back, and the process
\* (after flyway repair, if an error was recorded) is started again.
Crash ==
    /\ ~Serving
    /\ crashes < MaxCrashes
    /\ crashes' = crashes + 1
    /\ work' = rows
    /\ step' = FirstMissing(recorded)
    /\ line' = 0
    /\ UNCHANGED <<file, stage, recorded, rows, autoinc, reruns, before, thanked>>

\* The operator replaces the files, takes the versions out of the history and
\* restarts the application.
Rerun(f) ==
    /\ Serving
    /\ reruns < MaxReruns
    /\ reruns' = reruns + 1
    /\ file' = f
    /\ recorded' = {}
    /\ step' = 1
    /\ line' = 0
    /\ before' = rows
    /\ UNCHANGED <<stage, rows, work, autoinc, crashes, thanked>>

Import ==
    \/ Truncate \/ LoadData \/ MergeRow \/ MergeEnds \/ CommitWork
    \/ ResetAutoIncrement \/ RecordVersion

----------------------------------------------------------------------------
(* The application *)

\* login of a new phone, saveShop, addVoucher, saveBlog: INSERT with the next
\* id, refused by either unique key.  blog-edit.html sends no likes, and the
\* entity puts NULL there.
Save(n) ==
    /\ Serving
    /\ autoinc[n.table] <= MaxId
    /\ LET id == autoinc[n.table]
           row == [id |-> id, key |-> n.key, text |-> n.text,
                   liked |-> IF n.table = "tb_blog" THEN Null ELSE 0]
       IN  /\ rows' = IF \E b \in rows[n.table] : b.id = id \/ b.key = n.key
                      THEN rows
                      ELSE [rows EXCEPT ![n.table] = @ \cup {row}]
           /\ autoinc' = [autoinc EXCEPT ![n.table] = id + 1]
    /\ work' = rows'
    /\ UNCHANGED <<importVars, boundVars, before, thanked>>

\* NULL + 1 is NULL.
PlusOne(n) == IF n = Null THEN Null ELSE n + 1

\* likeBlog: UPDATE .. SET liked = liked + 1 WHERE id = ..; true if it found one.
LikeBlog(b) ==
    /\ Serving
    /\ b \in rows["tb_blog"]
    /\ b.id <= MaxId /\ thanked[b.id] < MaxLiked
    /\ rows' = [rows EXCEPT !["tb_blog"] = (@ \ {b}) \cup {[b EXCEPT !.liked = PlusOne(@)]}]
    /\ work' = rows'
    /\ thanked' = [thanked EXCEPT ![b.id] = @ + 1]
    /\ UNCHANGED <<importVars, autoinc, boundVars, before>>

----------------------------------------------------------------------------

\* V1 and V2 have run on an empty database.
Init ==
    /\ file \in File
    /\ stage = [t \in Table |-> <<>>]
    /\ rows = [t \in Table |-> {}]
    /\ work = rows
    /\ autoinc = [t \in Table |-> 1]
    /\ step = 1
    /\ line = 0
    /\ recorded = {}
    /\ reruns = 0
    /\ crashes = 0
    /\ before = rows
    /\ thanked = [id \in 1 .. MaxId |-> 0]

Next ==
    \/ Import
    \/ Crash
    \/ \E f \in File : Rerun(f)
    \/ \E n \in New : Save(n)
    \/ \E b \in rows["tb_blog"] : LikeBlog(b)

Spec == Init /\ [][Next]_vars

----------------------------------------------------------------------------
(* Properties *)

\* Every variable keeps to its set.
TypeOK ==
    /\ file \in [Table -> Seq(Line)]
    /\ stage \in [Table -> Seq(Line)]
    /\ rows \in [Table -> SUBSET Row]
    /\ work \in [Table -> SUBSET Row]
    /\ autoinc \in [Table -> Nat \ {0}]
    /\ step \in 1 .. Len(Plan) + 1
    /\ line \in Nat
    /\ recorded \subseteq {"V3", "V4", "V5"}
    /\ reruns \in 0 .. MaxReruns
    /\ crashes \in 0 .. MaxCrashes
    /\ before \in [Table -> SUBSET Row]
    /\ thanked \in [1 .. MaxId -> 0 .. MaxLiked]

OneRowPerKey(tbl) == \A b, c \in tbl : b.id = c.id \/ b.key = c.key => b = c

\* However merges, rollbacks, re-runs and the application's inserts follow one
\* another, neither key is held twice, and the application's next INSERT never
\* meets its own primary key (V4, section 3).
KeysHold ==
    \A t \in Table :
        /\ OneRowPerKey(rows[t])
        /\ OneRowPerKey(work[t])
        /\ \A b \in rows[t] \cup work[t] : b.id < autoinc[t]

\* An import, the first or a later one, undisturbed or not, never removes a row
\* and never changes its id or its natural key: what other tables refer to stays.
IdentityIsKept ==
    [][~Serving =>
        \A t \in Table : \A b \in rows[t] :
            \E c \in rows'[t] : c.id = b.id /\ c.key = b.key]_vars

\* The ids of the lines are their own: of those that name a row no two have the
\* same, none is drawn, and none is that of a row with another natural key.
NoClash(tbl, lines) ==
    LET Keyed == {i \in DOMAIN lines : lines[i].key # Null}
    IN  \A i \in Keyed :
            /\ lines[i].id # Null
            /\ \A j \in Keyed : lines[i].id = lines[j].id => i = j
            /\ \A b \in tbl : b.id = lines[i].id => b.key = lines[i].key

\* The natural keys among the first n lines, and the lines that count for one:
\* the first gives a new row its id, the last so far everything else.
Named(lines, n) == {lines[i].key : i \in 1 .. n} \ {Null}
FirstOf(lines, key) == lines[Min({i \in DOMAIN lines : lines[i].key = key})]
LastOf(lines, n, key) == lines[Max({i \in 1 .. n : lines[i].key = key})]

\* The merge of the first n lines by natural key alone: the rows there already and
\* one for every other key, each with what the last line of its key says.
Gathered(tbl, lines, n) ==
    tbl \cup {NewRow(FirstOf(lines, key).id, FirstOf(lines, key)) :
                key \in Named(lines, n) \ {b.key : b \in tbl}}

Settled(b, lines, n) ==
    IF b.key \in Named(lines, n) THEN Taken(b, LastOf(lines, n, b.key)) ELSE b

Merged(tbl, lines, n) == {Settled(b, lines, n) : b \in Gathered(tbl, lines, n)}

\* DESIGN.md, "Why this works": wherever the start dies and however often, the
\* import that gets through has merged each file by natural key, once, provided
\* that the file's ids clash with nothing.
ImportIsMerge ==
    [][~Serving /\ Serving' =>
        \A t \in Table : NoClash(before[t], file[t])
            => rows'[t] = Merged(before[t], file[t], Len(file[t]))]_vars

\* DESIGN.md, "Idempotent": the merge goes by natural keys.  A row that no line
\* names is then none of its business.
MergeGoesByNaturalKey ==
    [][~Serving /\ Serving' =>
        \A t \in Table : \A b \in before[t] :
            (\A i \in DOMAIN file[t] : file[t][i].key # b.key) => b \in rows'[t]]_vars

\* likeBlog ("+1, atomic"): a like that is answered with true counts.
LikeCounts ==
    [][\A b \in rows["tb_blog"], c \in rows'["tb_blog"] :
        b.id = c.id /\ b.id <= MaxId /\ thanked'[b.id] = thanked[b.id] + 1
            => b.liked # Null /\ c.liked = b.liked + 1]_vars

----------------------------------------------------------------------------
(* The inductive invariants behind KeysHold and IdentityIsKept, and behind       *)
(* ImportIsMerge                                                                 *)

\* Outside a transaction Flyway's connection sees what is committed.
WorkIsCommitted == ~At("merge") /\ ~At("commit") => work = rows

\* A merge under way has not lost a row.
WorkKeepsRows ==
    \A t \in Table : \A b \in rows[t] : \E c \in work[t] : c.id = b.id /\ c.key = b.key

\* Whatever the files hold and wherever a start dies, Flyway's connection and the
\* committed tables keep both keys and every row, inside a merge as well.
IInv == TypeOK /\ KeysHold /\ WorkIsCommitted /\ WorkKeepsRows

\* The import in hand is past this step of the plan.
Past(s) == \E k \in 1 .. step - 1 : Plan[k] = s

VersionOf(t) == IF t \in {"tb_user", "tb_shop"} THEN "V4" ELSE "V5"

\* The history table holds the versions the import is through with.
RecordedSoFar == \A v \in {"V3", "V4", "V5"} : v \in recorded <=> Past(Record(v))

\* A stage table is empty from the truncation until its file is in it, whole and
\* once, and it is the file from then on.
StagedSoFar ==
    \A t \in Table :
        /\ Past(V3[1]) /\ ~Past(Load(t)) => stage[t] = <<>>
        /\ Past(Load(t)) => stage[t] = file[t]

\* What is committed is the table before the import or the whole merge, never a
\* part of it; Flyway's connection sees it with the lines merged so far, on top of
\* an earlier start's merge too.
MergedSoFar ==
    ~Serving =>
        \A t \in Table : NoClash(before[t], file[t]) =>
            LET whole == Merged(before[t], file[t], Len(file[t]))
            IN  /\ rows[t] \in {before[t], whole}
                /\ Past(Commit(VersionOf(t))) => rows[t] = whole
                /\ work[t] = CASE Past(Merge(t)) -> whole
                               [] Plan[step] = Merge(t) -> Merged(rows[t], file[t], line)
                               [] OTHER -> rows[t]

MergeInv == IInv /\ RecordedSoFar /\ StagedSoFar /\ MergedSoFar
=============================================================================
