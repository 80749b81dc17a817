-------------------------- MODULE SeedImportProofs --------------------------
(***************************************************************************)
(* Proofs about SeedImport, for any files, rows, re-runs and crashes.      *)
(*                                                                         *)
(* A merge keeps both keys because ON DUPLICATE KEY UPDATE sets neither,   *)
(* AUTO_INCREMENT stays above every id because it is reset only when what  *)
(* was merged is what is committed, and a row that is committed has its    *)
(* counterpart in every merge under way.                                   *)
(*                                                                         *)
(* Where the ids of a file clash with nothing, an upsert is one step of    *)
(* the merge by natural key, and merging the same lines again changes      *)
(* nothing.  So a version that runs again leaves what one run would have.  *)
(***************************************************************************)
EXTENDS SeedImport, SequenceTheorems, WellFoundedInduction, TLAPS

USE NullAssumption, FileAssumption, NewAssumption, BoundsAssumption

----------------------------------------------------------------------------
(* The plan *)

LEMMA PlanSteps ==
    /\ Len(V3) = 6 /\ Len(V3 \o V4) = 12 /\ Len(Plan) = 18
    /\ Plan[1] = V3[1] /\ Plan[1].do = "truncate"
    /\ Plan[2] = Load("tb_user") /\ Plan[3] = Load("tb_shop")
    /\ Plan[4] = Load("tb_voucher") /\ Plan[5] = Load("tb_blog") /\ Plan[6] = Record("V3")
    /\ Plan[7] = Merge("tb_user") /\ Plan[8] = Merge("tb_shop") /\ Plan[9] = Commit("V4")
    /\ Plan[10] = Reset("tb_user") /\ Plan[11] = Reset("tb_shop") /\ Plan[12] = Record("V4")
    /\ Plan[13] = Merge("tb_voucher") /\ Plan[14] = Merge("tb_blog") /\ Plan[15] = Commit("V5")
    /\ Plan[16] = Reset("tb_voucher") /\ Plan[17] = Reset("tb_blog") /\ Plan[18] = Record("V5")
<1> DEFINE Steps == [do : {"truncate", "load", "merge", "commit", "reset", "record"},
                    on : Table \cup {"V3", "V4", "V5"}]
<1>1. V3 \in Seq(Steps) /\ Len(V3) = 6
  BY DEF V3, Load, Record, Table
<1>2. V4 \in Seq(Steps) /\ Len(V4) = 6
  BY DEF V4, Merge, Commit, Reset, Record, Table
<1>3. V5 \in Seq(Steps) /\ Len(V5) = 6
  BY DEF V5, Merge, Commit, Reset, Record, Table
<1> HIDE DEF Steps
<1> DEFINE half == V3 \o V4
<1>4. /\ half \in Seq(Steps) /\ Len(half) = 12
      /\ \A i \in 1 .. 12 : half[i] = IF i <= 6 THEN V3[i] ELSE V4[i - 6]
  <2>1. /\ half \in Seq(Steps) /\ Len(half) = Len(V3) + Len(V4)
        /\ \A i \in 1 .. Len(V3) + Len(V4) :
              half[i] = IF i <= Len(V3) THEN V3[i] ELSE V4[i - Len(V3)]
    BY ZenonT(30), <1>1, <1>2, ConcatProperties
  <2>2. Len(V3) + Len(V4) = 12
    BY <1>1, <1>2
  <2> QED
    BY <1>1, <2>1, <2>2
<1> HIDE DEF half
<1> DEFINE whole == half \o V5
<1>5. /\ Len(whole) = 18
      /\ \A i \in 1 .. 18 : whole[i] = IF i <= 12 THEN half[i] ELSE V5[i - 12]
  <2>1. /\ Len(whole) = Len(half) + Len(V5)
        /\ \A i \in 1 .. Len(half) + Len(V5) :
              whole[i] = IF i <= Len(half) THEN half[i] ELSE V5[i - Len(half)]
    BY ZenonT(30), <1>3, <1>4, ConcatProperties
  <2>2. Len(half) + Len(V5) = 18
    BY <1>3, <1>4
  <2> QED
    BY <1>4, <2>1, <2>2
<1>6. Plan = whole
  BY DEF Plan, half
<1> HIDE DEF whole
<1>7. \A i \in 1 .. 6 : Plan[i] = V3[i]
  BY <1>4, <1>5, <1>6
<1>8. Plan[7] = V4[1] /\ Plan[8] = V4[2] /\ Plan[9] = V4[3]
      /\ Plan[10] = V4[4] /\ Plan[11] = V4[5] /\ Plan[12] = V4[6]
  BY SMTT(30), <1>4, <1>5, <1>6
<1>9. Plan[13] = V5[1] /\ Plan[14] = V5[2] /\ Plan[15] = V5[3]
      /\ Plan[16] = V5[4] /\ Plan[17] = V5[5] /\ Plan[18] = V5[6]
  BY <1>5, <1>6
<1>10. /\ Plan[1] = V3[1] /\ Plan[1].do = "truncate"
       /\ Plan[2] = Load("tb_user") /\ Plan[3] = Load("tb_shop")
       /\ Plan[4] = Load("tb_voucher") /\ Plan[5] = Load("tb_blog") /\ Plan[6] = Record("V3")
  BY <1>7 DEF V3
<1>11. /\ Plan[7] = Merge("tb_user") /\ Plan[8] = Merge("tb_shop") /\ Plan[9] = Commit("V4")
       /\ Plan[10] = Reset("tb_user") /\ Plan[11] = Reset("tb_shop") /\ Plan[12] = Record("V4")
  BY <1>8 DEF V4
<1>12. /\ Plan[13] = Merge("tb_voucher") /\ Plan[14] = Merge("tb_blog") /\ Plan[15] = Commit("V5")
       /\ Plan[16] = Reset("tb_voucher") /\ Plan[17] = Reset("tb_blog") /\ Plan[18] = Record("V5")
  BY <1>9 DEF V5
<1> QED
  BY <1>1, <1>4, <1>5, <1>6, <1>10, <1>11, <1>12 DEF half

\* Where in the plan each step is.
LoadAt(t) ==
    CASE t = "tb_user" -> 2 [] t = "tb_shop" -> 3 [] t = "tb_voucher" -> 4 [] OTHER -> 5
MergeAt(t) ==
    CASE t = "tb_user" -> 7 [] t = "tb_shop" -> 8 [] t = "tb_voucher" -> 13 [] OTHER -> 14
CommitAt(t) == IF t \in {"tb_user", "tb_shop"} THEN 9 ELSE 15
RecordAt(v) == CASE v = "V3" -> 6 [] v = "V4" -> 12 [] OTHER -> 18

LEMMA PlanAt ==
    \A k \in 1 .. 18 :
        /\ Plan[k] = V3[1] <=> k = 1
        /\ Plan[k].do = "truncate" <=> k = 1
        /\ Plan[k].do = "load" <=> k \in {2, 3, 4, 5}
        /\ Plan[k].do = "merge" <=> k \in {7, 8, 13, 14}
        /\ Plan[k].do = "commit" <=> k \in {9, 15}
        /\ Plan[k].do = "reset" <=> k \in {10, 11, 16, 17}
        /\ Plan[k].do = "record" <=> k \in {6, 12, 18}
        /\ Plan[k].do = "load" => Plan[k].on \in Table /\ k = LoadAt(Plan[k].on)
        /\ Plan[k].do = "merge" => Plan[k].on \in Table /\ k = MergeAt(Plan[k].on)
        /\ Plan[k].do = "reset" => Plan[k].on \in Table
        /\ Plan[k].do = "record" => Plan[k].on \in {"V3", "V4", "V5"} /\ k = RecordAt(Plan[k].on)
        /\ \A t \in Table : /\ Plan[k] = Load(t) <=> k = LoadAt(t)
                            /\ Plan[k] = Merge(t) <=> k = MergeAt(t)
                            /\ Plan[k] = Commit(VersionOf(t)) <=> k = CommitAt(t)
        /\ \A v \in {"V3", "V4", "V5"} : Plan[k] = Record(v) <=> k = RecordAt(v)
<1> DEFINE Of(k, do, on) == Plan[k].do = do /\ Plan[k].on = on
<1>1. /\ Plan[1].do = "truncate"
      /\ Of(2, "load", "tb_user") /\ Of(3, "load", "tb_shop")
      /\ Of(4, "load", "tb_voucher") /\ Of(5, "load", "tb_blog") /\ Of(6, "record", "V3")
      /\ Of(7, "merge", "tb_user") /\ Of(8, "merge", "tb_shop") /\ Of(9, "commit", "V4")
      /\ Of(10, "reset", "tb_user") /\ Of(11, "reset", "tb_shop") /\ Of(12, "record", "V4")
      /\ Of(13, "merge", "tb_voucher") /\ Of(14, "merge", "tb_blog") /\ Of(15, "commit", "V5")
      /\ Of(16, "reset", "tb_voucher") /\ Of(17, "reset", "tb_blog") /\ Of(18, "record", "V5")
  BY PlanSteps DEF Load, Merge, Commit, Reset, Record
<1>2. \A k \in 1 .. 18 :
        \/ k = 1 \/ k = 2 \/ k = 3 \/ k = 4 \/ k = 5 \/ k = 6 \/ k = 7 \/ k = 8 \/ k = 9
        \/ k = 10 \/ k = 11 \/ k = 12 \/ k = 13 \/ k = 14 \/ k = 15 \/ k = 16 \/ k = 17 \/ k = 18
  OBVIOUS
<1>3. \A k \in 1 .. 18 :
        /\ Plan[k].do = "truncate" <=> k = 1
        /\ Plan[k].do = "load" <=> k \in {2, 3, 4, 5}
        /\ Plan[k].do = "merge" <=> k \in {7, 8, 13, 14}
        /\ Plan[k].do = "commit" <=> k \in {9, 15}
        /\ Plan[k].do = "reset" <=> k \in {10, 11, 16, 17}
        /\ Plan[k].do = "record" <=> k \in {6, 12, 18}
  BY <1>1, <1>2
<1>4. \A k \in 1 .. 18 :
        /\ Plan[k].do = "load" => Plan[k].on \in Table /\ k = LoadAt(Plan[k].on)
        /\ Plan[k].do = "merge" => Plan[k].on \in Table /\ k = MergeAt(Plan[k].on)
        /\ Plan[k].do = "reset" => Plan[k].on \in Table
        /\ Plan[k].do = "record" => Plan[k].on \in {"V3", "V4", "V5"} /\ k = RecordAt(Plan[k].on)
  <2>1. /\ LoadAt("tb_user") = 2 /\ LoadAt("tb_shop") = 3
        /\ LoadAt("tb_voucher") = 4 /\ LoadAt("tb_blog") = 5
    BY DEF LoadAt
  <2>2. /\ MergeAt("tb_user") = 7 /\ MergeAt("tb_shop") = 8
        /\ MergeAt("tb_voucher") = 13 /\ MergeAt("tb_blog") = 14
    BY DEF MergeAt
  <2>3. RecordAt("V3") = 6 /\ RecordAt("V4") = 12 /\ RecordAt("V5") = 18
    BY DEF RecordAt
  <2> TAKE k \in 1 .. 18
  <2>4. Plan[k].do = "load" => Plan[k].on \in Table /\ k = LoadAt(Plan[k].on)
    <3>1. /\ Plan[2].on = "tb_user" /\ Plan[3].on = "tb_shop"
          /\ Plan[4].on = "tb_voucher" /\ Plan[5].on = "tb_blog"
      BY <1>1
    <3>2. Plan[k].do = "load" => k = 2 \/ k = 3 \/ k = 4 \/ k = 5
      BY <1>3
    <3> QED
      BY <2>1, <3>1, <3>2 DEF Table
  <2>5. Plan[k].do = "merge" => Plan[k].on \in Table /\ k = MergeAt(Plan[k].on)
    <3>1. /\ Plan[7].on = "tb_user" /\ Plan[8].on = "tb_shop"
          /\ Plan[13].on = "tb_voucher" /\ Plan[14].on = "tb_blog"
      BY <1>1
    <3>2. Plan[k].do = "merge" => k = 7 \/ k = 8 \/ k = 13 \/ k = 14
      BY <1>3
    <3> QED
      BY <2>2, <3>1, <3>2 DEF Table
  <2>6. Plan[k].do = "reset" => Plan[k].on \in Table
    <3>1. /\ Plan[10].on = "tb_user" /\ Plan[11].on = "tb_shop"
          /\ Plan[16].on = "tb_voucher" /\ Plan[17].on = "tb_blog"
      BY <1>1
    <3>2. Plan[k].do = "reset" => k = 10 \/ k = 11 \/ k = 16 \/ k = 17
      BY <1>3
    <3> QED
      BY <3>1, <3>2 DEF Table
  <2>7. Plan[k].do = "record" => Plan[k].on \in {"V3", "V4", "V5"} /\ k = RecordAt(Plan[k].on)
    <3>1. Plan[6].on = "V3" /\ Plan[12].on = "V4" /\ Plan[18].on = "V5"
      BY <1>1
    <3>2. Plan[k].do = "record" => k = 6 \/ k = 12 \/ k = 18
      BY <1>3
    <3> QED
      BY <2>3, <3>1, <3>2
  <2> QED
    BY <2>4, <2>5, <2>6, <2>7
<1>5. \A k \in 1 .. 18 : Plan[k] = V3[1] <=> k = 1
  BY <1>3, PlanSteps
<1>6. ASSUME NEW t \in Table, NEW k \in 1 .. 18
      PROVE  /\ Plan[k] = Load(t) <=> k = LoadAt(t)
             /\ Plan[k] = Merge(t) <=> k = MergeAt(t)
             /\ Plan[k] = Commit(VersionOf(t)) <=> k = CommitAt(t)
  <2>1. /\ Plan[LoadAt(t)] = Load(t) /\ Plan[MergeAt(t)] = Merge(t)
        /\ Plan[CommitAt(t)] = Commit(VersionOf(t))
    BY PlanSteps DEF Table, LoadAt, MergeAt, CommitAt, VersionOf
  <2>2. /\ Plan[k] = Load(t) => Plan[k].do = "load" /\ Plan[k].on = t
        /\ Plan[k] = Merge(t) => Plan[k].do = "merge" /\ Plan[k].on = t
        /\ Plan[k] = Commit(VersionOf(t)) => Plan[k].do = "commit" /\ Plan[k].on = VersionOf(t)
    BY DEF Load, Merge, Commit
  <2>3. Plan[k] = Commit(VersionOf(t)) => k = CommitAt(t)
    BY <1>1, <1>3, <2>2 DEF CommitAt, VersionOf
  <2> QED
    BY <1>4, <2>1, <2>2, <2>3
<1>7. ASSUME NEW v \in {"V3", "V4", "V5"}, NEW k \in 1 .. 18
      PROVE  Plan[k] = Record(v) <=> k = RecordAt(v)
  <2>1. Plan[RecordAt(v)] = Record(v)
    BY PlanSteps DEF RecordAt
  <2>2. Plan[k] = Record(v) => Plan[k].do = "record" /\ Plan[k].on = v
    BY DEF Record
  <2> QED
    BY <1>4, <2>1, <2>2
<1> HIDE DEF Of
<1>8. \A k \in 1 .. 18 :
        \A t \in Table : /\ Plan[k] = Load(t) <=> k = LoadAt(t)
                         /\ Plan[k] = Merge(t) <=> k = MergeAt(t)
                         /\ Plan[k] = Commit(VersionOf(t)) <=> k = CommitAt(t)
  BY <1>6
<1>9. \A k \in 1 .. 18 : \A v \in {"V3", "V4", "V5"} : Plan[k] = Record(v) <=> k = RecordAt(v)
  BY <1>7
<1> QED
  BY SMTT(30), <1>3, <1>4, <1>5, <1>8, <1>9

LEMMA PlanIs ==
    /\ Len(V3) = 6 /\ Len(V3 \o V4) = 12 /\ Len(Plan) = 18
    /\ \A k \in 1 .. 18 :
        /\ Plan[k].do \in {"load", "merge", "reset"} => Plan[k].on \in Table
        /\ Plan[k].do = "record" => Plan[k].on \in {"V3", "V4", "V5"}
        /\ Plan[k].do = "merge" => k < 18 /\ Plan[k + 1].do \in {"merge", "commit"}
<1>1. ASSUME NEW k \in 1 .. 18, Plan[k].do = "merge"
      PROVE  k < 18 /\ Plan[k + 1].do \in {"merge", "commit"}
  <2>1. k \in {7, 8, 13, 14}
    BY <1>1, PlanAt
  <2>2. k + 1 \in 1 .. 18 /\ k + 1 \in {8, 9, 14, 15}
    BY <2>1
  <2> QED
    BY <2>1, <2>2, PlanAt
<1> QED
  BY <1>1, PlanAt, PlanSteps

----------------------------------------------------------------------------
(* MAX(id) *)

LEMMA MaxOfBounded ==
    ASSUME NEW S \in SUBSET Nat, S # {}, NEW n \in Nat, \A x \in S : x < n
    PROVE  Max(S) \in S /\ \A x \in S : x <= Max(S)
<1> DEFINE Bounds == {u \in Nat : \A x \in S : x <= u}
<1>1. n \in Bounds /\ Bounds \subseteq Nat
  OBVIOUS
<1>2. PICK m \in Bounds : \A y \in Bounds : ~ (<<y, m>> \in OpToRel(<, Nat))
  BY <1>1, NatLessThanWellFounded, WFMin
<1>3. \A y \in Bounds : ~ (y < m)
  BY <1>2 DEF OpToRel
<1>4. m \in S
  <2>1. SUFFICES ASSUME m \notin S PROVE FALSE
    OBVIOUS
  <2>2. m \in Nat /\ m # 0
    <3>1. PICK x \in S : x <= m /\ x # m
      BY <2>1
    <3> QED
      BY <3>1
  <2>3. m - 1 \in Bounds
    BY <2>1, <2>2
  <2> QED
    BY <1>3, <2>2, <2>3
<1>5. \A x \in S : m >= x
  OBVIOUS
<1> QED
  BY <1>4, <1>5 DEF Max

----------------------------------------------------------------------------
(* One row *)

Tables == SUBSET Row

Keeps(tbl, new) == \A b \in tbl : \E c \in new : c.id = b.id /\ c.key = b.key

\* The columns ON DUPLICATE KEY UPDATE sets, all of them from the last line to set them.
LEMMA TakenIs ==
    ASSUME NEW b \in Row, NEW s \in Line
    PROVE  /\ Taken(b, s) \in Row /\ Taken(b, s).id = b.id /\ Taken(b, s).key = b.key
           /\ \A r \in Line : Taken(Taken(b, s), r) = Taken(b, r)
<1>1. ASSUME NEW r \in Line
      PROVE  LikedOf(r) \in Likes /\ r.text \in Text
  BY DEF LikedOf, Line, Likes
<1>2. LikedOf(s) \in Likes /\ s.text \in Text
  BY <1>1
<1>3. \A r \in Line : LikedOf(r) \in Likes /\ r.text \in Text
  BY <1>1
<1>4. \A r \in Line : Taken(Taken(b, s), r) = Taken(b, r)
  BY <1>2, <1>3 DEF Taken, Row
<1> QED
  BY <1>2, <1>4 DEF Taken, Row

LEMMA NewRowIs ==
    ASSUME NEW id \in Nat \ {0}, NEW s \in Line, s.key # Null
    PROVE  /\ NewRow(id, s) \in Row /\ NewRow(id, s).id = id /\ NewRow(id, s).key = s.key
           /\ Taken(NewRow(id, s), s) = NewRow(id, s)
<1>1. s.key \in Key /\ s.text \in Text /\ LikedOf(s) \in Likes
  BY DEF LikedOf, Line, Likes
<1>2. /\ NewRow(id, s) \in Row /\ NewRow(id, s).id = id /\ NewRow(id, s).key = s.key
      /\ NewRow(id, s).text = s.text /\ NewRow(id, s).liked = LikedOf(s)
  BY <1>1 DEF NewRow, Row
<1>3. \A r \in Row : [r EXCEPT !.text = r.text, !.liked = r.liked] = r
  BY DEF Row
<1> QED
  BY <1>2, <1>3 DEF Taken

LEMMA UpdateKeeps ==
    ASSUME NEW tbl \in Tables, OneRowPerKey(tbl), NEW b \in tbl, NEW s \in Line
    PROVE  /\ Update(tbl, b, s) \in Tables /\ OneRowPerKey(Update(tbl, b, s))
           /\ Keeps(tbl, Update(tbl, b, s)) /\ Keeps(Update(tbl, b, s), tbl)
<1> DEFINE c == Taken(b, s)
<1>1. b \in Row
  BY DEF Tables
<1>2. c \in Row /\ c.id = b.id /\ c.key = b.key
  BY <1>1, TakenIs
<1> HIDE DEF c
<1>3. Update(tbl, b, s) = (tbl \ {b}) \cup {c}
  BY DEF Update, c
<1>4. Keeps(tbl, Update(tbl, b, s)) /\ Keeps(Update(tbl, b, s), tbl)
  BY <1>2, <1>3 DEF Keeps
<1>5. OneRowPerKey(Update(tbl, b, s))
  BY <1>2, <1>3 DEF OneRowPerKey
<1>6. Update(tbl, b, s) \in Tables
  BY <1>2, <1>3 DEF Tables
<1> QED
  BY <1>4, <1>5, <1>6

\* A line of the SELECT adds its row, or a row with its id or its key takes the
\* other columns; either way both keys hold and no identity is lost.
LEMMA UpsertKeeps ==
    ASSUME NEW tbl \in Tables, OneRowPerKey(tbl), NEW id \in Nat \ {0}, NEW s \in Line, s.key # Null
    PROVE  /\ Upsert(tbl, id, s) \in Tables /\ OneRowPerKey(Upsert(tbl, id, s))
           /\ Keeps(tbl, Upsert(tbl, id, s))
           /\ \A c \in Upsert(tbl, id, s) : c.id = id \/ \E b \in tbl : b.id = c.id
<1>1. CASE \E b \in tbl : b.id = id
  <2> DEFINE found == CHOOSE b \in tbl : b.id = id
  <2>1. found \in tbl
    BY <1>1
  <2>2. Upsert(tbl, id, s) = Update(tbl, found, s)
    BY <1>1 DEF Upsert
  <2> HIDE DEF found
  <2> QED
    BY <2>1, <2>2, UpdateKeeps DEF Keeps
<1>2. CASE (\A b \in tbl : b.id # id) /\ (\E b \in tbl : b.key = s.key)
  <2> DEFINE found == CHOOSE b \in tbl : b.key = s.key
  <2>1. found \in tbl
    BY <1>2
  <2>2. Upsert(tbl, id, s) = Update(tbl, found, s)
    BY <1>2 DEF Upsert
  <2> HIDE DEF found
  <2> QED
    BY <2>1, <2>2, UpdateKeeps DEF Keeps
<1>3. CASE \A b \in tbl : b.id # id /\ b.key # s.key
  <2> DEFINE new == NewRow(id, s)
  <2>2. new \in Row /\ new.id = id /\ new.key = s.key
    BY NewRowIs
  <2>3. Upsert(tbl, id, s) = tbl \cup {new}
    BY <1>3 DEF Upsert, Insert
  <2> HIDE DEF new
  <2>4. OneRowPerKey(tbl \cup {new})
    BY <1>3, <2>2 DEF OneRowPerKey
  <2> QED
    BY <2>2, <2>3, <2>4 DEF Tables, Keeps
<1> QED
  BY <1>1, <1>2, <1>3

----------------------------------------------------------------------------
(* The merge by natural key *)

LEMMA MinOfNats ==
    ASSUME NEW S \in SUBSET Nat, S # {}
    PROVE  Min(S) \in S /\ \A x \in S : Min(S) <= x
<1>1. PICK m \in S : \A y \in S : ~ (<<y, m>> \in OpToRel(<, Nat))
  BY NatLessThanWellFounded, WFMin
<1>2. \A y \in S : ~ (y < m)
  BY <1>1 DEF OpToRel
<1>3. \A y \in S : m <= y
  BY <1>2
<1> QED
  BY <1>3 DEF Min

\* The first line of a natural key gives the new row its id, wherever the merge is.
LEMMA FirstOfIs ==
    ASSUME NEW lines \in Seq(Line), NEW n \in 0 .. Len(lines), NEW key \in Named(lines, n)
    PROVE  \E i \in 1 .. n : /\ FirstOf(lines, key) = lines[i] /\ lines[i].key = key
                             /\ \A j \in 1 .. Len(lines) : j < i => lines[j].key # key
<1> DEFINE S == {i \in DOMAIN lines : lines[i].key = key}  m == Min(S)
<1>1. PICK k \in 1 .. n : lines[k].key = key
  BY DEF Named
<1>2. DOMAIN lines = 1 .. Len(lines) /\ Len(lines) \in Nat
  OBVIOUS
<1>3. S \in SUBSET Nat /\ \A i \in 1 .. Len(lines) : i \in S <=> lines[i].key = key
  BY <1>2
<1>4. FirstOf(lines, key) = lines[m] /\ S \subseteq 1 .. Len(lines)
  BY <1>2 DEF FirstOf
<1> HIDE DEF S
<1>5. m \in S /\ \A x \in S : m <= x
  BY <1>1, <1>2, <1>3, MinOfNats
<1> HIDE DEF m
<1>6. m \in 1 .. n /\ lines[m].key = key
  BY <1>1, <1>2, <1>3, <1>4, <1>5
<1>7. ASSUME NEW j \in 1 .. Len(lines), j < m
      PROVE  lines[j].key # key
  BY <1>3, <1>5, <1>6, <1>7
<1> QED
  BY <1>4, <1>6, <1>7

\* The last line of a natural key so far gives the row everything else.
LEMMA LastOfIs ==
    ASSUME NEW lines \in Seq(Line), NEW n \in 0 .. Len(lines), NEW key \in Named(lines, n)
    PROVE  \E i \in 1 .. n : /\ LastOf(lines, n, key) = lines[i] /\ lines[i].key = key
                             /\ \A j \in 1 .. n : j > i => lines[j].key # key
<1> DEFINE S == {i \in 1 .. n : lines[i].key = key}
<1>1. PICK k \in 1 .. n : lines[k].key = key
  BY DEF Named
<1>2. k \in S /\ S \in SUBSET Nat /\ n + 1 \in Nat /\ \A x \in S : x < n + 1
  BY <1>1
<1>3. Max(S) \in S /\ \A x \in S : x <= Max(S)
  BY <1>2, MaxOfBounded
<1>4. Max(S) \in 1 .. n /\ lines[Max(S)].key = key
  BY <1>3
<1>5. LastOf(lines, n, key) = lines[Max(S)]
  BY DEF LastOf
<1>6. \A j \in 1 .. n : j > Max(S) => lines[j].key # key
  BY <1>3, <1>4
<1> HIDE DEF S
<1> QED
  BY <1>4, <1>5, <1>6

\* What one more line adds to the natural keys, and to what the lines say of a key.
LEMMA NextLine ==
    ASSUME NEW lines \in Seq(Line), NEW n \in 0 .. Len(lines), n < Len(lines)
    PROVE  LET s == lines[n + 1]
           IN  /\ s \in Line
               /\ Named(lines, n + 1) = Named(lines, n) \cup ({s.key} \ {Null})
               /\ s.key # Null => LastOf(lines, n + 1, s.key) = s
               /\ s.key # Null /\ s.key \notin Named(lines, n) => FirstOf(lines, s.key) = s
               /\ \A key \in Named(lines, n) :
                    key # s.key => LastOf(lines, n + 1, key) = LastOf(lines, n, key)
<1> DEFINE s == lines[n + 1]
<1>1. n + 1 \in 1 .. Len(lines) /\ s \in Line /\ n + 1 \in 0 .. Len(lines) /\ n \in Nat
  OBVIOUS
<1>2. \A i : i \in 1 .. n + 1 <=> i \in 1 .. n \/ i = n + 1
  BY <1>1
<1>3. Named(lines, n + 1) = Named(lines, n) \cup ({s.key} \ {Null})
  BY <1>2 DEF Named
<1>4. ASSUME s.key # Null PROVE LastOf(lines, n + 1, s.key) = s
  <2>1. s.key \in Named(lines, n + 1)
    BY <1>3, <1>4
  <2>2. PICK i \in 1 .. n + 1 : /\ LastOf(lines, n + 1, s.key) = lines[i]
                                /\ \A j \in 1 .. n + 1 : j > i => lines[j].key # s.key
    BY <1>1, <2>1, LastOfIs
  <2>3. i = n + 1
    BY <1>1, <2>2
  <2> QED
    BY <2>2, <2>3
<1>5. ASSUME s.key # Null, s.key \notin Named(lines, n) PROVE FirstOf(lines, s.key) = s
  <2>1. s.key \in Named(lines, n + 1)
    BY <1>3, <1>5
  <2>2. PICK i \in 1 .. n + 1 : FirstOf(lines, s.key) = lines[i] /\ lines[i].key = s.key
    BY <1>1, <2>1, FirstOfIs
  <2>3. i \notin 1 .. n
    BY <1>5, <2>2 DEF Named
  <2> QED
    BY <1>2, <2>2, <2>3
<1>6. ASSUME NEW key, key # s.key
      PROVE  LastOf(lines, n + 1, key) = LastOf(lines, n, key)
  <2>1. {i \in 1 .. n + 1 : lines[i].key = key} = {i \in 1 .. n : lines[i].key = key}
    BY <1>2, <1>6
  <2> QED
    BY <2>1 DEF LastOf
<1> QED
  BY <1>1, <1>3, <1>4, <1>5, <1>6

\* A row keeps its id and its natural key, and the lines of other keys do not touch it.
LEMMA SettledIs ==
    ASSUME NEW b \in Row, NEW lines \in Seq(Line), NEW n \in 0 .. Len(lines)
    PROVE  /\ Settled(b, lines, n) \in Row
           /\ Settled(b, lines, n).id = b.id /\ Settled(b, lines, n).key = b.key
           /\ Settled(Settled(b, lines, n), lines, n) = Settled(b, lines, n)
<1>1. CASE b.key \in Named(lines, n)
  <2> DEFINE r == LastOf(lines, n, b.key)  c == Taken(b, r)
  <2>1. r \in Line
    BY <1>1, LastOfIs
  <2> HIDE DEF r
  <2>2. c \in Row /\ c.id = b.id /\ c.key = b.key /\ Taken(c, r) = c
    BY <2>1, TakenIs
  <2>3. Settled(b, lines, n) = c
    BY <1>1 DEF Settled, r
  <2> HIDE DEF c
  <2>4. Settled(c, lines, n) = Taken(c, r)
    BY <1>1, <2>2 DEF Settled, r
  <2> QED
    BY <2>2, <2>3, <2>4
<1>2. CASE b.key \notin Named(lines, n)
  BY <1>2 DEF Settled
<1> QED
  BY <1>1, <1>2

LEMMA SettledNext ==
    ASSUME NEW b \in Row, NEW lines \in Seq(Line), NEW n \in 0 .. Len(lines), n < Len(lines)
    PROVE  Settled(b, lines, n + 1) =
                IF b.key = lines[n + 1].key THEN Taken(Settled(b, lines, n), lines[n + 1])
                                            ELSE Settled(b, lines, n)
<1> DEFINE s == lines[n + 1]
<1>1. /\ s \in Line
      /\ Named(lines, n + 1) = Named(lines, n) \cup ({s.key} \ {Null})
      /\ s.key # Null => LastOf(lines, n + 1, s.key) = s
      /\ \A key \in Named(lines, n) :
            key # s.key => LastOf(lines, n + 1, key) = LastOf(lines, n, key)
  BY NextLine
<1> HIDE DEF s
<1>2. b.key \in Key /\ b.key # Null
  BY DEF Row
<1>3. CASE b.key = s.key
  <2>1. Settled(b, lines, n + 1) = Taken(b, s)
    BY <1>1, <1>2, <1>3 DEF Settled
  <2>2. Taken(Settled(b, lines, n), s) = Taken(b, s)
    <3>1. CASE b.key \in Named(lines, n)
      <4>1. LastOf(lines, n, b.key) \in Line
        BY <3>1, LastOfIs
      <4> QED
        BY <1>1, <3>1, <4>1, TakenIs DEF Settled
    <3>2. CASE b.key \notin Named(lines, n)
      BY <3>2 DEF Settled
    <3> QED
      BY <3>1, <3>2
  <2> QED
    BY <1>3, <2>1, <2>2 DEF s
<1>4. CASE b.key # s.key
  <2>1. b.key \in Named(lines, n + 1) <=> b.key \in Named(lines, n)
    BY <1>1, <1>4
  <2> QED
    BY <1>1, <1>4, <2>1 DEF Settled, s
<1> QED
  BY <1>3, <1>4

\* The rows of a merge so far: those that were there, and one for every line whose
\* natural key was not.
LEMMA GatheredIs ==
    ASSUME NEW tbl \in Tables, NEW lines \in Seq(Line), NoClash(tbl, lines),
           NEW n \in 0 .. Len(lines)
    PROVE  /\ Gathered(tbl, lines, n) \in Tables
           /\ \A b \in Gathered(tbl, lines, n) :
                b \in tbl \/ \E i \in 1 .. n : /\ lines[i].key # Null
                                               /\ b = NewRow(lines[i].id, lines[i])
                                               /\ b.id = lines[i].id /\ b.key = lines[i].key
           /\ \A key \in Named(lines, n) : \E b \in Gathered(tbl, lines, n) : b.key = key
<1> DEFINE new(key) == NewRow(FirstOf(lines, key).id, FirstOf(lines, key))
<1>1. ASSUME NEW key \in Named(lines, n)
      PROVE  /\ new(key) \in Row /\ new(key).key = key
             /\ \E i \in 1 .. n : /\ lines[i].key # Null
                                  /\ new(key) = NewRow(lines[i].id, lines[i])
                                  /\ new(key).id = lines[i].id /\ new(key).key = lines[i].key
  <2>1. PICK i \in 1 .. n : FirstOf(lines, key) = lines[i] /\ lines[i].key = key
    BY FirstOfIs
  <2>2. key # Null /\ i \in DOMAIN lines /\ lines[i] \in Line
    BY DEF Named
  <2>3. lines[i].id # Null
    BY <2>1, <2>2 DEF NoClash
  <2>4. lines[i].id \in Nat \ {0}
    BY <2>2, <2>3 DEF Line
  <2>5. /\ new(key) \in Row /\ new(key).id = lines[i].id /\ new(key).key = lines[i].key
        /\ new(key) = NewRow(lines[i].id, lines[i])
    BY <2>1, <2>2, <2>4, NewRowIs
  <2> QED
    BY <2>1, <2>2, <2>5
<1>2. Gathered(tbl, lines, n) = tbl \cup {new(key) : key \in Named(lines, n) \ {b.key : b \in tbl}}
  BY DEF Gathered
<1> HIDE DEF new
<1>3. Gathered(tbl, lines, n) \in Tables
  BY <1>1, <1>2 DEF Tables
<1>4. ASSUME NEW key \in Named(lines, n)
      PROVE  \E b \in Gathered(tbl, lines, n) : b.key = key
  <2>1. CASE key \in {b.key : b \in tbl}
    BY <1>2, <2>1
  <2>2. CASE key \notin {b.key : b \in tbl}
    BY <1>1, <1>2, <2>2
  <2> QED
    BY <2>1, <2>2
<1> QED
  BY <1>1, <1>2, <1>3, <1>4

LEMMA MergedIs ==
    ASSUME NEW tbl \in Tables, NEW lines \in Seq(Line), NoClash(tbl, lines),
           NEW n \in 0 .. Len(lines)
    PROVE  /\ Merged(tbl, lines, n) \in Tables
           /\ \A c \in Merged(tbl, lines, n) :
                \E b \in Gathered(tbl, lines, n) : /\ c = Settled(b, lines, n)
                                                   /\ c.id = b.id /\ c.key = b.key
           /\ \A b \in Gathered(tbl, lines, n) : Settled(b, lines, n) \in Merged(tbl, lines, n)
<1>1. \A b \in Gathered(tbl, lines, n) : b \in Row
  BY GatheredIs DEF Tables
<1> QED
  BY <1>1, SettledIs DEF Merged, Tables

\* No line read yet.
LEMMA MergedOfNone ==
    ASSUME NEW tbl, NEW lines
    PROVE  Merged(tbl, lines, 0) = tbl
<1>1. Named(lines, 0) = {}
  BY DEF Named
<1> QED
  BY <1>1 DEF Merged, Gathered, Settled

\* Upserting one more line under both unique keys is what merging by the natural key
\* alone makes of one more line.  Were the line's id somebody else's, it would not be.
LEMMA MergeNextLine ==
    ASSUME NEW tbl \in Tables, NEW lines \in Seq(Line), NoClash(tbl, lines),
           NEW n \in 0 .. Len(lines), n < Len(lines),
           OneRowPerKey(Merged(tbl, lines, n))
    PROVE  Merged(tbl, lines, n + 1) =
                IF lines[n + 1].key = Null THEN Merged(tbl, lines, n)
                ELSE Upsert(Merged(tbl, lines, n), lines[n + 1].id, lines[n + 1])
<1> DEFINE s == lines[n + 1]
           G == Gathered(tbl, lines, n)       M == Merged(tbl, lines, n)
           H == Gathered(tbl, lines, n + 1)   N == Merged(tbl, lines, n + 1)
           known == {b.key : b \in tbl}
           new(key) == NewRow(FirstOf(lines, key).id, FirstOf(lines, key))
<1>1. n \in Nat /\ n + 1 \in 1 .. Len(lines) /\ n + 1 \in DOMAIN lines /\ n + 1 \in 0 .. Len(lines)
  OBVIOUS
<1>2. /\ s \in Line
      /\ Named(lines, n + 1) = Named(lines, n) \cup ({s.key} \ {Null})
      /\ s.key # Null /\ s.key \notin Named(lines, n) => FirstOf(lines, s.key) = s
  BY NextLine
<1>3. /\ G = tbl \cup {new(key) : key \in Named(lines, n) \ known}
      /\ H = tbl \cup {new(key) : key \in Named(lines, n + 1) \ known}
      /\ N = {Settled(b, lines, n + 1) : b \in H}
      /\ M = {Settled(b, lines, n) : b \in G}
  BY DEF Gathered, Merged
<1>4. /\ G \in Tables /\ H \in Tables /\ M \in Tables
      /\ \A b \in G : b \in tbl \/ \E i \in 1 .. n : /\ lines[i].key # Null
                                                     /\ b.id = lines[i].id /\ b.key = lines[i].key
      /\ \A key \in Named(lines, n) : \E b \in G : b.key = key
      /\ \A c \in M : \E b \in G : c = Settled(b, lines, n) /\ c.id = b.id /\ c.key = b.key
  BY <1>1, GatheredIs, MergedIs
<1>5. \A b \in Row : Settled(b, lines, n + 1) = IF b.key = s.key THEN Taken(Settled(b, lines, n), s)
                                                                ELSE Settled(b, lines, n)
  BY SettledNext
<1>6. CASE s.key = Null
  <2>1. Named(lines, n + 1) = Named(lines, n)
    BY <1>2, <1>6
  <2>2. G = H
    BY <1>3, <2>1
  <2>3. \A b \in G : b \in Row /\ b.key # s.key
    BY <1>4, <1>6 DEF Tables, Row
  <2>4. \A b \in G : Settled(b, lines, n + 1) = Settled(b, lines, n)
    BY <1>5, <2>3
  <2> QED
    BY <1>3, <1>6, <2>2, <2>4
<1>7. CASE s.key # Null
  <2>1. s.id # Null /\ s.id \in Nat \ {0}
    BY <1>1, <1>2, <1>7 DEF NoClash, Line
  <2>2. ASSUME NEW b \in G, b.id = s.id
        PROVE  b.key = s.key
    <3>1. CASE b \in tbl
      BY <1>1, <1>7, <2>2, <3>1 DEF NoClash
    <3>2. CASE b \notin tbl
      <4>1. PICK i \in 1 .. n : lines[i].key # Null /\ lines[i].id = s.id
        BY <1>4, <2>2, <3>2
      <4>2. i \in DOMAIN lines /\ i # n + 1
        BY <1>1
      <4> QED
        BY <1>1, <1>7, <4>1, <4>2 DEF NoClash
    <3> QED
      BY <3>1, <3>2
  <2>3. \A c \in M : c.id = s.id => c.key = s.key
    BY <1>4, <2>2
  <2>4. CASE \E b \in G : b.key = s.key
    <3>1. PICK b \in G : b.key = s.key
      BY <2>4
    <3> DEFINE found == Settled(b, lines, n)
    <3>2. b \in Row /\ found \in M /\ found.key = s.key
      BY <1>3, <1>4, <3>1, SettledIs DEF Tables
    <3>3. Upsert(M, s.id, s) = Update(M, found, s)
      <4>1. \A c \in M : c.key = s.key => c = found
        BY <3>2 DEF OneRowPerKey
      <4>2. CASE \E c \in M : c.id = s.id
        <5>1. \A c \in M : c.id = s.id => c = found
          BY <2>3, <4>1
        <5>2. (CHOOSE c \in M : c.id = s.id) = found
          BY <4>2, <5>1
        <5> QED
          BY <4>2, <5>2 DEF Upsert
      <4>3. CASE \A c \in M : c.id # s.id
        <5>1. (CHOOSE c \in M : c.key = s.key) = found
          BY <3>2, <4>1
        <5> QED
          BY <3>2, <4>3, <5>1 DEF Upsert
      <4> QED
        BY <4>2, <4>3
    <3>4. H = G
      <4>1. s.key \in known \/ s.key \in Named(lines, n)
        BY <1>4, <3>1 DEF Named
      <4>2. Named(lines, n + 1) \ known = Named(lines, n) \ known
        BY <1>2, <4>1
      <4> QED
        BY <1>3, <4>2
    <3>5. N = {Settled(c, lines, n + 1) : c \in G}
      BY <1>3, <3>4
    <3>6. \A c \in G : Settled(c, lines, n + 1) =
                            IF c.key = s.key THEN Taken(found, s) ELSE Settled(c, lines, n)
      <4>1. ASSUME NEW c \in G, c.key = s.key
            PROVE  Settled(c, lines, n) = found
        <5>1. c \in Row /\ Settled(c, lines, n) \in M /\ Settled(c, lines, n).key = s.key
          BY <1>3, <1>4, <4>1, SettledIs DEF Tables
        <5> QED
          BY <3>2, <5>1 DEF OneRowPerKey
      <4>2. \A c \in G : c \in Row
        BY <1>4 DEF Tables
      <4> QED
        BY <1>5, <4>1, <4>2
    <3>7. \A c \in G : c.key # s.key <=> Settled(c, lines, n) # found
      <4>1. ASSUME NEW c \in G
            PROVE  /\ c \in Row /\ Settled(c, lines, n).key = c.key
                   /\ Settled(c, lines, n) \in M
        BY ZenonT(30), <1>3, <1>4, SettledIs DEF Tables
      <4> QED
        BY <3>2, <4>1 DEF OneRowPerKey
    <3> HIDE DEF found, G, H, M, N, s
    <3>8. N = (M \ {found}) \cup {Taken(found, s)}
      BY ZenonT(30), <1>3, <3>1, <3>5, <3>6, <3>7
    <3> QED
      BY <1>7, <3>3, <3>8 DEF Update, N, M, s
  <2>5. CASE \A b \in G : b.key # s.key
    <3> DEFINE row == NewRow(s.id, s)
    <3>1. \A c \in M : c.key # s.key /\ c.id # s.id
      BY <1>4, <2>3, <2>5
    <3>2. Upsert(M, s.id, s) = M \cup {row}
      BY <3>1 DEF Upsert, Insert
    <3>3. s.key \notin Named(lines, n) /\ s.key \notin known
      BY <1>3, <1>4, <2>5
    <3>4. new(s.key) = row
      BY <1>2, <1>7, <3>3
    <3>5. H = G \cup {row}
      <4>1. Named(lines, n + 1) \ known = (Named(lines, n) \ known) \cup {s.key}
        BY <1>2, <1>7, <3>3
      <4> QED
        BY <1>3, <3>4, <4>1
    <3>6. row \in Row /\ row.key = s.key /\ Taken(row, s) = row
      BY <1>2, <1>7, <2>1, NewRowIs
    <3>7. Settled(row, lines, n + 1) = row
      <4>1. Settled(row, lines, n) = row
        BY <3>3, <3>6 DEF Settled
      <4> QED
        BY <1>5, <3>6, <4>1
    <3>8. \A c \in G : Settled(c, lines, n + 1) = Settled(c, lines, n)
      BY <1>4, <1>5, <2>5 DEF Tables
    <3> HIDE DEF row, G, H, M, N, s
    <3>9. N = M \cup {row}
      BY <1>3, <3>5, <3>7, <3>8
    <3> QED
      BY <1>7, <3>2, <3>9 DEF N, M, s
  <2> QED
    BY <2>4, <2>5
<1> QED
  BY <1>6, <1>7

\* DESIGN.md, "Idempotent": a file that clashes with nothing clashes with nothing once
\* it is merged, and merging it again, in the next start or the next import, is a no-op.
THEOREM MergeAgain ==
    ASSUME NEW tbl \in Tables, NEW lines \in Seq(Line), NoClash(tbl, lines)
    PROVE  LET whole == Merged(tbl, lines, Len(lines))
           IN  /\ whole \in Tables /\ NoClash(whole, lines)
               /\ Merged(whole, lines, Len(lines)) = whole
<1> DEFINE n == Len(lines)  G == Gathered(tbl, lines, n)  M == Merged(tbl, lines, n)
<1>1. n \in 0 .. Len(lines) /\ DOMAIN lines = 1 .. n
  OBVIOUS
<1> HIDE DEF n
<1>2. /\ M \in Tables /\ G \in Tables
      /\ \A b \in G : b \in tbl \/ \E i \in 1 .. n : /\ lines[i].key # Null
                                                     /\ b.id = lines[i].id /\ b.key = lines[i].key
      /\ \A key \in Named(lines, n) : \E b \in G : b.key = key
      /\ \A c \in M : \E b \in G : c = Settled(b, lines, n) /\ c.id = b.id /\ c.key = b.key
      /\ \A b \in G : Settled(b, lines, n) \in M
  BY <1>1, GatheredIs, MergedIs
<1>3. NoClash(M, lines)
  <2>1. ASSUME NEW i \in DOMAIN lines, lines[i].key # Null, NEW c \in M, c.id = lines[i].id
        PROVE  c.key = lines[i].key
    <3>1. PICK b \in G : c.id = b.id /\ c.key = b.key
      BY <1>2
    <3>2. CASE b \in tbl
      BY <2>1, <3>1, <3>2 DEF NoClash
    <3>3. CASE b \notin tbl
      <4>1. PICK j \in 1 .. n : /\ lines[j].key # Null
                                /\ b.id = lines[j].id /\ b.key = lines[j].key
        BY <1>2, <3>3
      <4>2. i = j
        BY <1>1, <2>1, <3>1, <4>1 DEF NoClash
      <4> QED
        BY <3>1, <4>1, <4>2
    <3> QED
      BY <3>2, <3>3
  <2> QED
    BY <2>1 DEF NoClash
<1>4. Gathered(M, lines, n) = M
  <2>1. ASSUME NEW key \in Named(lines, n)
        PROVE  \E c \in M : c.key = key
    <3>1. PICK b \in G : b.key = key
      BY <1>2
    <3>2. b \in Row /\ Settled(b, lines, n) \in M
      BY <1>2 DEF Tables
    <3> QED
      BY <1>1, <3>1, <3>2, SettledIs
  <2>2. Named(lines, n) \ {c.key : c \in M} = {}
    BY <2>1
  <2> QED
    BY <2>2 DEF Gathered
<1>5. \A c \in M : Settled(c, lines, n) = c
  BY <1>1, <1>2, SettledIs DEF Tables
<1>6. Merged(M, lines, n) = M
  BY <1>4, <1>5 DEF Merged
<1> QED
  BY <1>2, <1>3, <1>6 DEF n

----------------------------------------------------------------------------
(* The steps *)

LEMMA InitInv == Init => IInv
<1> SUFFICES ASSUME Init PROVE IInv
  OBVIOUS
<1>1. TypeOK
  BY PlanIs DEF Init, TypeOK
<1>2. KeysHold /\ WorkIsCommitted /\ WorkKeepsRows
  BY DEF Init, KeysHold, OneRowPerKey, WorkIsCommitted, WorkKeepsRows
<1> QED
  BY <1>1, <1>2 DEF IInv

\* Where the plan goes on.
LEMMA DoneMoves ==
    ASSUME step \in 1 .. Len(Plan) + 1, ~Serving, Done
    PROVE  /\ step \in 1 .. 18 /\ step' \in 1 .. Len(Plan) + 1 /\ line' \in Nat
           /\ At("merge") => At("merge")' \/ At("commit")'
<1>1. step \in 1 .. 18 /\ step' = step + 1 /\ line' = 0
  BY PlanIs DEF Serving, Done
<1>2. ASSUME At("merge") PROVE At("merge")' \/ At("commit")'
  <2>1. Plan[step].do = "merge"
    BY <1>2 DEF At
  <2>2. step < 18 /\ Plan[step + 1].do \in {"merge", "commit"}
    BY <1>1, <2>1, PlanIs
  <2>3. ~(step' > Len(Plan)) /\ Plan[step'].do \in {"merge", "commit"}
    BY <1>1, <2>2, PlanIs
  <2> QED
    BY <2>3 DEF At, Serving
<1>3. Len(Plan) = 18
  BY PlanIs
<1> QED
  BY <1>1, <1>2, <1>3

\* The table a step is about.
LEMMA OnTyped ==
    ASSUME TypeOK, NEW what \in {"load", "merge", "reset"}, At(what)
    PROVE  step \in 1 .. 18 /\ On \in Table
<1>1. step \in 1 .. 18
  BY PlanIs DEF TypeOK, At, Serving
<1>2. Plan[step].do \in {"load", "merge", "reset"}
  BY DEF At
<1> QED
  BY <1>1, <1>2, PlanIs DEF On

\* Loading, recording and the ends of merges leave the tables alone.
LEMMA QuietStep ==
    ASSUME IInv, Truncate \/ LoadData \/ RecordVersion \/ MergeEnds
    PROVE  IInv'
<1>1. step \in 1 .. Len(Plan) + 1 /\ ~Serving /\ Done
  BY DEF IInv, TypeOK, Truncate, LoadData, RecordVersion, MergeEnds, At
<1>2. UNCHANGED <<rows, work, autoinc, boundVars, before, thanked, file>>
  BY DEF Truncate, LoadData, RecordVersion, MergeEnds
<1>3. stage' \in [Table -> Seq(Line)]
  <2>1. CASE Truncate
    BY <2>1 DEF Truncate
  <2>2. CASE LoadData
    <3>1. On \in Table
      BY <1>1, <2>2, DoneMoves, PlanIs DEF LoadData, At, On
    <3>2. stage[On] \o file[On] \in Seq(Line)
      BY <3>1, ConcatProperties DEF IInv, TypeOK
    <3> QED
      BY <2>2, <3>1, <3>2 DEF LoadData, IInv, TypeOK
  <2>3. CASE RecordVersion \/ MergeEnds
    BY <2>3 DEF RecordVersion, MergeEnds, IInv, TypeOK
  <2> QED
    BY <2>1, <2>2, <2>3
<1>4. recorded' \subseteq {"V3", "V4", "V5"}
  <2>1. CASE RecordVersion
    <3>1. On \in {"V3", "V4", "V5"}
      BY <1>1, <2>1, DoneMoves, PlanIs DEF RecordVersion, At, On
    <3> QED
      BY <2>1, <3>1 DEF RecordVersion, IInv, TypeOK
  <2>2. CASE recorded' = recorded
    BY <2>2 DEF IInv, TypeOK
  <2> QED
    BY <2>1, <2>2 DEF Truncate, LoadData, MergeEnds
<1>5. TypeOK'
  BY <1>1, <1>2, <1>3, <1>4, DoneMoves DEF IInv, TypeOK, boundVars
<1>6. KeysHold' /\ WorkKeepsRows'
  BY <1>2 DEF IInv, KeysHold, WorkKeepsRows
<1>7. WorkIsCommitted'
  <2>1. At("merge") \/ work = rows
    BY DEF IInv, WorkIsCommitted, Truncate, LoadData, RecordVersion, MergeEnds, At
  <2> QED
    BY <1>1, <1>2, <2>1, DoneMoves DEF WorkIsCommitted
<1> QED
  BY <1>5, <1>6, <1>7 DEF IInv

LEMMA MergeRowStep ==
    ASSUME IInv, MergeRow
    PROVE  IInv'
<1> DEFINE t == On  s == stage[On][line + 1]
<1>1. step \in 1 .. 18 /\ t \in Table
  BY OnTyped DEF IInv, MergeRow
<1>2. line + 1 \in 1 .. Len(stage[t]) /\ line + 1 \in Nat /\ stage[t] \in Seq(Line)
  BY <1>1 DEF IInv, TypeOK, MergeRow
<1>3. s \in Line
  BY <1>2
<1>4. /\ work[t] \in Tables /\ OneRowPerKey(work[t]) /\ autoinc[t] \in Nat \ {0}
      /\ \A b \in work[t] : b.id \in Nat
  BY <1>1 DEF IInv, TypeOK, KeysHold, Tables, Row
<1>5. IdOf(t, s) \in Nat \ {0}
  BY <1>3, <1>4 DEF IdOf, Line
<1>6. /\ NextId(autoinc[t], s.id) \in Nat \ {0}
      /\ NextId(autoinc[t], s.id) >= autoinc[t]
      /\ NextId(autoinc[t], s.id) > IdOf(t, s)
  BY <1>3, <1>4 DEF NextId, IdOf, Line
<1>7. CASE s.key = Null
  <2>1. UNCHANGED <<work, autoinc, rows, file, stage, step, recorded, boundVars, before, thanked>>
    BY <1>7 DEF MergeRow
  <2> QED
    BY <1>2, <2>1 DEF MergeRow, IInv, TypeOK, KeysHold, WorkIsCommitted, WorkKeepsRows, At,
                      Serving, boundVars
<1>8. CASE s.key # Null
  <2> DEFINE new == Upsert(work[t], IdOf(t, s), s)
  <2>1. /\ new \in Tables /\ OneRowPerKey(new) /\ Keeps(work[t], new)
        /\ \A c \in new : c.id = IdOf(t, s) \/ \E b \in work[t] : b.id = c.id
    BY <1>3, <1>4, <1>5, <1>8, UpsertKeeps
  <2>2. /\ work' = [work EXCEPT ![t] = new]
        /\ autoinc' = [autoinc EXCEPT ![t] = NextId(autoinc[t], s.id)]
        /\ line' = line + 1
        /\ UNCHANGED <<rows, file, stage, step, recorded, boundVars, before, thanked>>
    BY <1>8 DEF MergeRow
  <2> HIDE DEF new, s, t
  <2>3. \A u \in Table : /\ work'[u] = IF u = t THEN new ELSE work[u]
                         /\ autoinc'[u] = IF u = t THEN NextId(autoinc[t], s.id) ELSE autoinc[u]
    BY <2>2 DEF IInv, TypeOK
  <2>4. TypeOK'
    BY <1>1, <1>2, <1>6, <2>1, <2>2 DEF IInv, TypeOK, Tables, boundVars
  <2>5. KeysHold'
    <3>1. ASSUME NEW u \in Table
          PROVE  /\ OneRowPerKey(rows[u]) /\ OneRowPerKey(work'[u])
                 /\ \A b \in rows[u] \cup work'[u] : b.id < autoinc'[u]
      <4>1. CASE u = t
        <5>1. OneRowPerKey(rows[u]) /\ OneRowPerKey(work'[u])
          BY <2>1, <2>3, <4>1 DEF IInv, KeysHold
        <5>2. \A b \in rows[u] \cup work[u] : b.id \in Nat /\ b.id < autoinc[t]
          BY <4>1 DEF IInv, TypeOK, Row, KeysHold
        <5>3. autoinc'[u] = NextId(autoinc[t], s.id)
          BY <2>3, <4>1
        <5>4. \A b \in rows[u] \cup work[u] : b.id < autoinc'[u]
          BY <1>4, <1>6, <5>2, <5>3
        <5>5. \A b \in work'[u] : b.id < autoinc'[u]
          BY <1>6, <2>1, <2>3, <4>1, <5>3, <5>4
        <5> QED
          BY <5>1, <5>4, <5>5
      <4>2. CASE u # t
        BY <2>3, <4>2 DEF IInv, KeysHold
      <4> QED
        BY <4>1, <4>2
    <3> QED
      BY <2>2, <3>1 DEF KeysHold
  <2>6. WorkKeepsRows'
    BY <2>1, <2>2, <2>3 DEF IInv, WorkKeepsRows, Keeps
  <2>7. WorkIsCommitted'
    BY <2>2 DEF MergeRow, WorkIsCommitted, At, Serving
  <2> QED
    BY <2>4, <2>5, <2>6, <2>7 DEF IInv
<1> QED
  BY <1>7, <1>8

LEMMA CommitStep ==
    ASSUME IInv, CommitWork
    PROVE  IInv'
<1>1. step \in 1 .. Len(Plan) + 1 /\ ~Serving /\ Done
  BY DEF IInv, TypeOK, CommitWork, At
<1>2. rows' = work /\ UNCHANGED <<work, autoinc, file, stage, recorded, boundVars, before, thanked>>
  BY DEF CommitWork
<1>3. TypeOK'
  BY <1>1, <1>2, DoneMoves DEF IInv, TypeOK, boundVars
<1>4. KeysHold' /\ WorkIsCommitted' /\ WorkKeepsRows'
  BY <1>2 DEF IInv, KeysHold, WorkIsCommitted, WorkKeepsRows
<1> QED
  BY <1>3, <1>4 DEF IInv

\* NextFree is above every id that is there.
LEMMA NextIsFree ==
    ASSUME NEW tbl \in Tables, NEW n \in Nat, \A b \in tbl : b.id < n
    PROVE  NextFree(tbl) \in Nat \ {0} /\ \A b \in tbl : b.id < NextFree(tbl)
<1> DEFINE S == Ids(tbl) \cup {0}
<1>1. \A b \in tbl : b.id \in Nat /\ b.id \in S
  BY DEF Tables, Row, Ids
<1>2. S \in SUBSET Nat /\ S # {} /\ n + 1 \in Nat /\ \A x \in S : x < n + 1
  BY <1>1 DEF Ids
<1> HIDE DEF S
<1>3. Max(S) \in S /\ \A x \in S : x <= Max(S)
  BY <1>2, MaxOfBounded
<1>4. NextFree(tbl) = Max(S) + 1
  BY DEF NextFree, S
<1>5. Max(S) \in Nat
  BY <1>2, <1>3
<1>6. \A b \in tbl : b.id \in Nat /\ b.id <= Max(S)
  BY <1>1, <1>3
<1> QED
  BY <1>4, <1>5, <1>6

\* Nothing is merged but not committed when AUTO_INCREMENT is reset.
LEMMA ResetStep ==
    ASSUME IInv, ResetAutoIncrement
    PROVE  IInv'
<1>1. step \in 1 .. Len(Plan) + 1 /\ ~Serving /\ Done
  BY DEF IInv, TypeOK, ResetAutoIncrement, At
<1>2. work = rows /\ On \in Table
  BY OnTyped DEF IInv, WorkIsCommitted, ResetAutoIncrement, At
<1>3. /\ autoinc' = [autoinc EXCEPT ![On] = NextFree(rows[On])]
      /\ UNCHANGED <<work, rows, file, stage, recorded, boundVars, before, thanked>>
  BY DEF ResetAutoIncrement
<1>4. /\ NextFree(rows[On]) \in Nat \ {0}
      /\ \A b \in rows[On] : b.id < NextFree(rows[On])
  BY <1>2, NextIsFree DEF IInv, TypeOK, KeysHold, Tables
<1>5. TypeOK'
  <2>1. autoinc' \in [Table -> Nat \ {0}]
    BY <1>3, <1>4 DEF IInv, TypeOK
  <2> QED
    BY <1>1, <1>3, <2>1, DoneMoves DEF IInv, TypeOK, boundVars
<1>6. KeysHold'
  BY <1>2, <1>3, <1>4 DEF IInv, TypeOK, KeysHold
<1>7. WorkIsCommitted' /\ WorkKeepsRows'
  BY <1>2, <1>3 DEF IInv, WorkIsCommitted, WorkKeepsRows
<1> QED
  BY <1>5, <1>6, <1>7 DEF IInv

LEMMA CrashStep ==
    ASSUME IInv, Crash
    PROVE  IInv'
<1>1. step' \in 1 .. Len(Plan) + 1
  BY PlanIs DEF Crash, FirstMissing
<1>2. work' = rows /\ line' = 0 /\ crashes' \in 0 .. MaxCrashes
      /\ UNCHANGED <<file, stage, recorded, rows, autoinc, reruns, before, thanked>>
  BY DEF IInv, TypeOK, Crash
<1>3. TypeOK'
  BY <1>1, <1>2 DEF IInv, TypeOK
<1>4. KeysHold' /\ WorkIsCommitted' /\ WorkKeepsRows'
  BY <1>2 DEF IInv, KeysHold, WorkIsCommitted, WorkKeepsRows
<1> QED
  BY <1>3, <1>4 DEF IInv

LEMMA RerunStep ==
    ASSUME IInv, NEW f \in File, Rerun(f)
    PROVE  IInv'
<1>1. /\ file' \in [Table -> Seq(Line)] /\ recorded' = {} /\ step' = 1 /\ line' = 0
      /\ before' = rows /\ reruns' \in 0 .. MaxReruns
      /\ UNCHANGED <<stage, rows, work, autoinc, crashes, thanked>>
  BY DEF IInv, TypeOK, Rerun
<1>2. work = rows
  BY DEF IInv, WorkIsCommitted, Rerun, At
<1>3. TypeOK'
  <2>1. step' \in 1 .. Len(Plan) + 1 /\ line' \in Nat
    BY <1>1, PlanIs
  <2> QED
    BY <1>1, <2>1 DEF IInv, TypeOK
<1>4. KeysHold' /\ WorkIsCommitted' /\ WorkKeepsRows'
  BY <1>1, <1>2 DEF IInv, KeysHold, WorkIsCommitted, WorkKeepsRows
<1> QED
  BY <1>3, <1>4 DEF IInv

\* Where the application writes, Flyway is not: its connection would see the same.
LEMMA ServedStep ==
    ASSUME IInv, work' = rows', UNCHANGED importVars,
           TypeOK', \A t \in Table : /\ OneRowPerKey(rows'[t])
                                     /\ \A b \in rows'[t] : b.id < autoinc'[t]
    PROVE  IInv'
<1>1. KeysHold' /\ WorkIsCommitted' /\ WorkKeepsRows'
  BY DEF KeysHold, WorkIsCommitted, WorkKeepsRows
<1> QED
  BY <1>1 DEF IInv

LEMMA SaveStep ==
    ASSUME IInv, NEW n \in New, Save(n)
    PROVE  IInv'
<1> DEFINE t == n.table  id == autoinc[t]
           row == [id |-> id, key |-> n.key, text |-> n.text,
                   liked |-> IF t = "tb_blog" THEN Null ELSE 0]
<1>1. t \in Table /\ n.key \in Key /\ n.text \in Text
  OBVIOUS
<1>2. id \in Nat \ {0}
  BY <1>1 DEF IInv, TypeOK
<1>3. row \in Row /\ row.id = id /\ row.key = n.key
  BY <1>1, <1>2 DEF Row, Likes
<1>4. /\ \/ rows' = rows
         \/ /\ \A b \in rows[t] : b.id # id /\ b.key # n.key
            /\ rows' = [rows EXCEPT ![t] = rows[t] \cup {row}]
      /\ autoinc' = [autoinc EXCEPT ![t] = id + 1]
      /\ work' = rows' /\ UNCHANGED <<importVars, boundVars, before, thanked>>
  BY DEF Save
<1> HIDE DEF t, id, row
<1>5. \A u \in Table : autoinc'[u] = IF u = t THEN id + 1 ELSE autoinc[u]
  BY <1>4 DEF IInv, TypeOK
<1>6. autoinc[t] = id
  BY DEF id
<1>7. \A u \in Table : \A b \in rows[u] : b.id \in Nat /\ b.id < autoinc[u] /\ autoinc[u] \in Nat
  BY DEF IInv, TypeOK, Row, KeysHold
<1>8. \A u \in Table : \A b \in rows[u] : b.id < autoinc'[u]
  BY <1>2, <1>5, <1>6, <1>7
<1>9. TypeOK'
  <2>1. rows' \in [Table -> SUBSET Row]
    <3>1. rows \in [Table -> SUBSET Row]
      BY DEF IInv, TypeOK
    <3>2. rows[t] \cup {row} \in SUBSET Row
      BY <1>1, <1>3, <3>1
    <3> QED
      BY <1>4, <3>1, <3>2
  <2>2. autoinc' \in [Table -> Nat \ {0}]
    BY <1>1, <1>2, <1>4 DEF IInv, TypeOK
  <2> QED
    BY <1>4, <2>1, <2>2 DEF IInv, TypeOK, importVars, boundVars
<1>10. ASSUME NEW u \in Table
       PROVE  OneRowPerKey(rows'[u]) /\ \A b \in rows'[u] : b.id < autoinc'[u]
  <2>1. CASE rows'[u] = rows[u]
    BY <1>8, <2>1 DEF IInv, KeysHold
  <2>2. CASE /\ u = t /\ rows'[u] = rows[t] \cup {row}
             /\ \A b \in rows[t] : b.id # id /\ b.key # n.key
    <3>1. OneRowPerKey(rows[t])
      BY <1>1 DEF IInv, KeysHold
    <3>2. OneRowPerKey(rows'[u])
      BY <1>3, <2>2, <3>1 DEF OneRowPerKey
    <3>3. row.id < autoinc'[u]
      BY <1>2, <1>3, <1>5, <2>2
    <3> QED
      BY <1>8, <2>2, <3>2, <3>3
  <2> QED
    BY <1>4, <2>1, <2>2 DEF IInv, TypeOK
<1> QED
  BY <1>4, <1>9, <1>10, ServedStep

LEMMA LikeBlogStep ==
    ASSUME IInv, NEW b \in rows["tb_blog"], LikeBlog(b)
    PROVE  IInv'
<1> DEFINE t == "tb_blog"  c == [b EXCEPT !.liked = PlusOne(b.liked)]
<1>1. t \in Table
  BY DEF Table
<1>2. b \in Row /\ PlusOne(b.liked) \in Likes
  BY <1>1 DEF IInv, TypeOK, Row, PlusOne, Likes
<1>3. c \in Row /\ c.id = b.id /\ c.key = b.key
  BY <1>2 DEF Row
<1>4. /\ rows' = [rows EXCEPT ![t] = (rows[t] \ {b}) \cup {c}]
      /\ work' = rows' /\ UNCHANGED <<importVars, autoinc, boundVars, before>>
  BY DEF LikeBlog
<1>5. b.id \in 1 .. MaxId /\ thanked[b.id] < MaxLiked
      /\ thanked' = [thanked EXCEPT ![b.id] = thanked[b.id] + 1]
  BY <1>2 DEF LikeBlog, Row
<1> HIDE DEF c
<1>6. TypeOK'
  <2>1. rows' \in [Table -> SUBSET Row]
    BY <1>1, <1>3, <1>4 DEF IInv, TypeOK
  <2>2. thanked' \in [1 .. MaxId -> 0 .. MaxLiked]
    BY <1>5 DEF IInv, TypeOK
  <2> QED
    BY <1>4, <2>1, <2>2 DEF IInv, TypeOK, importVars, boundVars
<1>7. OneRowPerKey(rows[t]) /\ b \in rows[t] /\ \A d \in rows[t] : d.id < autoinc[t]
  BY <1>1 DEF IInv, KeysHold
<1>8. OneRowPerKey((rows[t] \ {b}) \cup {c}) /\ \A d \in (rows[t] \ {b}) \cup {c} : d.id < autoinc[t]
  BY <1>3, <1>7 DEF OneRowPerKey
<1>9. ASSUME NEW u \in Table
      PROVE  OneRowPerKey(rows'[u]) /\ \A d \in rows'[u] : d.id < autoinc'[u]
  <2>1. CASE u = t
    <3>1. rows'[u] = (rows[t] \ {b}) \cup {c} /\ autoinc' = autoinc
      BY <1>1, <1>4, <2>1 DEF IInv, TypeOK
    <3> QED
      BY <1>8, <2>1, <3>1
  <2>2. CASE u # t
    <3>1. rows'[u] = rows[u] /\ autoinc' = autoinc
      BY <1>4, <2>2 DEF IInv, TypeOK
    <3> QED
      BY <3>1 DEF IInv, KeysHold
  <2> QED
    BY <2>1, <2>2
<1> QED
  BY <1>4, <1>6, <1>9, ServedStep

LEMMA InvStep == IInv /\ [Next]_vars => IInv'
<1> SUFFICES ASSUME IInv, [Next]_vars PROVE IInv'
  OBVIOUS
<1>1. CASE Import
  BY <1>1, QuietStep, MergeRowStep, CommitStep, ResetStep DEF Import
<1>2. CASE UNCHANGED vars
  BY <1>2
  DEF vars, importVars, boundVars, IInv, TypeOK, KeysHold, WorkIsCommitted, WorkKeepsRows, At,
      Serving
<1> QED
  BY <1>1, <1>2, CrashStep, RerunStep, SaveStep, LikeBlogStep DEF Next

----------------------------------------------------------------------------
(* The import, step by step *)

\* RecordedSoFar, StagedSoFar and MergedSoFar by the number of the step.
RecordedBy == \A v \in {"V3", "V4", "V5"} : v \in recorded <=> step > RecordAt(v)

StagedBy ==
    \A t \in Table : /\ step > 1 /\ step <= LoadAt(t) => stage[t] = <<>>
                     /\ step > LoadAt(t) => stage[t] = file[t]

Whole(t) == Merged(before[t], file[t], Len(file[t]))

MergedIn(t) ==
    /\ rows[t] \in {before[t], Whole(t)}
    /\ step > CommitAt(t) => rows[t] = Whole(t)
    /\ step > MergeAt(t) => work[t] = Whole(t)
    /\ step = MergeAt(t) => work[t] = Merged(rows[t], file[t], line)
    /\ step < MergeAt(t) => work[t] = rows[t]

MergedBy == step <= 18 => \A t \in Table : NoClash(before[t], file[t]) => MergedIn(t)

StepInv == IInv /\ RecordedBy /\ StagedBy /\ MergedBy

LEMMA Positions ==
    /\ \A t \in Table : /\ LoadAt(t) \in 2 .. 5 /\ MergeAt(t) \in {7, 8, 13, 14}
                        /\ CommitAt(t) \in {9, 15} /\ MergeAt(t) < CommitAt(t)
                        /\ CommitAt(t) = 9 => MergeAt(t) < 9
                        /\ CommitAt(t) = 15 => MergeAt(t) > 9
    /\ RecordAt("V3") = 6 /\ RecordAt("V4") = 12 /\ RecordAt("V5") = 18
    /\ \A t, u \in Table : t # u => LoadAt(t) # LoadAt(u) /\ MergeAt(t) # MergeAt(u)
<1>1. /\ LoadAt("tb_user") = 2 /\ LoadAt("tb_shop") = 3
      /\ LoadAt("tb_voucher") = 4 /\ LoadAt("tb_blog") = 5
  BY DEF LoadAt
<1>2. /\ MergeAt("tb_user") = 7 /\ MergeAt("tb_shop") = 8
      /\ MergeAt("tb_voucher") = 13 /\ MergeAt("tb_blog") = 14
  BY DEF MergeAt
<1>3. /\ CommitAt("tb_user") = 9 /\ CommitAt("tb_shop") = 9
      /\ CommitAt("tb_voucher") = 15 /\ CommitAt("tb_blog") = 15
  BY DEF CommitAt
<1>4. RecordAt("V3") = 6 /\ RecordAt("V4") = 12 /\ RecordAt("V5") = 18
  BY DEF RecordAt
<1>5. \A t \in Table : t = "tb_user" \/ t = "tb_shop" \/ t = "tb_voucher" \/ t = "tb_blog"
  BY DEF Table
<1> QED
  BY <1>1, <1>2, <1>3, <1>4, <1>5

LEMMA PastIs ==
    ASSUME NEW s, NEW at \in 1 .. 18, \A k \in 1 .. 18 : Plan[k] = s <=> k = at,
           step \in 1 .. 19
    PROVE  Past(s) <=> step > at
  BY DEF Past

LEMMA PastSteps ==
    step \in 1 .. 19 =>
        /\ Past(V3[1]) <=> step > 1
        /\ \A v \in {"V3", "V4", "V5"} : Past(Record(v)) <=> step > RecordAt(v)
        /\ \A t \in Table : /\ Past(Load(t)) <=> step > LoadAt(t)
                            /\ Past(Merge(t)) <=> step > MergeAt(t)
                            /\ Past(Commit(VersionOf(t))) <=> step > CommitAt(t)
<1> SUFFICES ASSUME step \in 1 .. 19
             PROVE  /\ Past(V3[1]) <=> step > 1
                    /\ \A v \in {"V3", "V4", "V5"} : Past(Record(v)) <=> step > RecordAt(v)
                    /\ \A t \in Table : /\ Past(Load(t)) <=> step > LoadAt(t)
                                        /\ Past(Merge(t)) <=> step > MergeAt(t)
                                        /\ Past(Commit(VersionOf(t))) <=> step > CommitAt(t)
  OBVIOUS
<1>1. Past(V3[1]) <=> step > 1
  BY PlanAt, PastIs
<1>2. ASSUME NEW v \in {"V3", "V4", "V5"}
      PROVE  Past(Record(v)) <=> step > RecordAt(v)
  <2>1. RecordAt(v) \in 1 .. 18 /\ \A k \in 1 .. 18 : Plan[k] = Record(v) <=> k = RecordAt(v)
    BY PlanAt, Positions
  <2> QED
    BY <2>1, PastIs
<1>3. ASSUME NEW t \in Table
      PROVE  /\ Past(Load(t)) <=> step > LoadAt(t)
             /\ Past(Merge(t)) <=> step > MergeAt(t)
             /\ Past(Commit(VersionOf(t))) <=> step > CommitAt(t)
  <2>1. LoadAt(t) \in 1 .. 18 /\ MergeAt(t) \in 1 .. 18 /\ CommitAt(t) \in 1 .. 18
    BY Positions
  <2>2. /\ \A k \in 1 .. 18 : Plan[k] = Load(t) <=> k = LoadAt(t)
        /\ \A k \in 1 .. 18 : Plan[k] = Merge(t) <=> k = MergeAt(t)
        /\ \A k \in 1 .. 18 : Plan[k] = Commit(VersionOf(t)) <=> k = CommitAt(t)
    BY PlanAt
  <2> QED
    BY <2>1, <2>2, PastIs
<1> QED
  BY <1>1, <1>2, <1>3

LEMMA InSteps == MergeInv <=> StepInv
<1> SUFFICES ASSUME IInv
             PROVE  /\ RecordedSoFar <=> RecordedBy
                    /\ StagedSoFar <=> StagedBy
                    /\ MergedSoFar <=> MergedBy
  BY DEF MergeInv, StepInv
<1>1. step \in 1 .. 19
  BY PlanSteps DEF IInv, TypeOK
<1>2. RecordedSoFar <=> RecordedBy
  BY <1>1, PastSteps DEF RecordedSoFar, RecordedBy
<1>3. StagedSoFar <=> StagedBy
  <2>1. \A t \in Table : LoadAt(t) \in 2 .. 5
    BY Positions
  <2>2. \A t \in Table : step <= LoadAt(t) <=> ~(step > LoadAt(t))
    BY <1>1, <2>1
  <2>3. /\ Past(V3[1]) <=> step > 1
        /\ \A t \in Table : Past(Load(t)) <=> step > LoadAt(t)
    BY <1>1, PastSteps
  <2> QED
    BY <2>2, <2>3 DEF StagedSoFar, StagedBy
<1>4. ~Serving <=> step <= 18
  BY <1>1, PlanSteps DEF Serving
<1>5. ASSUME step <= 18, NEW t \in Table
      PROVE  (/\ rows[t] \in {before[t], Whole(t)}
              /\ Past(Commit(VersionOf(t))) => rows[t] = Whole(t)
              /\ work[t] = CASE Past(Merge(t)) -> Whole(t)
                             [] Plan[step] = Merge(t) -> Merged(rows[t], file[t], line)
                             [] OTHER -> rows[t]) <=> MergedIn(t)
  <2>1. /\ Past(Merge(t)) <=> step > MergeAt(t)
        /\ Past(Commit(VersionOf(t))) <=> step > CommitAt(t)
    BY <1>1, PastSteps
  <2>2. Plan[step] = Merge(t) <=> step = MergeAt(t)
    BY SMTT(30), <1>1, <1>5, PlanAt
  <2>3. MergeAt(t) \in {7, 8, 13, 14}
    BY Positions
  <2> DEFINE past == step > MergeAt(t)  now == step = MergeAt(t)  ahead == step < MergeAt(t)
             seen == CASE Past(Merge(t)) -> Whole(t)
                       [] Plan[step] = Merge(t) -> Merged(rows[t], file[t], line)
                       [] OTHER -> rows[t]
  <2>4. \/ past /\ ~now /\ ~ahead
        \/ ~past /\ now /\ ~ahead
        \/ ~past /\ ~now /\ ahead
    BY <1>1, <2>3
  <2>5. MergedIn(t) <=>
            /\ rows[t] \in {before[t], Whole(t)}
            /\ Past(Commit(VersionOf(t))) => rows[t] = Whole(t)
            /\ past => work[t] = Whole(t)
            /\ now => work[t] = Merged(rows[t], file[t], line)
            /\ ahead => work[t] = rows[t]
    BY <2>1, Zenon DEF MergedIn
  <2>6. /\ Past(Merge(t)) <=> past
        /\ Plan[step] = Merge(t) <=> now
    BY <2>1, <2>2
  <2> HIDE DEF past, now, ahead
  <2>7. seen = IF past THEN Whole(t) ELSE IF now THEN Merged(rows[t], file[t], line) ELSE rows[t]
    BY <2>4, <2>6
  <2> HIDE DEF seen
  <2>8. MergedIn(t) <=>
            /\ rows[t] \in {before[t], Whole(t)}
            /\ Past(Commit(VersionOf(t))) => rows[t] = Whole(t)
            /\ work[t] = seen
    BY <2>4, <2>5, <2>7
  <2> QED
    BY <2>8 DEF seen
<1>6. MergedSoFar <=> MergedBy
  BY <1>4, <1>5 DEF MergedSoFar, MergedBy, Whole
<1> QED
  BY <1>2, <1>3, <1>6

\* Which step an action is, and that the plan goes on behind it.
LEMMA StepIs ==
    ASSUME IInv, ~Serving
    PROVE  /\ step \in 1 .. 18 /\ step + 1 \in 1 .. 19
           /\ At("truncate") <=> step = 1
           /\ At("load") <=> step \in {2, 3, 4, 5}
           /\ At("merge") <=> step \in {7, 8, 13, 14}
           /\ At("commit") <=> step \in {9, 15}
           /\ At("reset") <=> step \in {10, 11, 16, 17}
           /\ At("record") <=> step \in {6, 12, 18}
           /\ At("load") => On \in Table /\ step = LoadAt(On)
           /\ At("merge") => On \in Table /\ step = MergeAt(On)
           /\ At("record") => On \in {"V3", "V4", "V5"} /\ step = RecordAt(On)
<1>1. step \in 1 .. 18 /\ step + 1 \in 1 .. 19
  BY PlanSteps DEF IInv, TypeOK, Serving
<1>2. \A what : At(what) <=> Plan[step].do = what
  BY DEF At
<1>3. /\ Plan[step].do = "truncate" <=> step = 1
      /\ Plan[step].do = "load" <=> step \in {2, 3, 4, 5}
      /\ Plan[step].do = "merge" <=> step \in {7, 8, 13, 14}
      /\ Plan[step].do = "commit" <=> step \in {9, 15}
      /\ Plan[step].do = "reset" <=> step \in {10, 11, 16, 17}
      /\ Plan[step].do = "record" <=> step \in {6, 12, 18}
  BY <1>1, PlanAt
<1>4. /\ Plan[step].do = "load" => On \in Table /\ step = LoadAt(On)
      /\ Plan[step].do = "merge" => On \in Table /\ step = MergeAt(On)
      /\ Plan[step].do = "record" => On \in {"V3", "V4", "V5"} /\ step = RecordAt(On)
  BY <1>1, PlanAt DEF On
<1> QED
  BY <1>1, <1>2, <1>3, <1>4

LEMMA StepTyped ==
    ASSUME StepInv
    PROVE  /\ IInv /\ step \in 1 .. 19
           /\ stage \in [Table -> Seq(Line)] /\ file \in [Table -> Seq(Line)]
           /\ rows \in [Table -> Tables] /\ work \in [Table -> Tables]
           /\ before \in [Table -> Tables]
<1>1. IInv /\ TypeOK
  BY DEF StepInv, IInv
<1>2. step \in 1 .. 19
  BY <1>1, PlanSteps DEF TypeOK
<1> QED
  BY <1>1, <1>2 DEF TypeOK, Tables

\* The next start goes back to the first step of a version, never forward.
LEMMA FirstMissingIs ==
    ASSUME StepInv
    PROVE  FirstMissing(recorded) =
                IF step > 18 THEN 19 ELSE IF step > 12 THEN 13 ELSE IF step > 6 THEN 7 ELSE 1
<1>1. /\ "V3" \in recorded <=> step > 6
      /\ "V4" \in recorded <=> step > 12
      /\ "V5" \in recorded <=> step > 18
  BY Positions DEF StepInv, RecordedBy
<1>2. step \in 1 .. 19
  BY StepTyped
<1> QED
  BY SMTT(30), <1>1, <1>2, PlanSteps DEF FirstMissing

LEMMA RecordedStep ==
    ASSUME StepInv, [Next]_vars
    PROVE  RecordedBy'
<1>1. /\ IInv /\ step \in 1 .. 19
      /\ \A v \in {"V3", "V4", "V5"} : v \in recorded <=> step > RecordAt(v)
  BY StepTyped DEF StepInv, RecordedBy
<1>2. CASE RecordVersion
  <2>1. recorded' = recorded \cup {On} /\ step' = step + 1 /\ At("record") /\ ~Serving
    BY <1>2 DEF RecordVersion, Done, At
  <2>2. step \in {6, 12, 18} /\ On \in {"V3", "V4", "V5"} /\ step = RecordAt(On)
    BY <1>1, <2>1, StepIs
  <2>3. \A v \in {"V3", "V4", "V5"} : step = RecordAt(v) <=> v = On
    BY <2>2, Positions
  <2>4. \A v \in {"V3", "V4", "V5"} : RecordAt(v) \in Nat
    BY Positions
  <2> QED
    BY <1>1, <2>1, <2>3, <2>4 DEF RecordedBy
<1>3. CASE Truncate \/ LoadData \/ MergeEnds \/ CommitWork \/ ResetAutoIncrement
  <2>1. /\ recorded' = recorded /\ step' = step + 1 /\ ~Serving
        /\ At("truncate") \/ At("load") \/ At("merge") \/ At("commit") \/ At("reset")
    BY <1>3 DEF Truncate, LoadData, MergeEnds, CommitWork, ResetAutoIncrement, Done, At
  <2>2. step \notin {6, 12, 18}
    BY <1>1, <2>1, StepIs
  <2>3. \A v \in {"V3", "V4", "V5"} : RecordAt(v) \in {6, 12, 18}
    BY Positions
  <2> QED
    BY <1>1, <2>1, <2>2, <2>3 DEF RecordedBy
<1>4. CASE Crash
  <2>1. recorded' = recorded /\ step' = FirstMissing(recorded)
    BY <1>4 DEF Crash
  <2>3. step' = IF step > 18 THEN 19 ELSE IF step > 12 THEN 13 ELSE IF step > 6 THEN 7 ELSE 1
    BY <2>1, FirstMissingIs
  <2>4. \A v \in {"V3", "V4", "V5"} : RecordAt(v) \in {6, 12, 18}
    BY Positions
  <2> QED
    BY <1>1, <2>1, <2>3, <2>4 DEF RecordedBy
<1>5. CASE \E f \in File : Rerun(f)
  <2>1. recorded' = {} /\ step' = 1
    BY <1>5 DEF Rerun
  <2>2. \A v \in {"V3", "V4", "V5"} : RecordAt(v) \in {6, 12, 18}
    BY Positions
  <2> QED
    BY <2>1, <2>2 DEF RecordedBy
<1>6. CASE UNCHANGED <<recorded, step>>
  BY <1>1, <1>6 DEF RecordedBy
<1> QED
  BY <1>2, <1>3, <1>4, <1>5, <1>6
  DEF Next, Import, vars, importVars, MergeRow, Save, LikeBlog

\* A load finds its stage table empty: V3 truncates first, and is not left half done.
LEMMA StagedStep ==
    ASSUME StepInv, [Next]_vars
    PROVE  StagedBy'
<1>1. /\ IInv /\ step \in 1 .. 19 /\ stage \in [Table -> Seq(Line)] /\ file \in [Table -> Seq(Line)]
      /\ \A t \in Table : /\ step > 1 /\ step <= LoadAt(t) => stage[t] = <<>>
                          /\ step > LoadAt(t) => stage[t] = file[t]
  BY StepTyped DEF StepInv, StagedBy
<1>2. \A t \in Table : LoadAt(t) \in 2 .. 5
  BY Positions
<1>3. CASE Truncate
  <2>1. ~Serving /\ At("truncate") /\ step' = step + 1 /\ stage' = [t \in Table |-> <<>>]
    BY <1>3 DEF Truncate, Done, At
  <2>2. step' = 2
    BY <1>1, <2>1, StepIs
  <2> QED
    BY <1>2, <2>1, <2>2 DEF StagedBy
<1>4. CASE LoadData
  <2>1. /\ ~Serving /\ At("load") /\ step' = step + 1 /\ file' = file
        /\ stage' = [stage EXCEPT ![On] = stage[On] \o file[On]]
    BY <1>4 DEF LoadData, Done, At
  <2>2. On \in Table /\ step = LoadAt(On) /\ step \in 2 .. 5
    BY <1>1, <2>1, StepIs
  <2>3. stage'[On] = file[On]
    BY <1>1, <2>1, <2>2, SMTT(30)
  <2>4. \A t \in Table \ {On} : stage'[t] = stage[t] /\ LoadAt(t) # step
    BY <1>1, <2>1, <2>2, Positions
  <2>5. ASSUME NEW t \in Table
        PROVE  /\ step' > 1 /\ step' <= LoadAt(t) => stage'[t] = <<>>
               /\ step' > LoadAt(t) => stage'[t] = file'[t]
    <3>1. CASE t = On
      BY <2>1, <2>2, <2>3, <3>1
    <3>2. CASE t # On
      <4>1. stage'[t] = stage[t] /\ LoadAt(t) # step /\ LoadAt(t) \in 2 .. 5
        BY <1>2, <2>4, <3>2
      <4>2. /\ step' > 1 /\ step' <= LoadAt(t) => step > 1 /\ step <= LoadAt(t)
            /\ step' > LoadAt(t) => step > LoadAt(t)
        BY <2>1, <2>2, <4>1
      <4> QED
        BY <1>1, <2>1, <4>1, <4>2
    <3> QED
      BY <3>1, <3>2
  <2> QED
    BY <2>5 DEF StagedBy
<1>5. CASE MergeEnds \/ CommitWork \/ ResetAutoIncrement \/ RecordVersion
  <2>1. /\ stage' = stage /\ file' = file /\ step' = step + 1 /\ ~Serving
        /\ At("merge") \/ At("commit") \/ At("reset") \/ At("record")
    BY <1>5 DEF MergeEnds, CommitWork, ResetAutoIncrement, RecordVersion, Done, At
  <2>2. step > 5
    BY <1>1, <2>1, StepIs
  <2> QED
    BY <1>1, <1>2, <2>1, <2>2 DEF StagedBy
<1>6. CASE Crash
  <2>1. stage' = stage /\ file' = file /\ step' = FirstMissing(recorded)
    BY <1>6 DEF Crash
  <2>2. step' = IF step > 18 THEN 19 ELSE IF step > 12 THEN 13 ELSE IF step > 6 THEN 7 ELSE 1
    BY <2>1, FirstMissingIs
  <2>3. CASE step > 6
    <3>1. step' > 6 /\ step' \in Nat
      BY <1>1, <2>2, <2>3
    <3>2. ASSUME NEW t \in Table
          PROVE  ~(step' <= LoadAt(t)) /\ step > LoadAt(t)
      <4>1. LoadAt(t) \in 2 .. 5
        BY <1>2
      <4> QED
        BY <1>1, <2>3, <3>1, <4>1
    <3> QED
      BY <1>1, <2>1, <3>2 DEF StagedBy
  <2>4. CASE ~(step > 6)
    <3>1. step' = 1
      BY <1>1, <2>2, <2>4
    <3> QED
      BY <1>2, <3>1 DEF StagedBy
  <2> QED
    BY <2>3, <2>4
<1>7. CASE \E f \in File : Rerun(f)
  <2>1. step' = 1
    BY <1>7 DEF Rerun
  <2> QED
    BY <1>2, <2>1 DEF StagedBy
<1>8. CASE UNCHANGED <<stage, file, step>>
  BY <1>1, <1>8 DEF StagedBy
<1> QED
  BY <1>3, <1>4, <1>5, <1>6, <1>7, <1>8
  DEF Next, Import, vars, importVars, MergeRow, Save, LikeBlog

\* Whether what is committed is the table before the import or the merge already, the
\* file clashes with nothing there and merging it gives the merge.
LEMMA WholeIs ==
    ASSUME StepInv, step <= 18, NEW t \in Table, NoClash(before[t], file[t])
    PROVE  /\ file[t] \in Seq(Line) /\ rows[t] \in Tables
           /\ MergedIn(t) /\ NoClash(rows[t], file[t])
           /\ Merged(rows[t], file[t], Len(file[t])) = Whole(t)
<1>1. MergedIn(t)
  BY DEF StepInv, MergedBy
<1>2. file[t] \in Seq(Line) /\ rows[t] \in Tables /\ before[t] \in Tables
  BY StepTyped
<1>3. NoClash(Whole(t), file[t]) /\ Merged(Whole(t), file[t], Len(file[t])) = Whole(t)
  BY <1>2, MergeAgain DEF Whole
<1>4. CASE rows[t] = before[t]
  BY <1>1, <1>2, <1>4 DEF Whole
<1>5. CASE rows[t] = Whole(t)
  BY <1>1, <1>2, <1>3, <1>5
<1> QED
  BY <1>1, <1>4, <1>5 DEF MergedIn

\* One line.
LEMMA MergedByRow ==
    ASSUME StepInv, MergeRow, NEW t \in Table, NoClash(before[t], file[t])
    PROVE  MergedIn(t)'
<1>1. /\ ~Serving /\ At("merge") /\ line < Len(stage[On]) /\ line' = line + 1
      /\ UNCHANGED <<file, stage, step, rows, before>>
  BY DEF MergeRow, At
<1>2. IInv /\ step \in 1 .. 18 /\ On \in Table /\ step = MergeAt(On)
  BY <1>1, StepIs, StepTyped
<1>3. /\ file[t] \in Seq(Line) /\ rows[t] \in Tables
      /\ MergedIn(t) /\ NoClash(rows[t], file[t])
  BY SMTT(30), <1>2, WholeIs
<1>4. Whole(t)' = Whole(t)
  BY <1>1 DEF Whole
<1>5. CASE t # On
  <2>1. step # MergeAt(t)
    BY <1>2, <1>5, Positions
  <2>2. work'[t] = work[t]
    BY <1>2, <1>5, StepTyped DEF MergeRow
  <2> QED
    BY <1>1, <1>3, <1>4, <2>1, <2>2 DEF MergedIn
<1>6. CASE t = On
  <2> DEFINE s == file[t][line + 1]
  <2>1. stage[t] = file[t]
    <3>1. step > LoadAt(t)
      BY <1>2, <1>6, Positions
    <3> QED
      BY <3>1 DEF StepInv, StagedBy
  <2>2. line \in 0 .. Len(file[t]) /\ line < Len(file[t]) /\ line + 1 \in DOMAIN file[t] /\ s \in Line
    BY <1>1, <1>2, <1>3, <1>6, <2>1 DEF IInv, TypeOK
  <2>3. work[t] = Merged(rows[t], file[t], line) /\ OneRowPerKey(work[t])
    BY <1>2, <1>3, <1>6 DEF MergedIn, IInv, KeysHold
  <2>4. Merged(rows[t], file[t], line + 1) =
            IF s.key = Null THEN work[t] ELSE Upsert(work[t], s.id, s)
    BY <1>3, <2>2, <2>3, MergeNextLine
  <2>5. work'[t] = IF s.key = Null THEN work[t] ELSE Upsert(work[t], IdOf(t, s), s)
    BY <1>6, <2>1, StepTyped DEF MergeRow
  <2>6. s.key # Null => IdOf(t, s) = s.id
    BY <1>3, <2>2 DEF NoClash, IdOf
  <2>7. work'[t] = Merged(rows[t], file[t], line + 1)
    BY <2>4, <2>5, <2>6
  <2>8. step = MergeAt(t) /\ MergeAt(t) < CommitAt(t)
    BY <1>2, <1>6, Positions
  <2>9. ~(step > MergeAt(t)) /\ ~(step < MergeAt(t)) /\ ~(step > CommitAt(t))
    BY <1>2, <2>8, Positions
  <2> QED
    BY <1>1, <1>3, <1>4, <2>7, <2>9 DEF MergedIn
<1> QED
  BY <1>5, <1>6

\* The last line.
LEMMA MergedByEnd ==
    ASSUME StepInv, MergeEnds, NEW t \in Table, NoClash(before[t], file[t])
    PROVE  MergedIn(t)'
<1>1. /\ ~Serving /\ At("merge") /\ line = Len(stage[On]) /\ line' = 0 /\ step' = step + 1
      /\ UNCHANGED <<file, stage, rows, work, before>>
  BY DEF MergeEnds, At, Done
<1>2. step \in {7, 8, 13, 14} /\ On \in Table /\ step = MergeAt(On)
  BY <1>1, StepIs, StepTyped
<1>3. /\ file[t] \in Seq(Line) /\ rows[t] \in Tables
      /\ MergedIn(t) /\ Merged(rows[t], file[t], Len(file[t])) = Whole(t)
  BY <1>2, WholeIs
<1>4. Whole(t)' = Whole(t)
  BY <1>1 DEF Whole
<1>5. /\ MergeAt(t) \in {7, 8, 13, 14} /\ CommitAt(t) \in {9, 15} /\ MergeAt(t) < CommitAt(t)
      /\ t # On => MergeAt(t) # step
  BY <1>2, Positions
<1>6. step = MergeAt(t) => work[t] = Whole(t)
  <2>1. SUFFICES ASSUME step = MergeAt(t) PROVE work[t] = Whole(t)
    OBVIOUS
  <2>2. t = On /\ step > LoadAt(t)
    BY <1>2, <1>5, <2>1, Positions
  <2>3. stage[t] = file[t]
    BY <2>2 DEF StepInv, StagedBy
  <2> QED
    BY <1>1, <1>3, <2>1, <2>2, <2>3 DEF MergedIn
<1>7. step' > CommitAt(t) => step > CommitAt(t)
  BY <1>1, <1>2, <1>5
<1>8. step' > MergeAt(t) => work[t] = Whole(t)
  BY <1>1, <1>2, <1>3, <1>5, <1>6 DEF MergedIn
<1>9. step' <= MergeAt(t) => work[t] = rows[t]
  BY <1>1, <1>2, <1>3, <1>5 DEF MergedIn
<1>10. Merged(rows[t], file[t], 0) = rows[t]
  BY MergedOfNone
<1>11. step' \in Nat /\ MergeAt(t) \in Nat
  BY <1>1, <1>2, <1>5
<1> QED
  BY <1>1, <1>3, <1>4, <1>7, <1>8, <1>9, <1>10, <1>11 DEF MergedIn

\* Truncating, loading, resetting and recording leave the tables as they are.
LEMMA MergedByOther ==
    ASSUME StepInv, Truncate \/ LoadData \/ ResetAutoIncrement \/ RecordVersion,
           NEW t \in Table, NoClash(before[t], file[t])
    PROVE  MergedIn(t)'
<1>1. /\ ~Serving /\ line' = 0 /\ step' = step + 1 /\ UNCHANGED <<file, rows, work, before>>
      /\ At("truncate") \/ At("load") \/ At("reset") \/ At("record")
  BY DEF Truncate, LoadData, ResetAutoIncrement, RecordVersion, At, Done
<1>2. step \in {1, 2, 3, 4, 5, 6, 10, 11, 12, 16, 17, 18}
  BY <1>1, StepIs, StepTyped
<1>3. MergedIn(t) /\ Merged(rows[t], file[t], 0) = rows[t]
  BY <1>2, WholeIs, MergedOfNone
<1>4. Whole(t)' = Whole(t)
  BY <1>1 DEF Whole
<1>5. MergeAt(t) \in {7, 8, 13, 14} /\ CommitAt(t) \in {9, 15}
  BY Positions
<1>6. /\ step' > CommitAt(t) => step > CommitAt(t)
      /\ step' > MergeAt(t) => step > MergeAt(t)
      /\ step' <= MergeAt(t) => step < MergeAt(t)
  BY <1>1, <1>2, <1>5
<1>7. step' = MergeAt(t) => step' <= MergeAt(t)
  BY <1>5
<1>8. step' < MergeAt(t) => step' <= MergeAt(t)
  BY <1>1, <1>2, <1>5
<1> QED
  BY <1>1, <1>3, <1>4, <1>6, <1>7, <1>8 DEF MergedIn

LEMMA MergedByCommit ==
    ASSUME StepInv, CommitWork, NEW t \in Table, NoClash(before[t], file[t])
    PROVE  MergedIn(t)'
<1>1. /\ ~Serving /\ At("commit") /\ step' = step + 1 /\ rows' = work
      /\ UNCHANGED <<file, work, before>>
  BY DEF CommitWork, At, Done
<1>2. step \in {9, 15}
  BY <1>1, StepIs, StepTyped
<1>3. MergedIn(t)
  BY <1>2, WholeIs
<1>4. Whole(t)' = Whole(t)
  BY <1>1 DEF Whole
<1>5. /\ MergeAt(t) \in {7, 8, 13, 14} /\ CommitAt(t) \in {9, 15}
      /\ MergeAt(t) < CommitAt(t)
      /\ CommitAt(t) = 15 => MergeAt(t) > 9
  BY Positions
<1>6. CASE step > MergeAt(t)
  <2>1. work[t] = Whole(t)
    BY <1>3, <1>6 DEF MergedIn
  <2>2. step' > MergeAt(t) /\ step' # MergeAt(t) /\ ~(step' < MergeAt(t))
    BY <1>1, <1>2, <1>5, <1>6
  <2> QED
    BY <1>1, <1>4, <2>1, <2>2 DEF MergedIn
<1>7. CASE ~(step > MergeAt(t))
  <2>1. step < MergeAt(t) /\ step' < MergeAt(t) /\ ~(step' > CommitAt(t))
        /\ ~(step' > MergeAt(t)) /\ step' # MergeAt(t)
    BY <1>1, <1>2, <1>5, <1>7
  <2>2. work[t] = rows[t] /\ rows[t] \in {before[t], Whole(t)}
    BY <1>3, <2>1 DEF MergedIn
  <2> QED
    BY <1>1, <1>4, <2>1, <2>2 DEF MergedIn
<1> QED
  BY <1>6, <1>7

\* A start that dies takes what it has not committed with it, and no version is run
\* again that was committed and recorded.
LEMMA MergedByCrash ==
    ASSUME StepInv, Crash, NEW t \in Table, NoClash(before[t], file[t])
    PROVE  MergedIn(t)'
<1>1. /\ ~Serving /\ line' = 0 /\ step' = FirstMissing(recorded) /\ work' = rows
      /\ UNCHANGED <<file, rows, before>>
  BY DEF Crash
<1>2. step \in 1 .. 18
  BY <1>1, StepIs, StepTyped
<1>3. step' = IF step > 12 THEN 13 ELSE IF step > 6 THEN 7 ELSE 1
  BY <1>1, <1>2, FirstMissingIs
<1>4. MergedIn(t) /\ Merged(rows[t], file[t], 0) = rows[t]
  BY <1>2, WholeIs, MergedOfNone
<1>5. Whole(t)' = Whole(t)
  BY <1>1 DEF Whole
<1>6. /\ MergeAt(t) \in {7, 8, 13, 14} /\ CommitAt(t) \in {9, 15}
      /\ CommitAt(t) = 9 => MergeAt(t) < 9
      /\ CommitAt(t) = 15 => MergeAt(t) > 9
  BY Positions
<1>7. /\ step' > CommitAt(t) => step > CommitAt(t)
      /\ step' > MergeAt(t) => step > CommitAt(t)
  BY <1>2, <1>3, <1>6
<1> QED
  BY <1>1, <1>4, <1>5, <1>7 DEF MergedIn

LEMMA MergedStep ==
    ASSUME StepInv, [Next]_vars
    PROVE  MergedBy'
<1>1. IInv /\ step \in 1 .. 19
  BY StepTyped
<1>2. CASE Import \/ Crash
  <2>1. UNCHANGED <<file, before>>
    BY <1>2 DEF Import, Crash, Truncate, LoadData, MergeRow, MergeEnds, CommitWork,
                ResetAutoIncrement, RecordVersion
  <2>2. ASSUME NEW t \in Table, NoClash(before[t], file[t])
        PROVE  MergedIn(t)'
    BY <1>2, <2>2, MergedByRow, MergedByEnd, MergedByOther, MergedByCommit, MergedByCrash
    DEF Import
  <2> QED
    BY <2>1, <2>2 DEF MergedBy
<1>3. CASE \E f \in File : Rerun(f)
  <2>1. step' = 1 /\ before' = rows /\ UNCHANGED <<rows, work>> /\ Serving
    BY <1>3 DEF Rerun
  <2>2. work = rows
    BY <1>1, <2>1 DEF IInv, WorkIsCommitted, At
  <2>3. ASSUME NEW t \in Table
        PROVE  ~(step' > CommitAt(t)) /\ ~(step' > MergeAt(t)) /\ step' # MergeAt(t)
    <3>1. MergeAt(t) \in {7, 8, 13, 14} /\ CommitAt(t) \in {9, 15}
      BY Positions
    <3> QED
      BY <2>1, <3>1
  <2> QED
    BY <2>1, <2>2, <2>3 DEF MergedBy, MergedIn
<1>4. CASE (\E n \in New : Save(n)) \/ (\E b \in rows["tb_blog"] : LikeBlog(b))
  <2>1. Serving /\ step' = step
    BY <1>4 DEF Save, LikeBlog, importVars
  <2>2. ~(step' <= 18)
    BY <1>1, <2>1, PlanSteps DEF Serving
  <2> QED
    BY <2>2 DEF MergedBy
<1>5. CASE UNCHANGED vars
  BY <1>5 DEF vars, importVars, StepInv, MergedBy, MergedIn, Whole
<1> QED
  BY <1>2, <1>3, <1>4, <1>5 DEF Next

LEMMA InitSteps == Init => StepInv
<1> SUFFICES ASSUME Init PROVE StepInv
  OBVIOUS
<1>1. \A t \in Table : /\ LoadAt(t) \in 2 .. 5 /\ MergeAt(t) \in {7, 8, 13, 14}
                       /\ CommitAt(t) \in {9, 15}
  BY Positions
<1>2. ASSUME NEW t \in Table
      PROVE  /\ ~(step > LoadAt(t)) /\ ~(step > CommitAt(t)) /\ ~(step > MergeAt(t))
             /\ step # MergeAt(t) /\ step <= LoadAt(t) /\ ~(step > 1)
  <2>1. LoadAt(t) \in 2 .. 5 /\ MergeAt(t) \in {7, 8, 13, 14} /\ CommitAt(t) \in {9, 15}
    BY <1>1
  <2> QED
    BY <2>1 DEF Init
<1>3. RecordedBy
  <2>1. \A v \in {"V3", "V4", "V5"} : RecordAt(v) \in {6, 12, 18}
    BY Positions
  <2> QED
    BY <2>1 DEF Init, RecordedBy
<1>4. StagedBy
  BY <1>2 DEF Init, StagedBy
<1>5. MergedBy
  BY <1>2 DEF Init, MergedBy, MergedIn
<1> QED
  BY <1>3, <1>4, <1>5, InitInv DEF StepInv

LEMMA StepsStep == StepInv /\ [Next]_vars => StepInv'
<1> SUFFICES ASSUME StepInv, [Next]_vars PROVE StepInv'
  OBVIOUS
<1>1. IInv'
  BY InvStep, StepTyped
<1> QED
  BY <1>1, RecordedStep, StagedStep, MergedStep DEF StepInv

----------------------------------------------------------------------------
(* The theorems *)

\* IInv is inductive: merges, rollbacks, resets, re-runs and the application's
\* inserts all keep it, for any files and any natural keys.
THEOREM Invariance == Spec => []IInv
<1> QED
  BY InitInv, InvStep, PTL DEF Spec

\* Every variable keeps to its set.
THEOREM Typing == Spec => []TypeOK
<1>1. IInv => TypeOK
  BY DEF IInv
<1> QED
  BY <1>1, Invariance, PTL

\* Neither unique key is ever held twice and AUTO_INCREMENT is above every id, so
\* that an INSERT after an import never meets an id already there.
THEOREM KeysAreKept == Spec => []KeysHold
<1>1. IInv => KeysHold
  BY DEF IInv
<1> QED
  BY <1>1, Invariance, PTL

\* An import removes no row and renames none, wherever it dies and whatever the
\* files hold.
THEOREM IdentitiesAreKept == Spec => IdentityIsKept
<1>1. IInv /\ [Next]_vars
        => [~Serving => \A t \in Table : \A b \in rows[t] :
                \E c \in rows'[t] : c.id = b.id /\ c.key = b.key]_vars
  <2> SUFFICES ASSUME IInv, [Next]_vars, ~Serving, NEW t \in Table, NEW b \in rows[t]
               PROVE  \E c \in rows'[t] : c.id = b.id /\ c.key = b.key
    OBVIOUS
  <2>1. rows' = rows \/ rows' = work
    BY DEF Next, vars, Import, Truncate, LoadData, MergeRow, MergeEnds, CommitWork,
           ResetAutoIncrement, RecordVersion, Crash, Rerun, Save, LikeBlog
  <2> QED
    BY <2>1 DEF IInv, WorkKeepsRows
<1> QED
  BY <1>1, Invariance, PTL DEF Spec, IdentityIsKept

\* MergeInv is inductive: at every step of every start, what is recorded, staged,
\* committed and seen by Flyway's connection is what the steps behind it amount to.
THEOREM MergeInvariance == Spec => []MergeInv
<1>1. Spec => []StepInv
  BY InitSteps, StepsStep, PTL DEF Spec
<1> QED
  BY <1>1, InSteps, PTL

\* Wherever the start dies and however often, the import that gets through has merged
\* each file whose ids clash with nothing by natural key, once.
THEOREM ImportsMerge == Spec => ImportIsMerge
<1>1. StepInv /\ [Next]_vars
        => [~Serving /\ Serving' =>
                \A t \in Table : NoClash(before[t], file[t])
                    => rows'[t] = Merged(before[t], file[t], Len(file[t]))]_vars
  <2> SUFFICES ASSUME StepInv, [Next]_vars, ~Serving, Serving', NEW t \in Table,
                      NoClash(before[t], file[t])
               PROVE  rows'[t] = Whole(t)
    BY DEF Whole
  <2>1. IInv /\ step \in 1 .. 18 /\ step' > 18
    BY StepIs, StepTyped, PlanSteps DEF Serving
  <2>2. ~Crash
    <3>1. SUFFICES ASSUME Crash PROVE FALSE
      OBVIOUS
    <3>2. step' \in {1, 7, 13}
      BY SMTT(30), <2>1, <3>1, FirstMissingIs DEF Crash
    <3> QED
      BY <2>1, <3>2
  <2>3. step' # step
    BY <2>1
  <2>4. RecordVersion /\ step = 18
    <3>1. Import
      BY <2>2, <2>3 DEF Next, vars, importVars, Rerun, Save, LikeBlog
    <3>2. step' = step + 1
      BY <2>3, <3>1 DEF Import, Truncate, LoadData, MergeRow, MergeEnds, CommitWork,
                        ResetAutoIncrement, RecordVersion, Done
    <3>3. step = 18
      BY <2>1, <3>2
    <3>4. ~At("truncate") /\ ~At("load") /\ ~At("merge") /\ ~At("commit") /\ ~At("reset")
      BY <2>1, <3>3, StepIs
    <3> QED
      BY <3>1, <3>3, <3>4 DEF Import, Truncate, LoadData, MergeRow, MergeEnds, CommitWork,
                              ResetAutoIncrement
  <2>5. MergedIn(t) /\ step > CommitAt(t)
    BY <2>4, WholeIs, Positions
  <2> QED
    BY <2>4, <2>5 DEF MergedIn, RecordVersion
<1>2. Spec => []StepInv
  BY InitSteps, StepsStep, PTL DEF Spec
<1> QED
  BY <1>1, <1>2, PTL DEF Spec, ImportIsMerge
=============================================================================
