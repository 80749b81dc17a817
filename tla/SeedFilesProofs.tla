-------------------------- MODULE SeedFilesProofs ---------------------------
(***************************************************************************)
(* Proofs about CleanTsv and SeedFiles, for files of any length.           *)
(*                                                                         *)
(* read_text, the loop and the helper that goes through a record are       *)
(* recursive functions over an interval.  That they are what their         *)
(* equations say (Recursion), and what they keep from each element to the  *)
(* next (IntervalInduction), rests on < being well-founded on Nat.         *)
(*                                                                         *)
(* SeedFiles only decides which files an import finds, so that it is a     *)
(* SeedImport, and what V3 stages is the file cleaned at most once.        *)
(***************************************************************************)
EXTENDS SeedFiles, SeedImportProofs, SequenceTheorems, FiniteSetTheorems, WellFoundedInduction,
        TLAPS

----------------------------------------------------------------------------
(* Intervals *)

\* A set that holds the first of an interval, and the next of each, holds them all.
LEMMA IntervalInduction ==
    ASSUME NEW a \in Nat, NEW b \in Nat, NEW S,
           a <= b => a \in S,
           \A k \in a + 1 .. b : k - 1 \in S => k \in S
    PROVE  \A k \in a .. b : k \in S
<1> DEFINE T == {k \in a .. b : k \notin S}
<1> SUFFICES ASSUME T # {} PROVE FALSE
  OBVIOUS
<1>0. T \subseteq Nat
  OBVIOUS
<1> HIDE DEF T
<1>1. PICK x \in T : \A y \in T : ~ (<<y, x>> \in OpToRel(<, Nat))
  BY <1>0, NatLessThanWellFounded, WFMin
<1>2. \A y \in T : ~ (y < x)
  BY <1>0, <1>1 DEF OpToRel
<1> USE DEF T
<1>3. x # a /\ x \in a + 1 .. b
  OBVIOUS
<1>4. x - 1 \in S
  BY <1>2, <1>3
<1> QED
  BY <1>3, <1>4

\* f starts with d, and each value follows from the one before.
Follows(f, a, b, d, F) == \A k \in a .. b : f[k] = IF k = a THEN d ELSE F[k][f[k - 1]]

\* A function over an interval may be given in this way.
LEMMA Recursion ==
    ASSUME NEW a \in Nat, NEW b \in Nat, NEW D, NEW d \in D, NEW F \in [a .. b -> [D -> D]]
    PROVE  \E f \in [a .. b -> D] : Follows(f, a, b, d, F)
<1> USE DEF Follows
<1> DEFINE Good(m, f) == \A k \in a .. m : f[k] = IF k = a THEN d ELSE F[k][f[k - 1]]
           S == {m \in a .. b : \E f \in [a .. m -> D] : Good(m, f)}
<1>1. CASE b < a
  <2>1. a .. b = {}
    BY <1>1
  <2>2. [k \in a .. b |-> d] \in [a .. b -> D]
    OBVIOUS
  <2> QED
    BY <2>1, <2>2
<1>2. CASE a <= b
  <2>1. a \in S
    <3>1. [k \in a .. a |-> d] \in [a .. a -> D] /\ Good(a, [k \in a .. a |-> d])
      OBVIOUS
    <3> HIDE DEF Good
    <3>2. \E f \in [a .. a -> D] : Good(a, f)
      BY <3>1
    <3> QED
      BY <1>2, <3>2
  <2>2. ASSUME NEW m \in a + 1 .. b, m - 1 \in S PROVE m \in S
    <3>1. PICK f \in [a .. m - 1 -> D] : Good(m - 1, f)
      BY <2>2
    <3> DEFINE g == [k \in a .. m |-> IF k = m THEN F[m][f[m - 1]] ELSE f[k]]
    <3>2. f[m - 1] \in D /\ F[m] \in [D -> D]
      BY <2>2
    <3>3. F[m][f[m - 1]] \in D
      BY <3>2
    <3>4. g \in [a .. m -> D]
      BY <3>3
    <3>5. ASSUME NEW k \in a .. m PROVE g[k] = IF k = a THEN d ELSE F[k][g[k - 1]]
      <4>1. CASE k = m
        <5>1. g[k - 1] = f[m - 1] /\ k # a
          BY <4>1, <2>2
        <5> QED
          BY <5>1, <4>1
      <4>2. CASE k # m
        <5>1. k \in a .. m - 1
          BY <4>2, <2>2
        <5>2. g[k] = f[k] /\ f[k] = IF k = a THEN d ELSE F[k][f[k - 1]]
          BY <4>2, <3>1, <5>1
        <5>3. k # a => g[k - 1] = f[k - 1]
          BY <5>1, <2>2
        <5> QED
          BY <5>2, <5>3
      <4> QED
        BY <4>1, <4>2
    <3>6. Good(m, g)
      BY <3>5
    <3> HIDE DEF g
    <3> QED
      BY <3>4, <3>6, <2>2
  <2>3. \A k \in a .. b : k \in S
    <3> HIDE DEF S
    <3> QED
      BY <2>1, <2>2, IntervalInduction
  <2> QED
    BY <2>3, <1>2
<1> QED
  BY <1>1, <1>2

----------------------------------------------------------------------------
(* What the recursive functions compute *)

Chars == Seq(Char)

Accs == [out : Texts, buf : Chars]

LEMMA ColumnsNat ==
    ASSUME NEW l \in Chars
    PROVE  Columns(l) \in Nat \ {0}
<1> DEFINE S == {i \in DOMAIN l : l[i] = Tab}
<1>1. IsFiniteSet(DOMAIN l)
  <2>1. DOMAIN l = 1 .. Len(l) /\ Len(l) \in Nat
    BY DEF Chars
  <2> QED
    BY <2>1, FS_Interval
<1>2. IsFiniteSet(S)
  BY <1>1, FS_Subset
<1>3. Cardinality(S) \in Nat
  BY <1>2, FS_CardinalityType
<1> QED
  BY <1>3 DEF Columns

LEMMA CandidateType ==
    ASSUME NEW buf \in Chars, NEW l \in Chars
    PROVE  Candidate(buf, l) \in Chars
  BY CharAssumption DEF Candidate, Chars

LEMMA TakeLineIs ==
    ASSUME NEW expected, NEW out, NEW buf, NEW l
    PROVE  /\ Columns(Candidate(buf, l)) < expected
                => TakeLine(expected, [out |-> out, buf |-> buf], l)
                     = [out |-> out, buf |-> Candidate(buf, l)]
           /\ ~ (Columns(Candidate(buf, l)) < expected)
                => TakeLine(expected, [out |-> out, buf |-> buf], l)
                     = [out |-> Append(out, Candidate(buf, l)), buf |-> <<>>]
<1> DEFINE acc == [out |-> out, buf |-> buf]
<1>1. acc.out = out /\ acc.buf = buf /\ \A c : [acc EXCEPT !.buf = c] = [out |-> out, buf |-> c]
  OBVIOUS
<1> HIDE DEF acc
<1>2. TakeLine(expected, acc, l)
        = IF Columns(Candidate(buf, l)) < expected
          THEN [acc EXCEPT !.buf = Candidate(buf, l)]
          ELSE [out |-> Append(out, Candidate(buf, l)), buf |-> <<>>]
  BY Zenon, <1>1 DEF TakeLine
<1> QED
  BY <1>1, <1>2 DEF acc

LEMMA TakeLineType ==
    ASSUME NEW expected, NEW acc \in Accs, NEW l \in Chars
    PROVE  TakeLine(expected, acc, l) \in Accs
<1>1. Candidate(acc.buf, l) \in Chars
  BY CandidateType DEF Accs
<1>2. Append(acc.out, Candidate(acc.buf, l)) \in Texts
  BY <1>1 DEF Accs, Texts, Chars
<1>3. <<>> \in Chars
  BY DEF Chars
<1> QED
  BY <1>1, <1>2, <1>3 DEF TakeLine, Accs

LEMMA ScanIs ==
    ASSUME NEW lines \in Texts, lines # <<>>
    PROVE  /\ Scan(lines)[1] = [out |-> <<lines[1]>>, buf |-> <<>>]
           /\ \A k \in 2 .. Len(lines) :
                Scan(lines)[k] = TakeLine(Columns(lines[1]), Scan(lines)[k - 1], lines[k])
           /\ \A k \in 1 .. Len(lines) : Scan(lines)[k] \in Accs
<1> DEFINE n == Len(lines)
           first == [out |-> <<lines[1]>>, buf |-> <<>>]
           take == [k \in 1 .. n |-> [acc \in Accs |-> TakeLine(Columns(lines[1]), acc, lines[k])]]
<1>1. n \in Nat /\ n >= 1 /\ \A k \in 1 .. n : lines[k] \in Chars
  BY DEF Texts, Chars
<1>2. first \in Accs
  <2>1. lines[1] \in Chars
    BY <1>1
  <2> QED
    BY <2>1 DEF Accs, Texts, Chars
<1>3. take \in [1 .. n -> [Accs -> Accs]]
  BY <1>1, TakeLineType
<1> HIDE DEF first, n
<1>4. PICK f \in [1 .. n -> Accs] :
        \A k \in 1 .. n : f[k] = IF k = 1 THEN first ELSE take[k][f[k - 1]]
  <2>1. 1 \in Nat /\ n \in Nat
    BY <1>1
  <2> HIDE DEF take
  <2>2. \E f \in [1 .. n -> Accs] : Follows(f, 1, n, first, take)
    BY Zenon, <2>1, <1>2, <1>3, Recursion
  <2> QED
    BY <2>2 DEF Follows
<1>5. f = [k \in 1 .. n |-> IF k = 1 THEN first
                           ELSE TakeLine(Columns(lines[1]), f[k - 1], lines[k])]
  <2>1. \A k \in 1 .. n : f[k] = IF k = 1 THEN first
                                  ELSE TakeLine(Columns(lines[1]), f[k - 1], lines[k])
    <3> TAKE k \in 1 .. n
    <3>1. CASE k = 1
      BY <3>1, <1>4
    <3>2. CASE k # 1
      <4>1. f[k - 1] \in Accs
        BY <3>2, <1>1
      <4> QED
        BY <3>2, <4>1, <1>4
    <3> QED
      BY <3>1, <3>2
  <2> QED
    BY <2>1
<1>6. Scan(lines) = [k \in 1 .. n |-> IF k = 1 THEN first
                                     ELSE TakeLine(Columns(lines[1]), Scan(lines)[k - 1], lines[k])]
  BY Zenon, <1>5 DEF Scan, first, n
<1>7. \A k \in 1 .. n : Scan(lines)[k] = IF k = 1 THEN first
                                        ELSE TakeLine(Columns(lines[1]), Scan(lines)[k - 1], lines[k])
  BY <1>6
<1>8. \A k \in 1 .. n : Scan(lines)[k] \in Accs
  <2> DEFINE S == {k \in 1 .. n : Scan(lines)[k] \in Accs}
  <2>1. 1 \in S
    BY <1>1, <1>2, <1>7
  <2>2. ASSUME NEW k \in 1 + 1 .. n, k - 1 \in S PROVE k \in S
    BY <2>2, <1>1, <1>7, TakeLineType
  <2> HIDE DEF S
  <2>3. \A k \in 1 .. n : k \in S
    BY ZenonT(30), <1>1, <2>1, <2>2, 1 \in Nat, IntervalInduction
  <2> QED
    BY <2>3 DEF S
<1> QED
  BY <1>1, <1>7, <1>8 DEF first, n

LEMMA ScanStep ==
    ASSUME NEW lines \in Texts, NEW k \in 2 .. Len(lines), NEW out, NEW buf,
           Scan(lines)[k - 1] = [out |-> out, buf |-> buf]
    PROVE  /\ Columns(Candidate(buf, lines[k])) < Columns(lines[1])
                => Scan(lines)[k] = [out |-> out, buf |-> Candidate(buf, lines[k])]
           /\ ~ (Columns(Candidate(buf, lines[k])) < Columns(lines[1]))
                => Scan(lines)[k] = [out |-> Append(out, Candidate(buf, lines[k])), buf |-> <<>>]
<1> DEFINE expected == Columns(lines[1])  l == lines[k]
<1>1. Scan(lines)[k] = TakeLine(expected, [out |-> out, buf |-> buf], l)
  <2>1. lines # <<>>
    BY DEF Texts
  <2> QED
    BY <2>1, ScanIs
<1> HIDE DEF l, expected
<1>2. /\ Columns(Candidate(buf, l)) < expected
           => TakeLine(expected, [out |-> out, buf |-> buf], l)
                = [out |-> out, buf |-> Candidate(buf, l)]
      /\ ~ (Columns(Candidate(buf, l)) < expected)
           => TakeLine(expected, [out |-> out, buf |-> buf], l)
                = [out |-> Append(out, Candidate(buf, l)), buf |-> <<>>]
  BY TakeLineIs
<1> QED
  BY Zenon, <1>1, <1>2 DEF expected, l

LEMMA GluedIs ==
    ASSUME NEW lines \in Texts, NEW i \in 1 .. Len(lines)
    PROVE  /\ Glued(lines, i, i) = lines[i]
           /\ \A k \in i + 1 .. Len(lines) :
                Glued(lines, i, k) = Glued(lines, i, k - 1) \o <<Space>> \o lines[k]
           /\ \A k \in i .. Len(lines) : Glued(lines, i, k) \in Chars
<1> DEFINE n == Len(lines)
           glue == [k \in i .. n |-> [s \in Chars |-> s \o <<Space>> \o lines[k]]]
           glued == CHOOSE g : g = [k \in i .. n |->
                       IF k = i THEN lines[i] ELSE g[k - 1] \o <<Space>> \o lines[k]]
<1>1. i \in Nat /\ n \in Nat /\ \A k \in 1 .. n : lines[k] \in Chars
  BY DEF Texts, Chars
<1> HIDE DEF n
<1>2. \A k \in i .. n, s \in Chars : s \o <<Space>> \o lines[k] \in Chars
  <2> TAKE k \in i .. n, s \in Chars
  <2>1. lines[k] \in Chars
    BY <1>1
  <2> QED
    BY <2>1, CharAssumption DEF Chars
<1>3. lines[i] \in Chars /\ glue \in [i .. n -> [Chars -> Chars]]
  BY <1>1, <1>2 DEF n
<1>4. PICK f \in [i .. n -> Chars] : Follows(f, i, n, lines[i], glue)
  <2> HIDE DEF glue
  <2> QED
    BY Zenon, <1>1, <1>3, Recursion
<1>5. f = [k \in i .. n |-> IF k = i THEN lines[i] ELSE f[k - 1] \o <<Space>> \o lines[k]]
  <2>1. ASSUME NEW k \in i .. n
        PROVE  f[k] = IF k = i THEN lines[i] ELSE f[k - 1] \o <<Space>> \o lines[k]
    <3>1. CASE k = i
      BY <3>1, <1>4 DEF Follows
    <3>2. CASE k # i
      <4>1. f[k - 1] \in Chars
        BY <3>2, <1>1
      <4> QED
        BY <3>2, <4>1, <1>4 DEF Follows
    <3> QED
      BY <3>1, <3>2
  <2> QED
    BY <2>1
<1>6. glued = [k \in i .. n |-> IF k = i THEN lines[i] ELSE glued[k - 1] \o <<Space>> \o lines[k]]
  BY Zenon, <1>5
<1>7. \A k \in i .. n : Glued(lines, i, k) = glued[k]
  BY Zenon DEF Glued, n
<1> HIDE DEF glued, glue
<1>8. glued[i] = lines[i] /\ \A k \in i + 1 .. n : glued[k] = glued[k - 1] \o <<Space>> \o lines[k]
  <2>1. i \in i .. n /\ \A k \in i + 1 .. n : k \in i .. n /\ k # i
    BY <1>1 DEF n
  <2> QED
    BY <1>6, <2>1
<1> DEFINE S == {k \in i .. n : glued[k] \in Chars}
<1>9. \A k \in i .. n : k \in S
  <2>1. i <= n => i \in S
    BY <1>1, <1>3, <1>8
  <2>2. ASSUME NEW k \in i + 1 .. n, k - 1 \in S PROVE k \in S
    <3>1. glued[k - 1] \in Chars /\ k \in i .. n
      BY <2>2, <1>1
    <3> QED
      BY <3>1, <1>2, <1>8
  <2> HIDE DEF S
  <2> QED
    BY ZenonT(30), <1>1, <2>1, <2>2, IntervalInduction
<1> QED
  <2>1. i \in i .. n /\ \A k \in i + 1 .. n : k \in i .. n /\ k - 1 \in i .. n
    BY <1>1 DEF n
  <2> QED
    BY <1>7, <1>8, <1>9, <2>1 DEF n

----------------------------------------------------------------------------
(* The lines of a text *)

LEMMA MaxOfPositions ==
    ASSUME NEW n \in Nat, NEW S \in SUBSET (1 .. n), S # {}
    PROVE  \E i \in S : \A j \in S : j <= i
<1> DEFINE T == {m \in 0 .. n : n - m \in S}
<1>1. T \subseteq Nat
  OBVIOUS
<1>2. T # {}
  <2>1. PICK i \in S : TRUE
    OBVIOUS
  <2>2. n - i \in T
    OBVIOUS
  <2> QED
    BY <2>2
<1> HIDE DEF T
<1>3. PICK m \in T : \A y \in T : ~ (<<y, m>> \in OpToRel(<, Nat))
  BY <1>1, <1>2, NatLessThanWellFounded, WFMin
<1>4. \A y \in T : ~ (y < m)
  BY <1>1, <1>3 DEF OpToRel
<1>5. n - m \in S
  BY DEF T
<1>6. ASSUME NEW j \in S PROVE j <= n - m
  <2>1. n - j \in T
    BY DEF T
  <2>2. ~ (n - j < m) /\ m \in Nat /\ j \in Nat
    BY <1>1, <1>4, <2>1
  <2> QED
    BY <2>2
<1> QED
  BY <1>5, <1>6

\* The text ends with a line that is not empty, or is the empty text.
EndsFull(lines) == lines = <<>> \/ lines[Len(lines)] # <<>>

LEMMA RawLinesIs ==
    ASSUME NEW lines \in Texts
    PROVE  \/ RawLines(lines) = <<>> /\ \A i \in 1 .. Len(lines) : lines[i] = <<>>
           \/ \E n \in 1 .. Len(lines) :
                /\ RawLines(lines) = SubSeq(lines, 1, n)
                /\ lines[n] # <<>>
                /\ \A i \in 1 .. Len(lines) : lines[i] # <<>> => i <= n
<1> DEFINE full == {i \in DOMAIN lines : lines[i] # <<>>}
<1>1. DOMAIN lines = 1 .. Len(lines) /\ Len(lines) \in Nat
  BY DEF Texts
<1>2. CASE full = {}
  BY <1>1, <1>2 DEF RawLines
<1>3. CASE full # {}
  <2> DEFINE n == CHOOSE i \in full : \A j \in full : j <= i
  <2>1. n \in full /\ \A j \in full : j <= n
    <3>1. full \in SUBSET (1 .. Len(lines))
      BY <1>1
    <3> HIDE DEF full
    <3>2. \E i \in full : \A j \in full : j <= i
      BY <1>1, <1>3, <3>1, MaxOfPositions
    <3> QED
      BY Zenon, <3>2
  <2>2. RawLines(lines) = SubSeq(lines, 1, n)
    BY Zenon, <1>3 DEF RawLines
  <2> HIDE DEF n
  <2> QED
    BY <1>1, <2>1, <2>2
<1> QED
  BY <1>2, <1>3

LEMMA RawLinesType ==
    ASSUME NEW lines \in Texts
    PROVE  /\ RawLines(lines) \in Texts
           /\ Len(RawLines(lines)) <= Len(lines)
           /\ \A k \in 1 .. Len(RawLines(lines)) : RawLines(lines)[k] = lines[k]
           /\ EndsFull(RawLines(lines))
<1>1. CASE RawLines(lines) = <<>>
  BY <1>1 DEF Texts, EndsFull
<1>2. ASSUME NEW n \in 1 .. Len(lines), RawLines(lines) = SubSeq(lines, 1, n), lines[n] # <<>>
      PROVE  /\ RawLines(lines) \in Texts
             /\ Len(RawLines(lines)) <= Len(lines)
             /\ \A k \in 1 .. Len(RawLines(lines)) : RawLines(lines)[k] = lines[k]
             /\ EndsFull(RawLines(lines))
  <2>1. /\ SubSeq(lines, 1, n) \in Texts /\ Len(SubSeq(lines, 1, n)) = n
        /\ \A k \in 1 .. n : SubSeq(lines, 1, n)[k] = lines[k]
    BY DEF Texts
  <2> QED
    BY <1>2, <2>1 DEF EndsFull
<1> QED
  BY <1>1, <1>2, RawLinesIs

LEMMA RawLinesUndoesAppend ==
    ASSUME NEW lines \in Texts, lines # <<>>, EndsFull(lines)
    PROVE  RawLines(Append(lines, <<>>)) = lines
<1> DEFINE n == Len(lines)
           longer == Append(lines, <<>>)
<1>1. /\ n \in Nat /\ n >= 1 /\ longer \in Texts /\ Len(longer) = n + 1
      /\ longer[n + 1] = <<>> /\ \A k \in 1 .. n : longer[k] = lines[k]
  BY DEF Texts
<1>2. lines[n] # <<>> /\ SubSeq(longer, 1, n) = lines
  BY DEF EndsFull, Texts
<1> HIDE DEF n, longer
<1>3. PICK m \in 1 .. n + 1 : /\ RawLines(longer) = SubSeq(longer, 1, m) /\ longer[m] # <<>>
                             /\ \A i \in 1 .. n + 1 : longer[i] # <<>> => i <= m
  BY <1>1, <1>2, RawLinesIs
<1>4. m = n
  BY <1>1, <1>2, <1>3
<1> QED
  BY <1>2, <1>3, <1>4 DEF longer

----------------------------------------------------------------------------
(* Cleaning what is clean *)

\* Lines that the loop passes on as they are.
Clean(lines) ==
    /\ lines \in Texts /\ lines # <<>> /\ EndsFull(lines)
    /\ \A k \in 2 .. Len(lines) - 1 : Columns(lines[k]) >= Columns(lines[1])

LEMMA FirstOfSequence ==
    ASSUME NEW lines \in Texts, Len(lines) >= 1
    PROVE  SubSeq(lines, 1, 1) = <<lines[1]>>
<1> DEFINE s == SubSeq(lines, 1, 1)  t == <<lines[1]>>
<1>1. s \in Seq(Chars) /\ Len(s) = 1 /\ s[1] = lines[1]
  BY DEF Texts, Chars
<1>2. t \in Seq(Chars) /\ Len(t) = 1 /\ t[1] = lines[1]
  BY DEF Texts, Chars
<1> HIDE DEF s, t
<1>3. Len(s) = Len(t) /\ \A i \in 1 .. Len(s) : s[i] = t[i]
  BY <1>1, <1>2
<1>4. s = t
  BY Zenon, <1>1, <1>2, <1>3, SeqEqual
<1> QED
  BY <1>4 DEF s, t

LEMMA CleanLinesStay ==
    ASSUME NEW lines, Clean(lines)
    PROVE  CleanTsvText(Append(lines, <<>>)) = Append(lines, <<>>)
<1> DEFINE n == Len(lines)
           whole(k) == [out |-> SubSeq(lines, 1, k), buf |-> <<>>]
<1>1. /\ lines \in Texts /\ lines # <<>> /\ lines[n] # <<>> /\ n \in Nat /\ n >= 1
      /\ \A k \in 1 .. n : lines[k] \in Chars
      /\ \A k \in 2 .. n - 1 : Columns(lines[k]) >= Columns(lines[1])
  BY DEF Clean, EndsFull, Texts, Chars
<1>2. SubSeq(lines, 1, 1) = <<lines[1]>> /\ SubSeq(lines, 1, n) = lines
  <2>1. SubSeq(lines, 1, n) = lines
    BY <1>1 DEF Texts
  <2> QED
    BY <1>1, <2>1, FirstOfSequence
<1>3. \A k \in 2 .. n : Append(SubSeq(lines, 1, k - 1), lines[k]) = SubSeq(lines, 1, k)
  BY <1>1 DEF Texts
<1> HIDE DEF n
<1>4. \A k \in 1 .. n : Columns(lines[k]) \in Nat
  BY <1>1, ColumnsNat
<1>5. ASSUME NEW k \in 2 .. n, Scan(lines)[k - 1] = whole(k - 1)
      PROVE  /\ Columns(lines[k]) < Columns(lines[1])
                => Scan(lines)[k] = [out |-> SubSeq(lines, 1, k - 1), buf |-> lines[k]]
             /\ ~ (Columns(lines[k]) < Columns(lines[1])) => Scan(lines)[k] = whole(k)
  <2>1. Candidate(<<>>, lines[k]) = lines[k]
    BY DEF Candidate
  <2>2. k \in 2 .. Len(lines)
    BY DEF n
  <2> QED
    BY <1>1, <1>3, <1>5, <2>1, <2>2, ScanStep
<1>6. \A k \in 1 .. n - 1 : Scan(lines)[k] = whole(k)
  <2> DEFINE S == {k \in 1 .. n : Scan(lines)[k] = whole(k)}
  <2>1. 1 <= n - 1 => 1 \in S
    BY <1>1, <1>2, ScanIs
  <2>2. ASSUME NEW k \in 1 + 1 .. n - 1, k - 1 \in S PROVE k \in S
    <3>1. ~ (Columns(lines[k]) < Columns(lines[1]))
      <4>1. k \in 2 .. n - 1 /\ k \in 1 .. n /\ 1 \in 1 .. n
        BY <1>1
      <4>2. Columns(lines[k]) >= Columns(lines[1]) /\ Columns(lines[k]) \in Nat /\ Columns(lines[1]) \in Nat
        BY <4>1, <1>1, <1>4
      <4> QED
        BY <4>2
    <3>2. k \in 2 .. n /\ k \in 1 .. n /\ Scan(lines)[k - 1] = whole(k - 1)
      BY <1>1, <2>2
    <3> QED
      BY <1>5, <3>1, <3>2
  <2>3. 1 \in Nat /\ n - 1 \in Nat
    BY <1>1
  <2> HIDE DEF S
  <2>4. \A k \in 1 .. n - 1 : k \in S
    BY ZenonT(30), <2>1, <2>2, <2>3, IntervalInduction
  <2> QED
    BY <2>4 DEF S
<1>7. Flushed(Scan(lines)[n]) = lines
  <2>1. CASE n = 1
    <3>1. Scan(lines)[n] = [out |-> lines, buf |-> <<>>]
      BY <2>1, <1>1, <1>2, ScanIs
    <3> QED
      BY <3>1 DEF Flushed
  <2>2. CASE n # 1
    <3>1. n \in 2 .. n /\ Scan(lines)[n - 1] = whole(n - 1)
      BY <1>1, <1>6, <2>2
    <3>2. CASE Columns(lines[n]) < Columns(lines[1])
      <4>1. Scan(lines)[n] = [out |-> SubSeq(lines, 1, n - 1), buf |-> lines[n]]
        BY <1>5, <3>1, <3>2
      <4>2. Flushed(Scan(lines)[n]) = Append(SubSeq(lines, 1, n - 1), lines[n])
        BY <4>1, <1>1 DEF Flushed
      <4> QED
        BY <4>2, <3>1, <1>2, <1>3
    <3>3. CASE ~ (Columns(lines[n]) < Columns(lines[1]))
      <4>1. Scan(lines)[n] = whole(n)
        BY <1>5, <3>1, <3>3
      <4> QED
        BY <4>1, <1>2 DEF Flushed
    <3> QED
      BY <3>2, <3>3
  <2> QED
    BY <2>1, <2>2
<1> QED
  <2>1. RawLines(Append(lines, <<>>)) = lines
    BY RawLinesUndoesAppend DEF Clean
  <2> QED
    BY <1>1, <1>7, <2>1 DEF CleanTsvText, n

\* What the loop has made of the lines up to the k-th.
LoopInv(lines, k) ==
    LET out == Scan(lines)[k].out
        buf == Scan(lines)[k].buf
    IN  /\ out \in Texts /\ out # <<>> /\ out[1] = lines[1] /\ buf \in Chars
        /\ \A i \in 2 .. Len(out) : Columns(out[i]) >= Columns(lines[1])
        /\ lines[k] # <<>> /\ buf = <<>> => out[Len(out)] # <<>>

LEMMA LoopStarts ==
    ASSUME NEW lines \in Texts, lines # <<>>
    PROVE  LoopInv(lines, 1)
<1> DEFINE out == Scan(lines)[1].out  buf == Scan(lines)[1].buf
<1>1. out = <<lines[1]>> /\ buf = <<>>
  <2>1. Scan(lines)[1] = [out |-> <<lines[1]>>, buf |-> <<>>]
    BY ScanIs
  <2> QED
    BY <2>1
<1>2. lines[1] \in Chars
  BY DEF Texts, Chars
<1>3. out \in Texts /\ Len(out) = 1 /\ out[1] = lines[1] /\ buf \in Chars
  BY <1>1, <1>2 DEF Texts, Chars
<1>4. out # <<>>
  BY <1>1
<1> HIDE DEF out, buf
<1>5. \A i \in 2 .. Len(out) : Columns(out[i]) >= Columns(lines[1])
  BY <1>3
<1>6. lines[1] # <<>> /\ buf = <<>> => out[Len(out)] # <<>>
  BY <1>3
<1> QED
  BY Zenon, <1>3, <1>4, <1>5, <1>6 DEF LoopInv, out, buf

LEMMA LoopKeeps ==
    ASSUME NEW lines \in Texts, NEW k \in 2 .. Len(lines), LoopInv(lines, k - 1)
    PROVE  LoopInv(lines, k)
<1> DEFINE out == Scan(lines)[k - 1].out  buf == Scan(lines)[k - 1].buf
           new == Candidate(buf, lines[k])
           expected == Columns(lines[1])
<1>1. lines # <<>> /\ k - 1 \in 1 .. Len(lines) /\ lines[k] \in Chars /\ lines[1] \in Chars
  BY DEF Texts, Chars
<1>2. /\ out \in Texts /\ out # <<>> /\ out[1] = lines[1] /\ buf \in Chars
      /\ \A i \in 2 .. Len(out) : Columns(out[i]) >= expected
  BY Zenon DEF LoopInv
<1>3. Scan(lines)[k - 1] = [out |-> out, buf |-> buf]
  BY <1>1, ScanIs DEF Accs
<1> HIDE DEF out, buf
<1>4. /\ Columns(new) < expected => Scan(lines)[k] = [out |-> out, buf |-> new]
      /\ ~ (Columns(new) < expected) => Scan(lines)[k] = [out |-> Append(out, new), buf |-> <<>>]
  BY <1>3, ScanStep
<1>5. new \in Chars
  BY <1>1, <1>2, CandidateType
<1>6. lines[k] # <<>> => new # <<>>
  BY <1>1, <1>2, CharAssumption DEF Candidate, Chars
<1>7. expected \in Nat /\ Columns(new) \in Nat
  BY <1>1, <1>5, ColumnsNat
<1> HIDE DEF new, expected
<1>8. CASE Columns(new) < expected
  <2>1. Scan(lines)[k] = [out |-> out, buf |-> new]
    BY <1>4, <1>8
  <2>2. Scan(lines)[k].out = out /\ Scan(lines)[k].buf = new
    BY <2>1
  <2> QED
    BY Zenon, <1>2, <1>5, <1>6, <2>2 DEF LoopInv, expected
<1>9. CASE ~ (Columns(new) < expected)
  <2> DEFINE longer == Append(out, new)
  <2>1. Scan(lines)[k].out = longer /\ Scan(lines)[k].buf = <<>>
    <3>1. Scan(lines)[k] = [out |-> longer, buf |-> <<>>]
      BY <1>4, <1>9
    <3> QED
      BY <3>1
  <2>2. /\ longer \in Texts /\ Len(longer) = Len(out) + 1 /\ Len(out) \in Nat /\ Len(out) >= 1
        /\ longer[Len(out) + 1] = new /\ \A i \in 1 .. Len(out) : longer[i] = out[i]
    BY <1>2, <1>5 DEF Texts, Chars
  <2>3. <<>> \in Chars
    BY DEF Chars
  <2> HIDE DEF longer
  <2>4. longer # <<>> /\ longer[1] = lines[1]
    BY <1>2, <2>2
  <2>5. ASSUME NEW i \in 1 .. Len(longer)
        PROVE  i # 1 => Columns(longer[i]) >= expected
    <3>1. CASE i = Len(out) + 1
      <4>1. longer[i] = new
        BY <3>1, <2>2
      <4> QED
        BY <4>1, <1>5, <1>7, <1>9
    <3>2. CASE i # Len(out) + 1
      <4>1. i \in 1 .. Len(out) /\ longer[i] = out[i] /\ (i # 1 => i \in 2 .. Len(out))
        BY <3>2, <2>2
      <4> QED
        BY <4>1, <1>2
    <3> QED
      BY <3>1, <3>2
  <2>6. \A i \in 2 .. Len(longer) : i \in 1 .. Len(longer) /\ i # 1
    BY <2>2
  <2>7. lines[k] # <<>> => longer[Len(longer)] # <<>>
    BY <1>6, <2>2
  <2> QED
    BY Zenon, <2>1, <2>2, <2>3, <2>4, <2>5, <2>6, <2>7 DEF LoopInv, expected
<1> QED
  BY <1>8, <1>9

LEMMA CleaningCleans ==
    ASSUME NEW text \in Texts, RawLines(text) # <<>>
    PROVE  \E lines : Clean(lines) /\ CleanTsvText(text) = Append(lines, <<>>)
<1> DEFINE raw == RawLines(text)  n == Len(raw)
<1>1. /\ raw \in Texts /\ raw # <<>> /\ raw[n] # <<>>
      /\ n \in Nat /\ n >= 1
  BY RawLinesType DEF EndsFull, Texts
<1>2. CleanTsvText(text) = Append(Flushed(Scan(raw)[n]), <<>>)
  BY DEF CleanTsvText
<1> HIDE DEF raw, n
<1>3. LoopInv(raw, n)
  <2> DEFINE S == {k \in 1 .. n : LoopInv(raw, k)}
  <2>1. 1 \in S
    BY <1>1, LoopStarts
  <2>2. ASSUME NEW k \in 1 + 1 .. n, k - 1 \in S PROVE k \in S
    <3>1. LoopInv(raw, k - 1) /\ k \in 2 .. n /\ k \in 1 .. n
      BY <2>2, <1>1
    <3>2. LoopInv(raw, k)
      BY <3>1, <1>1, LoopKeeps DEF n
    <3> QED
      BY <3>1, <3>2
  <2>3. 1 \in Nat /\ n \in Nat
    BY <1>1
  <2> HIDE DEF S
  <2>4. \A k \in 1 .. n : k \in S
    BY ZenonT(30), <2>1, <2>2, <2>3, IntervalInduction
  <2> QED
    BY <1>1, <2>4 DEF S
<1> DEFINE out == Scan(raw)[n].out  buf == Scan(raw)[n].buf
           lines == Flushed(Scan(raw)[n])
<1>4. /\ out \in Texts /\ out # <<>> /\ out[1] = raw[1] /\ buf \in Chars
      /\ \A i \in 2 .. Len(out) : Columns(out[i]) >= Columns(raw[1])
      /\ buf = <<>> => out[Len(out)] # <<>>
  BY Zenon, <1>1, <1>3 DEF LoopInv
<1>5. lines = IF buf = <<>> THEN out ELSE Append(out, buf)
  BY DEF Flushed
<1> HIDE DEF out, buf, lines
<1>6. CASE buf = <<>>
  <2>1. lines = out /\ \A i \in 2 .. Len(out) - 1 : i \in 2 .. Len(out)
    BY <1>4, <1>5, <1>6 DEF Texts
  <2> QED
    BY <2>1, <1>2, <1>4, <1>6 DEF Clean, EndsFull, lines
<1>7. CASE buf # <<>>
  <2>1. /\ lines \in Texts /\ Len(lines) = Len(out) + 1 /\ Len(out) \in Nat /\ Len(out) >= 1
        /\ lines[Len(out) + 1] = buf /\ \A i \in 1 .. Len(out) : lines[i] = out[i]
    BY <1>4, <1>5, <1>7 DEF Texts, Chars
  <2>2. lines # <<>> /\ lines[1] = raw[1] /\ EndsFull(lines)
    BY <2>1, <1>4, <1>7 DEF EndsFull
  <2>4. ASSUME NEW i \in 2 .. Len(lines) - 1 PROVE Columns(lines[i]) >= Columns(lines[1])
    <3>1. i \in 2 .. Len(out) /\ lines[i] = out[i]
      BY <2>1
    <3> QED
      BY <3>1, <2>2, <1>4
  <2>5. Clean(lines)
    BY <2>1, <2>2, <2>4 DEF Clean
  <2> QED
    BY <2>5, <1>2 DEF lines
<1> QED
  BY <1>6, <1>7

\* Whatever a text holds, cleaning it a second time changes nothing.
THEOREM CleaningIsIdempotent ==
    ASSUME NEW text \in Texts
    PROVE  CleanTsvText(CleanTsvText(text)) = CleanTsvText(text)
<1>1. CASE RawLines(text) # <<>>
  BY <1>1, CleaningCleans, CleanLinesStay
<1>2. CASE RawLines(text) = <<>>
  <2> DEFINE empty == << <<>> >>
  <2>1. CleanTsvText(text) = empty
    BY <1>2 DEF CleanTsvText
  <2>2. RawLines(empty) = <<>>
    BY DEF RawLines
  <2> HIDE DEF empty
  <2>3. CleanTsvText(empty) = empty
    BY <2>2 DEF CleanTsvText, empty
  <2> QED
    BY <2>1, <2>3
<1> QED
  BY <1>1, <1>2

----------------------------------------------------------------------------
(* Putting records back together *)

LEMMA GluedIsNotEmpty ==
    ASSUME NEW lines \in Texts, NEW i \in 1 .. Len(lines), lines[i] # <<>>
    PROVE  \A k \in i .. Len(lines) : Glued(lines, i, k) # <<>>
<1> TAKE k \in i .. Len(lines)
<1>1. CASE k = i
  BY <1>1, GluedIs
<1>2. CASE k # i
  <2>1. k \in i + 1 .. Len(lines) /\ k - 1 \in i .. Len(lines) /\ k \in 1 .. Len(lines)
    BY <1>2 DEF Texts
  <2>2. Glued(lines, i, k) = Glued(lines, i, k - 1) \o <<Space>> \o lines[k]
    BY <2>1, GluedIs
  <2>3. Glued(lines, i, k - 1) \in Chars
    BY <2>1, GluedIs
  <2>4. lines[k] \in Chars
    BY <2>1 DEF Texts, Chars
  <2> QED
    BY <2>2, <2>3, <2>4, CharAssumption DEF Chars
<1> QED
  BY <1>1, <1>2

\* The lines i to j of a record leave the loop as one row.
LEMMA RecordComesOut ==
    ASSUME NEW lines \in Texts, NEW i \in 2 .. Len(lines), NEW j \in i .. Len(lines),
           lines[i] # <<>>,
           \A k \in i .. j - 1 : Columns(Glued(lines, i, k)) < Columns(lines[1]),
           Columns(Glued(lines, i, j)) = Columns(lines[1]),
           NEW out, Scan(lines)[i - 1] = [out |-> out, buf |-> <<>>]
    PROVE  Scan(lines)[j] = [out |-> Append(out, Glued(lines, i, j)), buf |-> <<>>]
<1> DEFINE expected == Columns(lines[1])
           glued(k) == Glued(lines, i, k)
           buffer(k) == IF k < i THEN <<>> ELSE glued(k)
<1>1. /\ lines # <<>> /\ i \in Nat /\ j \in Nat /\ i - 1 \in Nat /\ i <= j
      /\ i \in 1 .. Len(lines) /\ lines[1] \in Chars
      /\ \A k \in i .. j : k \in 2 .. Len(lines) /\ k \in i .. Len(lines)
  <2>1. lines # <<>> /\ Len(lines) \in Nat /\ \A k \in 1 .. Len(lines) : lines[k] \in Chars
    BY DEF Texts, Chars
  <2>2. 1 \in 1 .. Len(lines)
    BY <2>1
  <2> QED
    BY <2>1, <2>2
<1>2. \A k \in i .. j : Candidate(buffer(k - 1), lines[k]) = glued(k)
  <2> TAKE k \in i .. j
  <2>1. CASE k = i
    <3>1. buffer(k - 1) = <<>>
      BY <2>1, <1>1
    <3> QED
      BY <1>1, <2>1, <3>1, GluedIs DEF Candidate
  <2>2. CASE k # i
    <3>1. ~ (k - 1 < i) /\ k \in i + 1 .. Len(lines) /\ k - 1 \in i .. Len(lines)
      BY <2>2, <1>1
    <3>2. buffer(k - 1) = glued(k - 1) /\ glued(k - 1) # <<>>
      BY <1>1, <3>1, GluedIsNotEmpty
    <3>3. glued(k) = glued(k - 1) \o <<Space>> \o lines[k]
      BY <1>1, <3>1, GluedIs
    <3> QED
      BY Zenon, <3>2, <3>3 DEF Candidate
  <2> QED
    BY <2>1, <2>2
<1>3. ASSUME NEW k \in i .. j, Scan(lines)[k - 1] = [out |-> out, buf |-> buffer(k - 1)]
      PROVE  /\ Columns(glued(k)) < expected => Scan(lines)[k] = [out |-> out, buf |-> glued(k)]
             /\ ~ (Columns(glued(k)) < expected)
                  => Scan(lines)[k] = [out |-> Append(out, glued(k)), buf |-> <<>>]
  <2> DEFINE buf == buffer(k - 1)
  <2>1. Scan(lines)[k - 1] = [out |-> out, buf |-> buf] /\ Candidate(buf, lines[k]) = glued(k)
    BY Zenon, <1>2, <1>3
  <2>2. k \in 2 .. Len(lines)
    BY <1>1
  <2> HIDE DEF buf, glued
  <2>3. /\ Columns(Candidate(buf, lines[k])) < expected
             => Scan(lines)[k] = [out |-> out, buf |-> Candidate(buf, lines[k])]
        /\ ~ (Columns(Candidate(buf, lines[k])) < expected)
             => Scan(lines)[k] = [out |-> Append(out, Candidate(buf, lines[k])), buf |-> <<>>]
    BY ZenonT(30), <2>1, <2>2, ScanStep
  <2> QED
    BY Zenon, <2>1, <2>3
<1> DEFINE S == {k \in i - 1 .. j - 1 : Scan(lines)[k] = [out |-> out, buf |-> buffer(k)]}
<1>4. \A k \in i - 1 .. j - 1 : k \in S
  <2>1. i - 1 \in S
    BY <1>1
  <2>2. ASSUME NEW k \in (i - 1) + 1 .. j - 1, k - 1 \in S PROVE k \in S
    <3>1. k \in i .. j /\ k \in i .. j - 1 /\ k \in i - 1 .. j - 1 /\ ~ (k < i)
      BY <2>2, <1>1
    <3>2. Scan(lines)[k - 1] = [out |-> out, buf |-> buffer(k - 1)]
      BY <2>2
    <3>3. Scan(lines)[k] = [out |-> out, buf |-> glued(k)]
      <4> HIDE DEF buffer
      <4> QED
        BY <1>3, <3>1, <3>2
    <3>4. buffer(k) = glued(k)
      BY <3>1
    <3> HIDE DEF buffer, glued
    <3> QED
      BY <3>1, <3>3, <3>4
  <2>3. j - 1 \in Nat
    BY <1>1
  <2> HIDE DEF S
  <2> QED
    BY ZenonT(30), <1>1, <2>1, <2>2, <2>3, IntervalInduction
<1>5. Scan(lines)[j - 1] = [out |-> out, buf |-> buffer(j - 1)]
  <2>1. j - 1 \in i - 1 .. j - 1
    BY <1>1
  <2> HIDE DEF buffer
  <2> QED
    BY <1>4, <2>1
<1>6. j \in i .. j /\ ~ (Columns(glued(j)) < expected)
  <2>1. expected \in Nat
    BY <1>1, ColumnsNat
  <2> QED
    BY <1>1, <2>1
<1> HIDE DEF buffer
<1> QED
  BY <1>3, <1>5, <1>6

LEMMA RejoinedIs ==
    ASSUME NEW lines \in Texts, NEW ends \in Cuts(Len(lines))
    PROVE  Rejoined(lines, ends) \in Texts /\ Len(Rejoined(lines, ends)) = Len(ends)
<1> DEFINE n == Len(lines)  m == Len(ends)  whole == Rejoined(lines, ends)
<1>1. n \in Nat /\ \A k \in 1 .. n : lines[k] \in Chars
  BY DEF Texts, Chars
<1>2. /\ m \in Nat /\ m >= 1 /\ ends \in [1 .. m -> 1 .. n] /\ ends[1] = 1
      /\ \A k \in 2 .. m : ends[k - 1] < ends[k]
  BY <1>1 DEF Cuts
<1> HIDE DEF n, m
<1>3. DOMAIN ends = 1 .. m /\ \A k \in 1 .. m : ends[k] \in 1 .. n
  BY <1>2
<1>4. whole = [k \in 1 .. m |-> IF k = 1 THEN lines[1] ELSE Glued(lines, ends[k - 1] + 1, ends[k])]
  BY Zenon, <1>3 DEF Rejoined
<1>5. ASSUME NEW k \in 1 .. m
      PROVE  (IF k = 1 THEN lines[1] ELSE Glued(lines, ends[k - 1] + 1, ends[k])) \in Chars
  <2>1. CASE k = 1
    BY <2>1, <1>1, <1>2, <1>3
  <2>2. CASE k # 1
    <3>1. ends[k - 1] + 1 \in 1 .. n /\ ends[k] \in ends[k - 1] + 1 .. n
      <4>1. k \in 2 .. m /\ k - 1 \in 1 .. m /\ k \in 1 .. m
        BY <2>2, <1>2
      <4> QED
        BY <4>1, <1>1, <1>2, <1>3
    <3>2. Glued(lines, ends[k - 1] + 1, ends[k]) \in Chars
      BY <3>1, GluedIs DEF n
    <3> QED
      BY <3>2, <2>2
  <2> QED
    BY <2>1, <2>2
<1> HIDE DEF whole
<1>6. whole \in [1 .. m -> Chars]
  BY <1>4, <1>5
<1> QED
  BY <1>2, <1>6 DEF Texts, Chars, whole, m

\* Records of any number and length, torn anywhere but at their start and in their
\* last column, come out whole.
THEOREM CleaningRestores ==
    ASSUME NEW text \in Texts, NEW ends \in Cuts(Len(RawLines(text))),
           RawLines(text)[1] # <<>>, IsTorn(RawLines(text), ends)
    PROVE  CleanTsvText(text) = Append(Rejoined(RawLines(text), ends), <<>>)
<1> DEFINE lines == RawLines(text)  n == Len(lines)  m == Len(ends)  whole == Rejoined(lines, ends)
<1>1. lines \in Texts /\ n \in Nat
  BY RawLinesType DEF Texts
<1>2. /\ m \in Nat /\ m >= 1 /\ ends \in [1 .. m -> 1 .. n] /\ ends[1] = 1 /\ ends[m] = n
      /\ \A k \in 2 .. m : ends[k - 1] < ends[k]
  BY <1>1 DEF Cuts
<1>3. lines # <<>>
  BY <1>1, <1>2
<1>4. CleanTsvText(text) = Append(Flushed(Scan(lines)[n]), <<>>)
  BY <1>3 DEF CleanTsvText
<1> HIDE DEF lines, n, m
<1>5. DOMAIN ends = 1 .. m /\ \A k \in 1 .. m : ends[k] \in 1 .. n
  BY <1>2
<1>6. /\ whole = [k \in 1 .. m |-> IF k = 1 THEN lines[1] ELSE Glued(lines, ends[k - 1] + 1, ends[k])]
      /\ whole[1] = lines[1]
      /\ \A k \in 2 .. m : whole[k] = Glued(lines, ends[k - 1] + 1, ends[k])
  <2>1. whole = [k \in 1 .. m |-> IF k = 1 THEN lines[1] ELSE Glued(lines, ends[k - 1] + 1, ends[k])]
    BY Zenon, <1>5 DEF Rejoined
  <2> HIDE DEF whole
  <2> QED
    BY <1>2, <2>1
<1>7. \A k \in 2 .. m : /\ ends[k - 1] + 1 \in 2 .. n /\ ends[k] \in ends[k - 1] + 1 .. n
                        /\ ends[k - 1] \in Nat
  <2> TAKE k \in 2 .. m
  <2>1. k - 1 \in 1 .. m /\ k \in 1 .. m
    BY <1>2
  <2> QED
    BY <2>1, <1>1, <1>2, <1>5
<1>8. whole \in Texts /\ Len(whole) = m
  BY Zenon, <1>1, RejoinedIs DEF lines, m
<1> HIDE DEF whole
<1>9. ASSUME NEW k \in 2 .. m, Scan(lines)[ends[k - 1]] = [out |-> SubSeq(whole, 1, k - 1), buf |-> <<>>]
      PROVE  Scan(lines)[ends[k]] = [out |-> SubSeq(whole, 1, k), buf |-> <<>>]
  <2> DEFINE i == ends[k - 1] + 1  j == ends[k]
  <2>1. /\ lines[i] # <<>>
        /\ \A p \in i .. j - 1 : Columns(Glued(lines, i, p)) < Columns(lines[1])
        /\ Columns(Glued(lines, i, j)) = Columns(lines[1])
    BY Zenon DEF IsTorn, lines, m
  <2>2. i \in 2 .. Len(lines) /\ j \in i .. Len(lines) /\ i - 1 = ends[k - 1]
    BY <1>7 DEF n
  <2> HIDE DEF i, j
  <2>3. Scan(lines)[j] = [out |-> Append(SubSeq(whole, 1, k - 1), Glued(lines, i, j)), buf |-> <<>>]
    BY <1>1, <1>9, <2>1, <2>2, RecordComesOut
  <2>4. Append(SubSeq(whole, 1, k - 1), whole[k]) = SubSeq(whole, 1, k)
    BY <1>2, <1>8 DEF Texts
  <2>5. whole[k] = Glued(lines, i, j)
    BY <1>6 DEF i, j
  <2> QED
    BY Zenon, <2>3, <2>4, <2>5 DEF j
<1> DEFINE S == {k \in 1 .. m : Scan(lines)[ends[k]] = [out |-> SubSeq(whole, 1, k), buf |-> <<>>]}
<1>10. \A k \in 1 .. m : k \in S
  <2>1. 1 \in S
    <3>1. SubSeq(whole, 1, 1) = <<whole[1]>>
      BY <1>2, <1>8, FirstOfSequence
    <3> QED
      BY <1>1, <1>2, <1>3, <1>6, <3>1, ScanIs
  <2>2. ASSUME NEW k \in 1 + 1 .. m, k - 1 \in S PROVE k \in S
    <3>1. k \in 2 .. m /\ k \in 1 .. m
      BY <2>2, <1>2
    <3> QED
      BY <1>9, <2>2, <3>1
  <2>3. 1 \in Nat
    OBVIOUS
  <2> HIDE DEF S
  <2> QED
    BY ZenonT(30), <1>2, <2>1, <2>2, <2>3, IntervalInduction
<1>11. Scan(lines)[n] = [out |-> whole, buf |-> <<>>]
  <2>1. m \in S
    <3> HIDE DEF S
    <3> QED
      BY <1>2, <1>10
  <2>2. SubSeq(whole, 1, m) = whole
    BY <1>8 DEF Texts
  <2> QED
    BY <1>2, <2>1, <2>2
<1>12. Flushed(Scan(lines)[n]) = whole
  BY <1>11 DEF Flushed
<1> QED
  BY <1>4, <1>12 DEF whole, lines

----------------------------------------------------------------------------
(* What read_text makes of a file *)

DiskChars == Seq(Char \cup {CarriageReturn})

\* There is no return in l.
NoReturns(l) == \A i \in DOMAIN l : l[i] # CarriageReturn

Parts == Texts \ {<< >>}

LEMMA SplitIs ==
    ASSUME NEW l \in DiskChars
    PROVE  /\ SplitAtReturns(l) \in Texts
           /\ NoReturns(l) => SplitAtReturns(l) = <<l>>
<1> DEFINE n == Len(l)
           cut(parts, k) == IF l[k] = CarriageReturn THEN Append(parts, <<>>)
                            ELSE [parts EXCEPT ![Len(parts)] = Append(@, l[k])]
           F == [k \in 0 .. n |-> [parts \in Parts |-> IF k = 0 THEN parts ELSE cut(parts, k)]]
           split == CHOOSE g : g = [k \in 0 .. n |->
                       IF k = 0 THEN << <<>> >>
                       ELSE IF l[k] = CarriageReturn THEN Append(g[k - 1], <<>>)
                       ELSE [g[k - 1] EXCEPT ![Len(g[k - 1])] = Append(@, l[k])]]
<1>1. /\ 0 \in Nat /\ n \in Nat /\ << <<>> >> \in Parts
      /\ \A k \in 1 .. n : l[k] \in Char \cup {CarriageReturn}
  BY DEF DiskChars, Parts, Texts
<1> HIDE DEF n
<1>2. ASSUME NEW k \in 1 .. n, NEW parts \in Parts PROVE cut(parts, k) \in Parts
  <2>1. parts \in Seq(Chars) /\ Len(parts) \in Nat /\ Len(parts) >= 1
    BY DEF Parts, Texts, Chars
  <2>2. Append(parts, <<>>) \in Parts
    BY <2>1 DEF Parts, Texts, Chars
  <2>3. ASSUME l[k] # CarriageReturn
        PROVE  [parts EXCEPT ![Len(parts)] = Append(@, l[k])] \in Parts
    <3>1. l[k] \in Char /\ parts[Len(parts)] \in Chars
      BY <1>1, <2>1, <2>3
    <3>2. Append(parts[Len(parts)], l[k]) \in Chars
      BY <3>1 DEF Chars
    <3> DEFINE longer == Append(parts[Len(parts)], l[k])
    <3> HIDE DEF longer
    <3>3. [parts EXCEPT ![Len(parts)] = longer] \in Seq(Chars)
          /\ Len([parts EXCEPT ![Len(parts)] = longer]) = Len(parts)
      BY <2>1, <3>2 DEF longer
    <3>4. [parts EXCEPT ![Len(parts)] = longer] # <<>>
      BY <2>1, <3>3
    <3> QED
      BY <3>3, <3>4 DEF Parts, Texts, Chars, longer
  <2> QED
    BY <2>2, <2>3
<1> HIDE DEF cut
<1>3. F \in [0 .. n -> [Parts -> Parts]]
  BY <1>1, <1>2
<1>4. PICK f \in [0 .. n -> Parts] : Follows(f, 0, n, << <<>> >>, F)
  <2> HIDE DEF F
  <2> QED
    BY Zenon, <1>1, <1>3, Recursion
<1>5. f = [k \in 0 .. n |->
               IF k = 0 THEN << <<>> >>
               ELSE IF l[k] = CarriageReturn THEN Append(f[k - 1], <<>>)
               ELSE [f[k - 1] EXCEPT ![Len(f[k - 1])] = Append(@, l[k])]]
  <2>1. ASSUME NEW k \in 0 .. n
        PROVE  f[k] = IF k = 0 THEN << <<>> >> ELSE cut(f[k - 1], k)
    <3>1. CASE k = 0
      BY <3>1, <1>4 DEF Follows
    <3>2. CASE k # 0
      <4>1. f[k - 1] \in Parts
        BY <3>2, <1>1
      <4> QED
        BY <3>2, <4>1, <1>4 DEF Follows
    <3> QED
      BY <3>1, <3>2
  <2> QED
    BY <2>1 DEF cut
<1>6. split = [k \in 0 .. n |->
               IF k = 0 THEN << <<>> >>
               ELSE IF l[k] = CarriageReturn THEN Append(split[k - 1], <<>>)
               ELSE [split[k - 1] EXCEPT ![Len(split[k - 1])] = Append(@, l[k])]]
  BY Zenon, <1>5
<1>7. SplitAtReturns(l) = split[n]
  BY Zenon DEF SplitAtReturns, n
<1> HIDE DEF split, F
<1>8. split[0] = << <<>> >> /\ \A k \in 1 .. n : split[k] = cut(split[k - 1], k)
  <2>1. 0 \in 0 .. n /\ \A k \in 1 .. n : k \in 0 .. n /\ k # 0
    BY <1>1
  <2> QED
    BY <1>6, <2>1 DEF cut
<1> DEFINE Good(k) == split[k] \in Parts /\ (NoReturns(l) => split[k] = <<SubSeq(l, 1, k)>>)
           S == {k \in 0 .. n : Good(k)}
<1>9. \A k \in 0 .. n : k \in S
  <2>1. 0 <= n => 0 \in S
    <3>1. SubSeq(l, 1, 0) = <<>>
      BY DEF DiskChars
    <3>2. split[0] = <<SubSeq(l, 1, 0)>> /\ split[0] \in Parts /\ 0 \in 0 .. n
      BY <1>1, <1>8, <3>1
    <3> QED
      BY <3>2
  <2>2. ASSUME NEW k \in 0 + 1 .. n, k - 1 \in S PROVE k \in S
    <3>1. Good(k - 1) /\ k \in 1 .. n /\ k \in 0 .. n /\ split[k] = cut(split[k - 1], k)
      BY <1>1, <1>8, <2>2
    <3>2. split[k] \in Parts
      BY <1>2, <3>1
    <3>3. NoReturns(l) => split[k] = <<SubSeq(l, 1, k)>>
      <4> SUFFICES ASSUME NoReturns(l) PROVE split[k] = <<SubSeq(l, 1, k)>>
        OBVIOUS
      <4>1. l[k] # CarriageReturn
        BY <1>1, <3>1 DEF NoReturns, n, DiskChars
      <4>2. Append(SubSeq(l, 1, k - 1), l[k]) = SubSeq(l, 1, k)
        BY <1>1, <3>1 DEF n, DiskChars
      <4>3. split[k - 1] = <<SubSeq(l, 1, k - 1)>>
        BY <3>1
      <4> DEFINE s == SubSeq(l, 1, k - 1)
      <4>4. cut(<<s>>, k) = <<Append(s, l[k])>>
        BY <4>1 DEF cut
      <4> QED
        BY Zenon, <3>1, <4>2, <4>3, <4>4
    <3> QED
      BY <3>1, <3>2, <3>3
  <2> HIDE DEF S
  <2> QED
    BY ZenonT(30), <1>1, <2>1, <2>2, IntervalInduction
<1>10. Good(n)
  BY <1>1, <1>9
<1>11. SubSeq(l, 1, n) = l
  BY DEF DiskChars, n
<1> QED
  BY <1>7, <1>10, <1>11 DEF Parts

LEMMA WithoutEndingIs ==
    ASSUME NEW l \in DiskChars
    PROVE  WithoutEnding(l) \in DiskChars /\ (NoReturns(l) => WithoutEnding(l) = l)
<1>1. /\ DOMAIN l = 1 .. Len(l) /\ Len(l) \in Nat /\ (l # <<>> => Len(l) \in 1 .. Len(l))
      /\ l # <<>> => SubSeq(l, 1, Len(l) - 1) \in DiskChars
  BY DEF DiskChars
<1> QED
  BY <1>1 DEF WithoutEnding, NoReturns

LEMMA ReadTextIs ==
    ASSUME NEW disk \in DiskFiles
    PROVE  /\ ReadText(disk) \in Texts
           /\ ~HasReturns(disk) => ReadText(disk) = disk
<1> DEFINE n == Len(disk)
           part(k) == IF k < Len(disk) THEN WithoutEnding(disk[k]) ELSE disk[k]
           F == [k \in 0 .. n |-> [s \in Texts |->
                    IF k = 0 THEN s ELSE s \o SplitAtReturns(part(k))]]
           read == CHOOSE g : g = [k \in 0 .. n |->
                       IF k = 0 THEN <<>>
                       ELSE g[k - 1] \o SplitAtReturns(
                                IF k < Len(disk) THEN WithoutEnding(disk[k]) ELSE disk[k])]
<1>1. 0 \in Nat /\ n \in Nat /\ <<>> \in Texts /\ \A k \in 1 .. n : disk[k] \in DiskChars
  BY DEF DiskFiles, DiskChars, Texts
<1>2. \A k \in 1 .. n : /\ SplitAtReturns(part(k)) \in Texts
                        /\ ~HasReturns(disk) => SplitAtReturns(part(k)) = <<disk[k]>>
  <2> TAKE k \in 1 .. n
  <2>1. disk[k] \in DiskChars
    BY <1>1
  <2>2. ~HasReturns(disk) => NoReturns(disk[k])
    <3>1. k \in DOMAIN disk
      BY DEF DiskFiles
    <3> QED
      BY <3>1 DEF HasReturns, NoReturns
  <2>3. part(k) \in DiskChars /\ (~HasReturns(disk) => part(k) = disk[k])
    BY <2>1, <2>2, WithoutEndingIs
  <2> HIDE DEF part
  <2> QED
    BY <2>2, <2>3, SplitIs
<1> HIDE DEF n, part
<1>3. F \in [0 .. n -> [Texts -> Texts]]
  <2> SUFFICES ASSUME NEW k \in 1 .. n, NEW s \in Texts PROVE s \o SplitAtReturns(part(k)) \in Texts
    BY <1>1
  <2>1. SplitAtReturns(part(k)) \in Texts
    BY <1>2
  <2> QED
    BY <2>1 DEF Texts
<1>4. PICK f \in [0 .. n -> Texts] : Follows(f, 0, n, <<>>, F)
  <2> HIDE DEF F
  <2> QED
    BY Zenon, <1>1, <1>3, Recursion
<1>5. f = [k \in 0 .. n |->
               IF k = 0 THEN <<>>
               ELSE f[k - 1] \o SplitAtReturns(
                        IF k < Len(disk) THEN WithoutEnding(disk[k]) ELSE disk[k])]
  <2>1. ASSUME NEW k \in 0 .. n
        PROVE  f[k] = IF k = 0 THEN <<>> ELSE f[k - 1] \o SplitAtReturns(part(k))
    <3>1. CASE k = 0
      BY <3>1, <1>4 DEF Follows
    <3>2. CASE k # 0
      <4>1. f[k - 1] \in Texts
        BY <3>2, <1>1
      <4> QED
        BY <3>2, <4>1, <1>4 DEF Follows
    <3> QED
      BY <3>1, <3>2
  <2> QED
    BY <2>1 DEF part
<1>6. read = [k \in 0 .. n |->
               IF k = 0 THEN <<>>
               ELSE read[k - 1] \o SplitAtReturns(
                        IF k < Len(disk) THEN WithoutEnding(disk[k]) ELSE disk[k])]
  BY Zenon, <1>5
<1>7. ReadText(disk) = read[n]
  BY Zenon DEF ReadText, n
<1> HIDE DEF read, F
<1>8. read[0] = <<>> /\ \A k \in 1 .. n : read[k] = read[k - 1] \o SplitAtReturns(part(k))
  <2>1. 0 \in 0 .. n /\ \A k \in 1 .. n : k \in 0 .. n /\ k # 0
    BY <1>1
  <2> QED
    BY <1>6, <2>1 DEF part
<1> DEFINE Good(k) == read[k] \in Texts /\ (~HasReturns(disk) => read[k] = SubSeq(disk, 1, k))
           S == {k \in 0 .. n : Good(k)}
<1>9. \A k \in 0 .. n : k \in S
  <2>1. 0 <= n => 0 \in S
    <3>1. SubSeq(disk, 1, 0) = <<>>
      BY DEF DiskFiles
    <3>2. read[0] = SubSeq(disk, 1, 0) /\ read[0] \in Texts /\ 0 \in 0 .. n
      BY <1>1, <1>8, <3>1
    <3> QED
      BY <3>2
  <2>2. ASSUME NEW k \in 0 + 1 .. n, k - 1 \in S PROVE k \in S
    <3>1. /\ Good(k - 1) /\ k \in 1 .. n /\ k \in 0 .. n
          /\ read[k] = read[k - 1] \o SplitAtReturns(part(k))
      BY <1>1, <1>8, <2>2
    <3>2. read[k] \in Texts
      <4>1. SplitAtReturns(part(k)) \in Texts /\ read[k - 1] \in Texts
        BY <1>2, <3>1
      <4> QED
        BY <3>1, <4>1 DEF Texts
    <3>3. ~HasReturns(disk) => read[k] = SubSeq(disk, 1, k)
      <4> SUFFICES ASSUME ~HasReturns(disk) PROVE read[k] = SubSeq(disk, 1, k)
        OBVIOUS
      <4>1. SplitAtReturns(part(k)) = <<disk[k]>> /\ read[k - 1] = SubSeq(disk, 1, k - 1)
        BY <1>2, <3>1
      <4>2. SubSeq(disk, 1, k - 1) \o <<disk[k]>> = SubSeq(disk, 1, k)
        BY <1>1, <3>1 DEF n, DiskFiles
      <4> QED
        BY Zenon, <3>1, <4>1, <4>2
    <3> QED
      BY <3>1, <3>2, <3>3
  <2> HIDE DEF S
  <2> QED
    BY ZenonT(30), <1>1, <2>1, <2>2, IntervalInduction
<1>10. Good(n)
  BY <1>1, <1>9
<1>11. SubSeq(disk, 1, n) = disk
  BY DEF DiskFiles, n
<1> QED
  BY <1>7, <1>10, <1>11

\* A text is a file without returns.
LEMMA TextsAreFiles ==
    ASSUME NEW text \in Texts
    PROVE  text \in DiskFiles /\ ~HasReturns(text) /\ ReadText(text) = text
<1>1. \A i \in DOMAIN text : /\ text[i] \in DiskChars
                             /\ \A j \in DOMAIN text[i] : text[i][j] # CarriageReturn
  <2> TAKE i \in DOMAIN text
  <2>1. text[i] \in Seq(Char)
    BY DEF Texts
  <2> QED
    BY <2>1, CharAssumption DEF DiskChars
<1>2. text \in DiskFiles
  BY <1>1 DEF DiskFiles, DiskChars, Texts
<1>3. ~HasReturns(text)
  BY <1>1 DEF HasReturns
<1> QED
  BY <1>2, <1>3, ReadTextIs

----------------------------------------------------------------------------
(* Cleaning a file, and all files *)

LEMMA CleanedText ==
    ASSUME NEW text \in Texts
    PROVE  /\ CleanTsvText(text) \in Texts
           /\ RawLines(CleanTsvText(text)) = <<>> <=> RawLines(text) = <<>>
<1>1. CASE RawLines(text) = <<>>
  <2>1. CleanTsvText(text) = << <<>> >>
    BY <1>1 DEF CleanTsvText
  <2>2. RawLines(<< <<>> >>) = <<>> /\ << <<>> >> \in Texts
    BY DEF RawLines, Texts
  <2> QED
    BY <1>1, <2>1, <2>2
<1>2. CASE RawLines(text) # <<>>
  <2>1. PICK lines : Clean(lines) /\ CleanTsvText(text) = Append(lines, <<>>)
    BY <1>2, CleaningCleans
  <2>2. lines \in Texts /\ lines # <<>> /\ RawLines(Append(lines, <<>>)) = lines
    BY <2>1, RawLinesUndoesAppend DEF Clean
  <2>3. Append(lines, <<>>) \in Texts
    BY <2>2 DEF Texts
  <2> QED
    BY <1>2, <2>1, <2>2, <2>3
<1> QED
  BY <1>1, <1>2

LEMMA CleanFileIs ==
    ASSUME NEW disk \in DiskFiles
    PROVE  /\ CleanFile(disk) \in DiskFiles
           /\ CleanFile(CleanFile(disk)) = CleanFile(disk)
           /\ HasLines(CleanFile(disk)) <=> HasLines(disk)
           /\ ~HasReturns(CleanFile(disk)) => CleanFile(disk) = CleanTsvText(ReadText(disk))
<1> DEFINE text == ReadText(disk)  clean == CleanTsvText(text)
<1>1. text \in Texts /\ (~HasReturns(disk) => text = disk)
  BY ReadTextIs
<1>2. CASE clean = text
  <2>1. CleanFile(disk) = disk
    BY <1>2 DEF CleanFile
  <2> QED
    BY <1>1, <1>2, <2>1
<1>3. CASE clean # text
  <2>1. CleanFile(disk) = clean
    BY <1>3 DEF CleanFile
  <2>2. clean \in Texts /\ (RawLines(clean) = <<>> <=> RawLines(text) = <<>>)
    BY <1>1, CleanedText
  <2>3. clean \in DiskFiles /\ ReadText(clean) = clean
    BY <2>2, TextsAreFiles
  <2>4. CleanTsvText(clean) = clean
    BY <1>1, CleaningIsIdempotent
  <2>5. CleanFile(clean) = clean
    BY <2>3, <2>4 DEF CleanFile
  <2>6. HasLines(clean) <=> HasLines(disk)
    BY <2>2, <2>3 DEF HasLines
  <2> QED
    BY <2>1, <2>3, <2>5, <2>6
<1> QED
  BY <1>2, <1>3

LEMMA TsvFilesAreTables ==
    DOMAIN TsvFiles = 1 .. 4 /\ \A i \in 1 .. 4 : TsvFiles[i] \in Table
  BY DEF TsvFiles, Table

LEMMA CleanAllIs ==
    ASSUME NEW files \in [Table -> DiskFiles]
    PROVE  /\ CleanAll(files) \in [Table -> DiskFiles]
           /\ CleanAll(CleanAll(files)) = CleanAll(files)
<1> DEFINE clean == CleanAll(files)
<1>1. ASSUME NEW t \in Table
      PROVE  /\ clean[t] = IF Reached(files, t) THEN CleanFile(files[t]) ELSE files[t]
             /\ clean[t] \in DiskFiles
             /\ HasLines(clean[t]) <=> HasLines(files[t])
  <2>1. clean[t] = IF Reached(files, t) THEN CleanFile(files[t]) ELSE files[t]
    BY DEF CleanAll
  <2> QED
    BY <2>1, CleanFileIs
<1>2. clean \in [Table -> DiskFiles]
  BY <1>1 DEF CleanAll
<1> HIDE DEF clean
<1>3. ASSUME NEW t \in Table PROVE Reached(clean, t) <=> Reached(files, t)
  <2>1. \A i \in 1 .. 4 : HasLines(clean[TsvFiles[i]]) <=> HasLines(files[TsvFiles[i]])
    BY <1>1, TsvFilesAreTables
  <2>2. \A n \in 1 .. 4 : \A i \in 1 .. n - 1 : i \in 1 .. 4
    OBVIOUS
  <2> QED
    BY <2>1, <2>2, TsvFilesAreTables DEF Reached
<1>4. ASSUME NEW t \in Table PROVE CleanAll(clean)[t] = clean[t]
  <2>1. CleanAll(clean)[t] = IF Reached(clean, t) THEN CleanFile(clean[t]) ELSE clean[t]
    BY DEF CleanAll
  <2>2. Reached(files, t) => CleanFile(clean[t]) = clean[t]
    BY <1>1, CleanFileIs
  <2> QED
    BY <1>3, <2>1, <2>2
<1>5. CleanAll(clean) = clean
  <2>1. CleanAll(clean) = [t \in Table |-> CleanAll(clean)[t]] /\ clean = [t \in Table |-> clean[t]]
    BY <1>2 DEF CleanAll
  <2> QED
    BY <1>4, <2>1
<1> QED
  BY <1>2, <1>5 DEF clean

----------------------------------------------------------------------------
(* The import's files *)

\* What FilesInv says of the files.
FilesOwn ==
    /\ exported \in Export
    /\ cleaned \in BOOLEAN
    /\ dataDir = IF cleaned THEN CleanAll(exported) ELSE exported
    /\ file = Loaded(dataDir)

LEMMA CleanedAgain ==
    ASSUME FilesOwn
    PROVE  CleanAll(dataDir) = CleanAll(exported)
<1>1. exported \in [Table -> DiskFiles]
  BY ExportAssumption DEF FilesOwn
<1> QED
  BY <1>1, CleanAllIs DEF FilesOwn

LEMMA FilesStep == FilesOwn /\ [FilesNext]_filesVars => FilesOwn' /\ [Next]_vars
<1> SUFFICES ASSUME FilesOwn, [FilesNext]_filesVars PROVE FilesOwn' /\ [Next]_vars
  OBVIOUS
<1>1. CASE UNCHANGED filesVars
  BY <1>1 DEF filesVars, fileVars, vars, importVars, FilesOwn, Loaded, LinesOf, CleanAll,
         Reached, HasLines
<1>2. ASSUME Import \/ Crash \/ (\E n \in New : Save(n)) \/ (\E b \in rows["tb_blog"] : LikeBlog(b)),
             UNCHANGED fileVars
      PROVE  FilesOwn' /\ [Next]_vars
  <2>1. file' = file
    BY <1>2 DEF Import, Truncate, LoadData, MergeRow, MergeEnds, CommitWork, ResetAutoIncrement,
           RecordVersion, Crash, Save, LikeBlog, importVars
  <2>2. FilesOwn'
    BY <1>2, <2>1 DEF fileVars, FilesOwn, Loaded, LinesOf, CleanAll, Reached, HasLines
  <2>3. Next
    BY <1>2 DEF Next
  <2> QED
    BY <2>2, <2>3
<1>3. ASSUME NEW e \in Export, NEW clean \in BOOLEAN, Supply(e, clean)
      PROVE  FilesOwn' /\ [Next]_vars
  <2>1. Loaded(dataDir') \in File
    BY <1>3, ExportAssumption DEF Supply
  <2>2. FilesOwn'
    BY <1>3 DEF Supply, Rerun, FilesOwn, Loaded, LinesOf, CleanAll, Reached, HasLines
  <2>3. Next
    BY <1>3, <2>1 DEF Supply, Next
  <2> QED
    BY <2>2, <2>3
<1>4. ASSUME NEW clean \in BOOLEAN, Again(clean)
      PROVE  FilesOwn' /\ [Next]_vars
  <2>1. dataDir' = IF cleaned' THEN CleanAll(exported) ELSE exported
    BY <1>4, CleanedAgain DEF Again, FilesOwn
  <2>2. Loaded(dataDir') \in File
    BY <2>1, ExportAssumption DEF FilesOwn
  <2>3. FilesOwn'
    BY <1>4, <2>1 DEF Again, Rerun, FilesOwn, Loaded, LinesOf, CleanAll, Reached, HasLines
  <2>4. Next
    BY <1>4, <2>2 DEF Again, Next
  <2> QED
    BY <2>3, <2>4
<1> QED
  BY <1>1, <1>2, <1>3, <1>4 DEF FilesNext

LEMMA FilesStart == FilesInit => Init /\ FilesOwn
  BY DEF FilesInit, FilesOwn

\* What V3 has loaded of a cleaned file is its records, whole, whatever its records are.
LEMMA StagedWhole == FilesInv /\ FilesOwn => FilesComeWhole
<1> SUFFICES ASSUME FilesInv, FilesOwn, cleaned, NEW t \in Table, Past(Load(t)),
                    Reached(exported, t), ~HasReturns(dataDir[t]),
                    NEW records \in RecordsOf[exported][t]
             PROVE  stage[t] = records
  BY DEF FilesComeWhole
<1> DEFINE text == ReadText(exported[t])  lines == RawLines(text)
<1>1. exported \in Export /\ exported[t] \in DiskFiles
  BY ExportAssumption DEF FilesOwn
<1>2. text \in Texts /\ lines \in Texts
  BY <1>1, ReadTextIs, RawLinesType
<1>3. dataDir[t] = CleanTsvText(text)
  <2>1. dataDir[t] = CleanFile(exported[t])
    BY DEF FilesOwn, CleanAll
  <2> QED
    BY <1>1, <2>1, CleanFileIs
<1>4. records \in Records(exported, t)
  BY <1>1 DEF RecordsOf
<1>5. PICK ends \in Cuts(Len(lines)) :
        /\ lines[1] # <<>> /\ IsTorn(lines, ends)
        /\ records = [i \in 1 .. Len(ends) - 1 |-> LineOf(t, Rejoined(lines, ends)[i + 1])]
  BY <1>4 DEF Records
<1> DEFINE whole == Rejoined(lines, ends)  m == Len(ends)
<1>6. dataDir[t] = Append(whole, <<>>)
  BY <1>2, <1>3, <1>5, CleaningRestores
<1>7. whole \in Texts /\ Len(whole) = m
  BY <1>2, RejoinedIs
<1>8. records = [i \in 1 .. m - 1 |-> LineOf(t, whole[i + 1])]
  BY <1>5
<1>9. stage[t] = LinesOf(t, dataDir[t])
  BY DEF FilesInv, FilesOwn, MergeInv, StagedSoFar, Loaded
<1> HIDE DEF whole, m
<1>10. /\ m \in Nat /\ Len(Append(whole, <<>>)) = m + 1 /\ Append(whole, <<>>)[m + 1] = <<>>
       /\ \A i \in 1 .. m - 1 : Append(whole, <<>>)[i + 1] = whole[i + 1]
  BY <1>7 DEF Texts
<1>11. LinesOf(t, Append(whole, <<>>)) = [i \in 1 .. m - 1 |-> LineOf(t, Append(whole, <<>>)[i + 1])]
  BY <1>10 DEF LinesOf
<1> QED
  BY <1>6, <1>8, <1>9, <1>10, <1>11

\* The operator with exports and clean_tsv.py is the operator of SeedImport: whatever
\* holds of every import holds of these.
THEOREM FilesAreImported == FilesSpec => Spec
<1>1. FilesSpec => []FilesOwn
  BY FilesStart, FilesStep, PTL DEF FilesSpec
<1> QED
  BY <1>1, FilesStart, FilesStep, PTL DEF FilesSpec, Spec

\* However often the files were cleaned, they are the export or the export cleaned once,
\* and the import in hand is of them.
THEOREM FilesHold == FilesSpec => []FilesInv
<1>1. FilesSpec => []FilesOwn
  BY FilesStart, FilesStep, PTL DEF FilesSpec
<1>2. MergeInv /\ FilesOwn => FilesInv
  BY DEF FilesInv, FilesOwn
<1> QED
  BY <1>1, <1>2, FilesAreImported, MergeInvariance, PTL

\* Exports of any size, torn apart in any way the docstring allows, cleaned any number of
\* times, imported through any crashes and re-runs: what V3 has loaded are the records.
THEOREM WholeRecordsAreLoaded == FilesSpec => []FilesComeWhole
<1>1. FilesSpec => []FilesOwn
  BY FilesStart, FilesStep, PTL DEF FilesSpec
<1> QED
  BY <1>1, FilesHold, StagedWhole, PTL
=============================================================================
