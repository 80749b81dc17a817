------------------------------ MODULE CleanTsv ------------------------------
(***************************************************************************)
(* clean_tsv.py: it puts records back together that line breaks inside a   *)
(* field have torn apart, by counting tabs.                                *)
(*                                                                         *)
(* A file is cut at its line feeds, as V3's LOAD DATA cuts it: "" is one   *)
(* empty line, and a return is a character of the line it stands in.  A    *)
(* text is what read_text makes of a file: there are no returns in it.     *)
(***************************************************************************)
EXTENDS Integers, Sequences, FiniteSets

CONSTANT Char           \* the characters a text may hold

Tab == "tab"
CarriageReturn == "return"
Space == "space"

ASSUME CharAssumption == Space \in Char /\ CarriageReturn \notin Char

Texts == Seq(Seq(Char))

DiskFiles == Seq(Seq(Char \cup {CarriageReturn}))

\* The return of "\r\n" goes with the line feed.
WithoutEnding(part) ==
    IF part # <<>> /\ part[Len(part)] = CarriageReturn
    THEN SubSeq(part, 1, Len(part) - 1)
    ELSE part

\* Any other return ends a line as well.
SplitAtReturns(part) ==
    LET split[k \in 0 .. Len(part)] ==
            IF k = 0 THEN << <<>> >>
            ELSE IF part[k] = CarriageReturn THEN Append(split[k - 1], <<>>)
            ELSE [split[k - 1] EXCEPT ![Len(split[k - 1])] = Append(@, part[k])]
    IN  split[Len(part)]

\* p.read_text: universal newlines, which leave text.replace("\r", "") nothing.
ReadText(disk) ==
    LET read[k \in 0 .. Len(disk)] ==
            IF k = 0 THEN <<>>
            ELSE read[k - 1]
                    \o SplitAtReturns(IF k < Len(disk) THEN WithoutEnding(disk[k]) ELSE disk[k])
    IN  read[Len(disk)]

Columns(part) == Cardinality({i \in DOMAIN part : part[i] = Tab}) + 1

\* The empty lines at the end are dropped.
RawLines(text) ==
    LET full == {i \in DOMAIN text : text[i] # <<>>}
    IN  IF full = {} THEN <<>>
        ELSE SubSeq(text, 1, CHOOSE i \in full : \A j \in full : j <= i)

Candidate(buf, part) == IF buf = <<>> THEN part ELSE buf \o <<Space>> \o part

\* Mutant of TakeLine: the buffer is not emptied.
TakeLineKeeps(expected, acc, part) ==
    LET candidate == Candidate(acc.buf, part)
    IN  IF Columns(candidate) < expected
        THEN [acc EXCEPT !.buf = candidate]
        ELSE [acc EXCEPT !.out = Append(@, candidate)]

\* One turn of the loop: too few columns go to the buffer, enough or too many
\* go out.
TakeLine(expected, acc, part) ==
    LET candidate == Candidate(acc.buf, part)
    IN  IF Columns(candidate) < expected
        THEN [acc EXCEPT !.buf = candidate]
        ELSE [out |-> Append(acc.out, candidate), buf |-> <<>>]

\* The loop, as far as each line.
Scan(lines) ==
    LET scan[k \in 1 .. Len(lines)] ==
            IF k = 1 THEN [out |-> <<lines[1]>>, buf |-> <<>>]
            ELSE TakeLine(Columns(lines[1]), scan[k - 1], lines[k])
    IN  scan

\* What is left in the buffer goes out as well.
Flushed(acc) == IF acc.buf = <<>> THEN acc.out ELSE Append(acc.out, acc.buf)

\* "\n".join(out) + "\n"
CleanTsvText(text) ==
    LET lines == RawLines(text)
    IN  IF lines = <<>> THEN << <<>> >>
        ELSE Append(Flushed(Scan(lines)[Len(lines)]), <<>>)

\* clean_file: a text that is clean already is not written back, so that its file
\* keeps its returns.
CleanFile(disk) ==
    IF CleanTsvText(ReadText(disk)) = ReadText(disk) THEN disk ELSE CleanTsvText(ReadText(disk))

----------------------------------------------------------------------------
(* What the docstring promises *)

\* Lines i to j as one, with a space for each break between them.
Glued(lines, i, j) ==
    LET glued[k \in i .. Len(lines)] ==
            IF k = i THEN lines[i] ELSE glued[k - 1] \o <<Space>> \o lines[k]
    IN  glued[j]

\* Where the records of n lines may end; the header is the first of them.
Cuts(n) ==
    {ends \in UNION {[1 .. k -> 1 .. n] : k \in 1 .. n} :
        /\ ends[1] = 1 /\ ends[Len(ends)] = n
        /\ \A k \in 2 .. Len(ends) : ends[k - 1] < ends[k]}

\* Records torn apart in a way that can be undone: anywhere but at their start
\* and in their last column.
IsTorn(lines, ends) ==
    \A k \in 2 .. Len(ends) :
        LET first == ends[k - 1] + 1
        IN  /\ lines[first] # <<>>
            /\ \A j \in first .. ends[k] - 1 : Columns(Glued(lines, first, j)) < Columns(lines[1])
            /\ Columns(Glued(lines, first, ends[k])) = Columns(lines[1])

Rejoined(lines, ends) ==
    [k \in DOMAIN ends |-> IF k = 1 THEN lines[1] ELSE Glued(lines, ends[k - 1] + 1, ends[k])]
=============================================================================
