------------------------------- MODULE UpLoad -------------------------------
(***************************************************************************)
(* code/upload.cpp: the CGI program that takes a multipart body from its   *)
(* standard input apart, through one buffer, and stores the files in it.   *)
(* The body comes through a pipe: a read returns what is there, from one   *)
(* unit to as many as were asked for.                                      *)
(*                                                                         *)
(* A unit is what the program compares as a whole: a line end (N), two     *)
(* dashes (D), the boundary string (B), a header that names a file (F), a  *)
(* file with an empty name (E: what a form sends in which none was         *)
(* chosen), no file (H), or has no Content-Disposition (X); anything else  *)
(* is content.  A step is one ReadContent and what the program does until  *)
(* the next one.  Comparisons do not stop at _buf_clen: they see what an   *)
(* earlier use of the buffer has left.  open may fail, and write may fail  *)
(* or take less than it is given.                                          *)
(***************************************************************************)
EXTENDS Integers, Sequences, SequencesExt

CONSTANTS
    MAX_BUFF,
    Units,          \* what a body is made of
    Bodies,         \* the bodies clients send, each a sequence of parts
    OldFile,        \* what a file of the same name holds before the upload
    MaxLost         \* units that write has lost when it fails no more

N == "N"
D == "D"
B == "B"
F == "F"
E == "E"
H == "H"
X == "X"
Garbage == "?"      \* what the stack held
Lost == "lost"      \* a unit that write has not taken

_f_boundry == <<D, B>>
_m_boundry == <<N, D, B, N>>
_l_boundry == <<N, D, B, D>>

Heads == {F, E, H, X}
Part == [header : Heads, content : Seq(Units)]

\* The units of a part from its header on, and of a whole body.
PartUnits(p) == <<p.header, N, N>> \o p.content
BodyUnits(body) ==
    <<D, B, N>> \o
    FlattenSeq([i \in 1..Len(body) |->
                  PartUnits(body[i]) \o
                  (IF i < Len(body) THEN _m_boundry ELSE _l_boundry)])

ASSUME UpLoadAssumption ==
    /\ {N, D, B, Garbage} \union Heads \subseteq Units
    /\ Lost \notin Units
    /\ OldFile \in Seq(Units)
    /\ MAX_BUFF \in Nat /\ MaxLost \in Nat
    /\ MAX_BUFF >= 7            \* a boundary and a header fit
    /\ \A b \in Bodies : b # << >> /\ b \in Seq(Part)

VARIABLES
    body,           \* the parts the client sends
    input,          \* the units that have not been read
    buf,            \* _tmp_buf and _buf_clen
    pc,             \* "header": GetBoundry, "store": StoreFile, "drop":
                    \* DropData, "end"
    part,           \* history: how many headers have been parsed
    written,        \* the units given to write for the file of each part
    refused,        \* history: open has failed
    short,          \* history: a read has returned less than was asked for
    result          \* what main prints, if it does not crash

vars == <<body, input, buf, pc, part, written, refused, short, result>>

Cells == 0..MAX_BUFF-1

TypeOK ==
    /\ body \in Bodies
    /\ IsSuffix(input, BodyUnits(body))
    /\ buf.cells \in [Cells -> Units]
    /\ buf.len \in 0..MAX_BUFF
    /\ pc \in {"header", "store", "drop", "end"}
    /\ part \in 0..Len(body)
    /\ written \in [1..Len(body) -> Seq(Units \union {Lost})]
    /\ refused \in BOOLEAN
    /\ short \in BOOLEAN
    /\ result \in {"none", "success", "failed", "crash"}

Init ==
    /\ body \in Bodies
    /\ input = BodyUnits(body)
    /\ buf = [cells |-> [i \in Cells |-> Garbage], len |-> 0]
    /\ pc = "header"
    /\ part = 0
    /\ written = [i \in 1..Len(body) |-> << >>]
    /\ refused = FALSE
    /\ short = FALSE
    /\ result = "none"

-----------------------------------------------------------------------------
(* The buffer *)

Least(m, n) == IF m < n THEN m ELSE n

RoomForOneMore(b) == MAX_BUFF + 1 - b.len   \* variant: off by one
Room(b) == MAX_BUFF - b.len
Asked(b) == Least(Room(b), Len(input))

\* b with the next n units read behind its content.
Filled(b, n) ==
    [cells |-> [i \in Cells |-> IF i \in b.len..b.len + n - 1
                                  THEN input[i - b.len + 1] ELSE b.cells[i]],
     len |-> b.len + n]

Cell(b, i) == IF i \in Cells THEN b.cells[i] ELSE Garbage

\* memmove: what lies behind the content stays where it was.
Shifted(b, n) ==
    [cells |-> [i \in Cells |-> Cell(b, IF i < b.len - n THEN i + n ELSE i)],
     len |-> b.len - n]

ReadContent(n) ==
    /\ n \in Least(1, Asked(buf))..Asked(buf)
    /\ input' = SubSeq(input, n + 1, Len(input))
    /\ short' = (short \/ n < Asked(buf))

Lies(b, s, i) == \A k \in 1..Len(s) : i + k - 1 \in Cells /\ b.cells[i + k - 1] = s[k]

-----------------------------------------------------------------------------
(* MatchBoundry *)

LongEnough(b, i) == b.len - i > Len(_l_boundry)     \* variant: off by one
HasRoomFor(b, i) == b.len - i >= Len(_l_boundry)

Hits(b) == {i \in 0..b.len-1 : /\ HasRoomFor(b, i)
                               /\ Lies(b, _m_boundry, i) \/ Lies(b, _l_boundry, i)}

MatchBoundry(b) == Lies(b, _f_boundry, 0) \/ Hits(b) # {}

WholeBuffer(b) == b.len             \* variant: nothing is kept for the next turn
\* Where a boundary may begin of which the end has not been read.
KeptFrom(b) == CHOOSE i \in 0..b.len : /\ ~HasRoomFor(b, i)
                                       /\ \A j \in 0..i-1 : HasRoomFor(b, j)

\* *pos: the content up to there belongs to the part.
Pos(b) ==
    CASE Lies(b, _f_boundry, 0) -> 0
      [] ~Lies(b, _f_boundry, 0) /\ Hits(b) # {} ->
            CHOOSE i \in Hits(b) : \A j \in Hits(b) : i <= j
      [] OTHER -> KeptFrom(b)

-----------------------------------------------------------------------------
(* ProcessUpLoad *)

Ends(how) == pc' = "end" /\ result' = how

\* strstr looks for the end of the header in the whole array.
HeaderEnds(b) == {i \in Cells : Lies(b, <<N, N>>, i)}

Says(b, end, x) == \E i \in 0..end-1 : Cell(b, i) = x

OverAndLineEnd(b) == Lies(b, _l_boundry \o <<N>>, 0)   \* variant: expects \r\n
IsOver(b) == Lies(b, _l_boundry, 0)

BoundaryOver ==
    /\ pc = "header"
    /\ IsOver(buf)
    /\ Ends("success")
    /\ UNCHANGED <<input, buf, part, written, refused, short>>

OpenIgnored(b, end) ==      \* variant: StoreFile's result is not looked at
    \/ Says(b, end, X) /\ Ends("failed") /\ UNCHANGED refused
    \/ Says(b, end, F) /\ pc' = "store" /\ UNCHANGED <<refused, result>>
    \/ ~Says(b, end, X) /\ pc' = "drop" /\ UNCHANGED <<refused, result>>

\* What the header says, and StoreFile's open: a directory, which is what an
\* empty name stands for, cannot be opened for writing.
Disposition(b, end) ==
    \/ /\ ~ \E x \in {F, E, H} : Says(b, end, x)
       /\ Ends("failed") /\ UNCHANGED refused
    \/ /\ Says(b, end, F)
       /\ pc' = "store" /\ UNCHANGED <<refused, result>>
    \/ /\ Says(b, end, F) \/ Says(b, end, E)
       /\ Ends("failed") /\ refused' = TRUE
    \/ /\ Says(b, end, H)
       /\ pc' = "drop" /\ UNCHANGED <<refused, result>>

\* If the end was found behind the content, memmove is asked to move a
\* negative number of units.
GetBoundry(n) ==
    LET b == Filled(buf, n)
        end == CHOOSE i \in HeaderEnds(b) : \A j \in HeaderEnds(b) : i <= j
    IN
    /\ pc = "header"
    /\ ~IsOver(buf)
    /\ ReadContent(n)
    /\ IF HeaderEnds(b) = {}
         THEN Ends("failed") /\ UNCHANGED <<buf, part, refused>>
         ELSE IF end + 2 > b.len
         THEN Ends("crash") /\ UNCHANGED <<buf, part, refused>>
         ELSE /\ buf' = Shifted(b, end + 2)
              /\ part' = part + 1
              /\ Disposition(b, end)
    /\ UNCHANGED written

\* WriteFile: write takes the first k of the units, and the program goes on as
\* if it had taken them all.
Stores(units, k) == [i \in DOMAIN units |-> IF i <= k THEN units[i] ELSE Lost]

LostBefore ==
    Cardinality(UNION {{i} \X {k \in 1..Len(written[i]) : written[i][k] = Lost} :
                       i \in 1..Len(body)})

\* One turn of the loop of StoreFile.
StoreFile(n) ==
    LET b == Filled(buf, n)
        units == [i \in 1..Pos(b) |-> Cell(b, i - 1)]
    IN
    /\ pc = "store"
    /\ ReadContent(n)
    /\ \E k \in 0..Pos(b) :
          /\ k < Pos(b) => LostBefore < MaxLost
          /\ written' = [written EXCEPT ![part] = @ \o Stores(units, k)]
    /\ buf' = Shifted(b, Pos(b))
    /\ pc' = IF MatchBoundry(b) THEN "drop" ELSE "store"
    /\ UNCHANGED <<part, refused, result>>

DropData(n) ==
    LET b == Filled(buf, n) IN
    /\ pc = "drop"
    /\ ReadContent(n)
    /\ buf' = Shifted(b, Pos(b))
    /\ pc' = IF MatchBoundry(b) THEN "header" ELSE "drop"
    /\ UNCHANGED <<part, written, refused, result>>

Next ==
    /\ UNCHANGED body
    /\ \/ BoundaryOver
       \/ \E n \in 0..MAX_BUFF : \/ GetBoundry(n)
                                 \/ StoreFile(n)
                                 \/ DropData(n)

\* The program runs, and the server forwards the whole body.
Spec == Init /\ [][Next]_vars /\ WF_vars(Next)

-----------------------------------------------------------------------------
(* Properties *)

\* What a client sends: the boundary it has chosen does not occur in a content.
\* Contents that begin with dashes are left out: dashes that are read alone are
\* taken for the first boundary, whose rest is still in the buffer (l.91).
Fits(s) ==
    /\ \A i \in 1..Len(s) - 1 : <<s[i], s[i + 1]>> # <<D, B>>
    /\ s # << >> => s[1] # D

BodiesFit == \A b \in Bodies : \A i \in 1..Len(b) : Fits(b[i].content)

\* No file that is there already is longer than one that replaces it.
OldFileCovered ==
    \A b \in Bodies : \A i \in 1..Len(b) :
        b[i].header = F => Len(OldFile) <= Len(b[i].content)

\* What the file of a part holds if write has taken everything: open does not
\* truncate it (l.159).
Stored(i) == written[i] \o SubSeq(OldFile, Len(written[i]) + 1, Len(OldFile))

LostSome(i) == \E k \in 1..Len(written[i]) : written[i][k] = Lost

\* s is the beginning of t, but for units that were lost.
BeginsAs(s, t) ==
    /\ Len(s) <= Len(t)
    /\ \A k \in 1..Len(s) : s[k] \in {t[k], Lost}

\* However the body is cut into reads, and wherever the buffer ends, the units
\* given to write for a file are its own content from the beginning on: no unit
\* of a boundary or a header, none twice and none left out.
FileInOrder ==
    \A i \in 1..Len(body) :
        written[i] # << >> => body[i].header = F /\ BeginsAs(written[i], body[i].content)

\* When the program reports success, the content of every file has gone to
\* write, and each file is stored whole unless write has not taken all of it:
\* of that the program does not tell (l.178).  No file was without a name.
SuccessMeansWhole ==
    result = "success" =>
        \A i \in 1..Len(body) :
            /\ body[i].header \in {F, H}
            /\ body[i].header = F =>
                  /\ Len(written[i]) = Len(body[i].content)
                  /\ ~LostSome(i) => Stored(i) = body[i].content

\* The program crashes only if the body came in pieces: then a header may be
\* cut, and GetBoundry (l.115) reads but once.  It gives up only then, if a file
\* cannot be opened, or at a header without Content-Disposition.
FailsOnlyForCause ==
    /\ result = "crash" => short
    /\ result = "failed" =>
          \/ short
          \/ refused
          \/ part > 0 /\ body[part].header = X

\* A whole body is worked off in the end.
ComesToAnEnd == <>(pc = "end")
=============================================================================
