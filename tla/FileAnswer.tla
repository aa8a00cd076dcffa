----------------------------- MODULE FileAnswer -----------------------------
(***************************************************************************)
(* HttpResponse::FileHandler (code/utils.hpp) on a regular file: the       *)
(* conditions and byte ranges of a request, and the file that is sent, for *)
(* a client that keeps a copy.  HttpHandler takes the outcome of the       *)
(* conditions as given; here it is computed.                               *)
(*                                                                         *)
(* The file is written to by others.  Its bytes are counted in units (what *)
(* one read returns), and a unit is told apart by the version of the file  *)
(* it comes from.  stat (l.197) is one step with all that is decided from  *)
(* it; every read is a step of its own.                                    *)
(***************************************************************************)
EXTENDS Integers, Sequences, FiniteSets

CONSTANTS
    MaxLen,         \* units of the longest file
    MaxClock,       \* the last second
    MaxVersions,    \* how many versions the file has in the end
    RangeTexts,     \* what a client may put after "Range: "
    Resumes,        \* how a client makes sure of the version it resumes
    MaxLost,        \* connections that are lost in the middle of an answer
    WriteDuring     \* what the client wants while others write the file

Lens == 0..MaxLen
Dates == 0..MaxClock

(***************************************************************************)
(* One piece of a Range header between commas, by the branch of FileRange  *)
(* it takes: nothing, one character, no dash in it, -b, a- and a-b.        *)
(***************************************************************************)
PieceKinds == {"empty", "short", "word", "suffix", "from", "to"}
Piece == [kind : PieceKinds, a : Int, b : Int]
RangeText == [eq : BOOLEAN, pieces : Seq(Piece) \ {<< >>}]
NoRange == [eq |-> FALSE, pieces |-> << >>]
From(k) == [eq |-> TRUE, pieces |-> << [kind |-> "from", a |-> k, b |-> 0] >>]

ASSUME FileAssumption ==
    /\ MaxLen \in Nat
    /\ MaxClock \in Nat
    /\ MaxVersions \in Nat \ {0}
    /\ MaxLost \in Nat
    /\ RangeTexts \subseteq RangeText
    /\ Resumes \subseteq {"If-Match", "If-Unmodified-Since", "If-Range"}
    /\ WriteDuring \subseteq {"copy", "ranges"}

(***************************************************************************)
(* A request: the conditions it carries, all of them about the label the   *)
(* client's copy came with, and its Range header.                          *)
(***************************************************************************)
Conditions == {"If-Modified-Since", "If-Unmodified-Since", "If-Match",
               "If-None-Match", "If-Range"}
Request == [conds : SUBSET Conditions, range : RangeText \union {NoRange}]
NoRequest == [conds |-> {}, range |-> NoRange]

VARIABLES
    mtimes, lens,   \* the versions of the file: date and length of each
    clock,          \* the second it is
    pc,             \* the server's thread: where it is in FileHandler
    req,            \* the request it handles
    st,             \* what stat said: the version it saw
    range_list,     \* _range_list: first unit -> last unit, of those not sent
    epos, pos,      \* the range that is sent: its last unit, the next one
    code,           \* the status of the last answer
    sent,           \* units sent for this request
    copy, label,    \* the client's copy: the version of each unit; the version
                    \* whose Last-Modified and ETag it came with
    aim,            \* what the client wants: a copy, or some ranges
    lost,           \* connections lost so far
    raced           \* the file was written to while some of the copy was sent

fileVars == <<mtimes, lens, clock>>
serverVars == <<pc, req, st, range_list, epos, pos, code, sent>>
clientVars == <<copy, label, aim, lost>>
vars == <<fileVars, serverVars, clientVars, raced>>

Versions == 1..Len(mtimes)
Current == Len(mtimes)
NoVersion == 0
NoCode == "none"
Codes == {"200", "206", "304", "412", "416"}

TypeOK ==
    /\ mtimes \in Seq(Dates)
    /\ lens \in Seq(Lens)
    /\ Len(lens) = Len(mtimes)
    /\ Len(mtimes) \in 1..MaxVersions
    /\ clock \in Dates
    /\ pc \in {"idle", "header", "ranges", "reading"}
    /\ req \in Request
    /\ st \in Versions \union {NoVersion}
    /\ DOMAIN range_list \subseteq Lens
    /\ \A s \in DOMAIN range_list : range_list[s] \in Lens \union {-1}
    /\ epos \in Lens \union {-1}
    /\ pos \in 0..MaxLen + 1
    /\ code \in Codes \union {NoCode}
    /\ sent \subseteq Lens
    /\ copy \in Seq(Versions)
    /\ label \in Versions \union {NoVersion}
    /\ aim \in {"copy", "ranges"}
    /\ lost \in 0..MaxLost
    /\ raced \in BOOLEAN

Init ==
    /\ mtimes = << 0 >>
    /\ lens \in {<< n >> : n \in Lens}
    /\ clock = 0
    /\ pc = "idle"
    /\ req = NoRequest
    /\ st = NoVersion
    /\ range_list = << >>
    /\ epos = -1
    /\ pos = 0
    /\ code = NoCode
    /\ sent = {}
    /\ copy = << >>
    /\ label = NoVersion
    /\ aim \in {"copy", "ranges"}
    /\ lost = 0
    /\ raced = FALSE

-----------------------------------------------------------------------------
(* MakeEtage, TimeToGMT: what the answers say of a version.  The inode is  *)
(* the same throughout: the file is written in place.                      *)

_mtime(v) == mtimes[v]
_etagOfSize(v) == << lens[v] >>     \* variant: the date is left out
_etag(v) == <<lens[v], mtimes[v]>>

Asks(cond) == cond \in req.conds

(***************************************************************************)
(* The conditions, in FileHandler's order, each with the code it sets.     *)
(* v is the version stat saw.  If-Match is compared with the date, and a   *)
(* client that knows this server sends it the date.  Only GET and HEAD     *)
(* come here (RequestIsCGI, IsMethodLegal), so that If-None-Match sets 304 *)
(* and never 412.  FileIfRange is not called.                              *)
(***************************************************************************)
FileIfModefiedSinceOlder(v) ==      \* variant: the dates are swapped
    Asks("If-Modified-Since") /\ _mtime(label) <= _mtime(v)
FileIfModefiedSince(v) ==
    Asks("If-Modified-Since") /\ _mtime(label) >= _mtime(v)

FileIfUnModefiedSince(v) ==
    Asks("If-Unmodified-Since") /\ _mtime(label) <= _mtime(v)

FileIfMatchIgnored(v) == FALSE      \* variant: not called, as FileIfRange
FileIfMatch(v) ==
    Asks("If-Match") /\ _mtime(label) # _mtime(v)

FileIfNoneMatch(v) ==
    Asks("If-None-Match") /\ _etag(label) = _etag(v)

-----------------------------------------------------------------------------
(* FileRange *)

\* Utils::Split by ",": the places of the pieces it keeps.  Empty pieces are left
\* out, and the last one also if it is one character (l.70).  If there is nothing
\* at all src.length() - 1 wraps, and that one empty piece is kept.
Split(ps) ==
    {i \in 1..Len(ps) :
        IF i < Len(ps)
          THEN ps[i].kind # "empty"
          ELSE ps[i].kind # "short" /\ (ps[i].kind = "empty" => i = 1)}

\* First and last unit of a piece, as the code computes them.
FirstTooEarly(p, fend) ==           \* variant: the "+ 1" is missing
    IF p.kind = "suffix" THEN fend - p.b ELSE p.a
First(p, fend) == IF p.kind = "suffix" THEN fend - p.b + 1 ELSE p.a
Last(p, fend) == IF p.kind = "to" THEN p.b ELSE fend

InBounds(p, fend) ==
    /\ p.kind \in {"suffix", "from", "to"}
    /\ First(p, fend) \in 0..fend
    /\ First(p, fend) <= Last(p, fend)
    /\ Last(p, fend) <= fend

Kept == Split(req.range.pieces)
Pieces == req.range.pieces

\* FileRange returns true.
FileRange(v) ==
    \/ req.range = NoRange
    \/ /\ req.range.eq
       /\ \A i \in Kept : InBounds(Pieces[i], lens[v] - 1)

\* _range_list[s] = e: of the pieces with one first unit the last one stays.
RangeList(v) ==
    LET fend == lens[v] - 1
        At(s) == {i \in Kept : First(Pieces[i], fend) = s}
        Stays(s) == CHOOSE i \in At(s) : \A j \in At(s) : j <= i
    IN  IF req.range = NoRange
          THEN [s \in {0} |-> fend]
          ELSE [s \in {First(Pieces[i], fend) : i \in Kept} |->
                  Last(Pieces[Stays(s)], fend)]

-----------------------------------------------------------------------------
(* The server.  HeaderInit and FileHandler up to the first send: the only  *)
(* thing they look at outside is stat.                                     *)

Refusal(v) ==
    IF FileIfModefiedSince(v) THEN "304"
    ELSE IF FileIfUnModefiedSince(v) \/ FileIfMatch(v) THEN "412"
    ELSE IF FileIfNoneMatch(v) THEN "304"
    ELSE IF FileRange(v) THEN NoCode ELSE "416"

\* The answer is over; the connection is closed after every answer.
Ends ==
    /\ pc' = "idle"
    /\ range_list' = << >>
    /\ epos' = -1
    /\ pos' = 0

FileHandler ==
    LET refusal == Refusal(Current) IN
    /\ pc = "header"
    /\ st' = Current
    /\ IF refusal = NoCode
         THEN /\ range_list' = RangeList(Current)
              /\ pc' = "ranges"
              /\ UNCHANGED <<code, epos, pos>>
         ELSE /\ code' = refusal
              /\ Ends
    /\ UNCHANGED <<fileVars, req, sent, clientVars, raced>>

\* ProcessFile takes the ranges out of an unordered_map, in any order.  Each
\* has a header of its own, then the file is opened.
SendRangeHeader ==
    /\ pc = "ranges"
    /\ \E s \in DOMAIN range_list :
          /\ pos' = s
          /\ epos' = range_list[s]
          /\ range_list' = [r \in DOMAIN range_list \ {s} |-> range_list[r]]
    /\ code' = IF req.range = NoRange THEN "200" ELSE "206"
    /\ pc' = "reading"
    /\ IF req.range = NoRange /\ aim = "copy"
         THEN copy' = << >> /\ label' = st /\ raced' = (st # Current)
         ELSE UNCHANGED <<copy, label, raced>>
    /\ UNCHANGED <<fileVars, req, st, sent, aim, lost>>

\* Content comes from the file as it is now, not as it was when stat looked.
SendContent ==
    /\ pc = "reading"
    /\ pos <= epos
    /\ pos < lens[Current]
    /\ sent' = sent \union {pos}
    /\ copy' = IF aim = "copy" THEN Append(copy, Current) ELSE copy
    /\ pos' = pos + 1
    /\ UNCHANGED <<fileVars, pc, req, st, range_list, epos, code, label, aim, lost,
                   raced>>

EndRange ==
    /\ pc = "reading"
    /\ pos > epos
    /\ pc' = "ranges"
    /\ pos' = 0
    /\ epos' = -1
    /\ UNCHANGED <<fileVars, req, st, range_list, code, sent, clientVars, raced>>

EndFile ==
    /\ pc = "ranges"
    /\ range_list = << >>
    /\ Ends
    /\ UNCHANGED <<fileVars, req, st, code, sent, clientVars, raced>>

-----------------------------------------------------------------------------
(* The client.  It asks for its copy, looks whether the copy still is good *)
(* and goes on with a copy that broke off; or it asks for some ranges.     *)

HasCopy == label # NoVersion
Whole == HasCopy /\ Len(copy) = lens[label]

Sends(conds, range) ==
    /\ pc = "idle"
    /\ req' = [conds |-> conds, range |-> range]
    /\ pc' = "header"
    /\ code' = NoCode
    /\ sent' = {}
    /\ UNCHANGED <<fileVars, st, range_list, epos, pos, clientVars, raced>>

\* The answer before this one told the client to drop its copy.
Useless == code \in {"412", "416"}

\* Some of the copy is there, and can be completed.
BrokenOff == HasCopy /\ ~Whole /\ copy # << >> /\ ~Useless

Fetch == aim = "copy" /\ ~Whole /\ ~BrokenOff /\ Sends({}, NoRange)

Revalidate ==
    /\ aim = "copy"
    /\ Whole
    /\ \E conds \in SUBSET {"If-Modified-Since", "If-None-Match"} :
          conds # {} /\ Sends(conds, NoRange)

Resume ==
    /\ aim = "copy"
    /\ BrokenOff
    /\ \E cond \in Resumes : Sends({cond}, From(Len(copy)))

AskRanges ==
    /\ aim = "ranges"
    /\ req = NoRequest
    /\ \E text \in RangeTexts : Sends({}, text)

\* The connection breaks.
Lose ==
    /\ pc = "reading"
    /\ lost < MaxLost
    /\ lost' = lost + 1
    /\ Ends
    /\ UNCHANGED <<fileVars, req, st, code, sent, copy, label, aim, raced>>

\* The file has become shorter than stat said: read returns nothing for ever
\* (l.540), until the client has had enough.  The thread stays behind.
GiveUp ==
    /\ pc = "reading"
    /\ pos <= epos
    /\ pos >= lens[Current]
    /\ Ends
    /\ UNCHANGED <<fileVars, req, st, code, sent, clientVars, raced>>

-----------------------------------------------------------------------------
(* Others: somebody writes the file, or gives it an older date.            *)

WriteFile ==
    /\ aim \in WriteDuring
    /\ Current < MaxVersions
    /\ \E n \in Lens, d \in 0..clock :
          /\ lens' = Append(lens, n)
          /\ mtimes' = Append(mtimes, d)
    /\ raced' = (raced \/ pc \in {"ranges", "reading"})
    /\ UNCHANGED <<clock, serverVars, clientVars>>

Tick ==
    /\ aim \in WriteDuring
    /\ clock < MaxClock
    /\ clock' = clock + 1
    /\ UNCHANGED <<mtimes, lens, serverVars, clientVars, raced>>

Server == FileHandler \/ SendRangeHeader \/ SendContent \/ EndRange \/ EndFile
Client == Fetch \/ Revalidate \/ Resume \/ AskRanges \/ GiveUp

Next == Server \/ Client \/ Lose \/ WriteFile \/ Tick

Spec == Init /\ [][Next]_vars
FairSpec == Spec /\ WF_vars(Server) /\ WF_vars(Client)

-----------------------------------------------------------------------------
(* Properties *)

\* Later versions have later dates: nobody sets the date back, and nobody
\* writes the file twice in a second.
Dated == \A v, w \in Versions : v < w => mtimes[v] < mtimes[w]

\* Why that is safe: the label of the copy (Last-Modified, ETag, l.488) was taken
\* before its content was read (l.542), so that no unit is older than it says.
LabelNotNewer == HasCopy => \A i \in 1..Len(copy) : label <= copy[i]

\* 304 (l.380, l.410) tells the client that its copy is what stat has just
\* seen, also when the copy was put together while the file was written to.
NotModifiedMeansCurrent ==
    code = "304" /\ Dated =>
        /\ Len(copy) = lens[st]
        /\ \A i \in 1..Len(copy) : copy[i] = st

\* A copy that was resumed under If-Match or If-Unmodified-Since (l.385 to 403)
\* is of one version, unless the file was written to while an answer was sent.
ResumedCopyWhole ==
    Whole /\ Dated /\ ~raced => \A i \in 1..Len(copy) : copy[i] = label

(***************************************************************************)
(* What a piece means (comment of l.429): the units it asks for in a file  *)
(* of n units, and whether the file has them all.                          *)
(***************************************************************************)
Wants(p, n) ==
    CASE p.kind = "suffix" -> {n - k : k \in 1..p.b}
      [] p.kind = "from"   -> {p.a} \union {k \in 0..n - 1 : p.a <= k}
      [] p.kind = "to"     -> {k \in -1..MaxLen + 1 : p.a <= k /\ k <= p.b}
      [] OTHER             -> {}
Fits(p, n) == Wants(p, n) # {} /\ Wants(p, n) \subseteq 0..n - 1

Asked == {req.range.pieces[i] : i \in 1..Len(req.range.pieces)}
BeginsWith(p, n, k) == k \in Wants(p, n) /\ \A j \in Wants(p, n) : k <= j
OneStart(n) ==
    \E p, q \in Asked : p # q /\ \E k \in 0..n : BeginsWith(p, n, k) /\ BeginsWith(q, n, k)

\* FileRange and ProcessFile against that definition.  What is sent with 206 was
\* asked for, and all that was asked for is sent unless two ranges begin with
\* the same unit; 416 has a range as its cause that the file does not have;
\* and no answer at all is sent only if no range is longer than a character.
RangesAsAsked ==
    LET n == lens[st] IN
    (aim = "ranges" /\ st # NoVersion) =>
        /\ (pc = "ranges" /\ range_list = << >> /\ code = "206") =>
              /\ sent \subseteq UNION {Wants(p, n) : p \in Asked}
              /\ OneStart(n) \/ sent = UNION {Wants(p, n) : p \in Asked}
        /\ (code = "416") => ~req.range.eq \/ \E p \in Asked : ~Fits(p, n)
        /\ (pc = "ranges" /\ range_list = << >> /\ code = NoCode) =>
              \A p \in Asked : p.kind \in {"empty", "short"}

\* Once the file stays as it is a client that looks again and again has it as
\* it is, whatever was written, lost or broken off before.
Fresh ==
    /\ Whole
    /\ Len(copy) = lens[Current]
    /\ \A i \in 1..Len(copy) : copy[i] = Current
StaysFresh == [](Dated /\ aim = "copy") => []<>Fresh
=============================================================================
