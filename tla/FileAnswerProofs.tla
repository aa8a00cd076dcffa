-------------------------- MODULE FileAnswerProofs --------------------------
(***************************************************************************)
(* What FileAnswer.tla guarantees for files of every length, any number of *)
(* versions and any Range headers: its type, that 304 is never wrong, that *)
(* a copy resumed under If-Match or If-Unmodified-Since is of one version, *)
(* and that the ranges sent are the ranges asked for.                      *)
(***************************************************************************)
EXTENDS FileAnswer, WellFoundedInduction, TLAPS

-----------------------------------------------------------------------------
(* Ranges                                                                  *)

\* A set of indices that is not empty has a last one.
LEMMA LastIndex ==
    ASSUME NEW n \in Nat, NEW S \in SUBSET (1..n), S # {}
    PROVE  \E i \in S : \A j \in S : j <= i
  <1> DEFINE T == {k \in Nat : n - k \in S}
  <1>1. T \in SUBSET Nat /\ T # {}
    <2>1. PICK i \in S : TRUE
      OBVIOUS
    <2>2. n - i \in Nat /\ n - (n - i) = i
      OBVIOUS
    <2> QED
      BY <2>1, <2>2
  <1>2. PICK x \in T : \A y \in T : ~(<<y, x>> \in OpToRel(<, Nat))
    BY <1>1, NatLessThanWellFounded, WFMin
  <1>3. \A y \in T : ~(y < x)
    BY <1>1, <1>2 DEF OpToRel
  <1>4. \A j \in S : j <= n - x
    <2> TAKE j \in S
    <2>1. j \in 1..n /\ n - (n - j) = j /\ n - j \in Nat
      OBVIOUS
    <2>2. n - j \in T
      BY <2>1
    <2>3. ~(n - j < x)
      BY <1>3, <2>2
    <2> QED
      BY <2>1, <2>3
  <1> QED
    BY <1>4

\* Of the pieces that begin with one unit RangeList takes one of them.
LEMMA StaysIsOne ==
    ASSUME NEW n \in Nat, NEW S \in SUBSET (1..n), S # {}
    PROVE  (CHOOSE i \in S : \A j \in S : j <= i) \in S
  <1>1. \E i \in S : \A j \in S : j <= i
    BY LastIndex
  <1> QED
    BY <1>1

\* FileRange lets only ranges of the file into _range_list.
LEMMA RangesInFile ==
    ASSUME NEW v, lens[v] \in Nat, req \in Request, FileRange(v)
    PROVE  \A s \in DOMAIN RangeList(v) :
               /\ s \in Nat
               /\ RangeList(v)[s] \in Int
               /\ RangeList(v)[s] < lens[v]
               /\ RangeList(v)[s] >= s \/ (s = 0 /\ RangeList(v)[s] = -1)
  <1> DEFINE fend == lens[v] - 1
             At(s) == {i \in Kept : First(Pieces[i], fend) = s}
             Stays(s) == CHOOSE i \in At(s) : \A j \in At(s) : j <= i
             starts == {First(Pieces[i], fend) : i \in Kept}
  <1>0. fend \in Int
    OBVIOUS
  <1>1. CASE req.range = NoRange
    BY <1>1 DEF RangeList
  <1>2. CASE req.range # NoRange
    <2>1. /\ Pieces \in Seq(Piece)
          /\ \A i \in Kept : i \in 1..Len(Pieces) /\ InBounds(Pieces[i], fend)
      BY <1>2 DEF Request, RangeText, FileRange, Pieces, Kept, Split
    <2>2. RangeList(v) = [s \in starts |-> Last(Pieces[Stays(s)], fend)]
      BY <1>2 DEF RangeList
    <2>3. ASSUME NEW s \in starts
          PROVE  /\ s \in Nat /\ Last(Pieces[Stays(s)], fend) \in Int
                 /\ Last(Pieces[Stays(s)], fend) <= fend
                 /\ Last(Pieces[Stays(s)], fend) >= s
      <3>1. /\ At(s) \in SUBSET (1..Len(Pieces)) /\ At(s) # {}
            /\ Len(Pieces) \in Nat
        BY <2>1
      <3>2. Stays(s) \in At(s)
        BY ONLY <3>1, StaysIsOne
      <3>3. PICK i \in Kept : i = Stays(s) /\ First(Pieces[i], fend) = s
        BY <3>2
      <3>4. Pieces[i] \in Piece /\ InBounds(Pieces[i], fend)
        BY <2>1
      <3>5. Last(Pieces[i], fend) \in Int
        BY <1>0, <3>4 DEF Last, Piece
      <3> QED
        BY <1>0, <3>3, <3>4, <3>5 DEF InBounds
    <2> QED
      BY <1>0, <2>2, <2>3
  <1> QED
    BY <1>1, <1>2

-----------------------------------------------------------------------------
(* Type correctness                                                        *)

\* What TypeOK says of the versions, in the form the steps use.
LEMMA VersionsType ==
    ASSUME TypeOK
    PROVE  /\ Current \in Nat \ {0} /\ Current \in Versions /\ Versions = 1..Current
           /\ \A v \in Versions : lens[v] \in Lens /\ mtimes[v] \in Dates
           /\ \A v \in Versions : v \in Nat /\ 0 < v /\ v <= Current
  BY FileAssumption DEF TypeOK, Current, Versions

\* A write adds a version and leaves the others as they are.
LEMMA NewVersion ==
    ASSUME TypeOK, WriteFile
    PROVE  /\ mtimes' \in Seq(Dates) /\ lens' \in Seq(Lens)
           /\ Current' = Current + 1 /\ Len(lens') = Current + 1
           /\ Current + 1 \in 1..MaxVersions
           /\ \A v \in Versions : mtimes'[v] = mtimes[v] /\ lens'[v] = lens[v]
           /\ Versions \subseteq Versions'
  <1>1. PICK n \in Lens, d \in 0..clock :
            lens' = Append(lens, n) /\ mtimes' = Append(mtimes, d)
    BY DEF WriteFile
  <1>2. d \in Dates
    BY FileAssumption DEF TypeOK, Dates
  <1>3. mtimes \in Seq(Dates) /\ lens \in Seq(Lens) /\ Len(lens) = Len(mtimes)
    BY DEF TypeOK
  <1>4. /\ mtimes' \in Seq(Dates) /\ lens' \in Seq(Lens)
        /\ Len(mtimes') = Len(mtimes) + 1 /\ Len(lens') = Len(mtimes) + 1
        /\ \A v \in 1..Len(mtimes) : mtimes'[v] = mtimes[v] /\ lens'[v] = lens[v]
    BY <1>1, <1>2, <1>3
  <1>5. Len(mtimes) \in Nat /\ Len(mtimes) + 1 \in 1..MaxVersions
    BY <1>3, FileAssumption DEF WriteFile, Current
  <1> QED
    BY <1>4, <1>5 DEF Current, Versions

\* Ends gives the variables of a range values of their types.
LEMMA EndsType ==
    ASSUME Ends
    PROVE  /\ pc' \in {"idle", "header", "ranges", "reading"}
           /\ DOMAIN range_list' \subseteq Lens
           /\ \A s \in DOMAIN range_list' : range_list'[s] \in Lens \union {-1}
           /\ epos' \in Lens \union {-1}
           /\ pos' \in 0..MaxLen + 1
  BY FileAssumption DEF Ends, Lens

\* Every file begins with one version and no copy of it.
LEMMA TypeInit == Init => TypeOK
  <1> SUFFICES ASSUME Init PROVE TypeOK
    OBVIOUS
  <1>1. mtimes \in Seq(Dates) /\ Len(mtimes) = 1
    BY FileAssumption DEF Init, Dates
  <1>2. lens \in Seq(Lens) /\ Len(lens) = 1
    <2>1. PICK n \in Lens : lens = << n >>
      BY DEF Init
    <2> QED
      BY <2>1
  <1>3. req \in Request
    BY DEF Init, Request, NoRequest
  <1>4. copy \in Seq(Versions)
    BY DEF Init
  <1>5. Len(mtimes) \in 1..MaxVersions /\ clock \in Dates /\ pos \in 0..MaxLen + 1 /\ lost \in 0..MaxLost
    BY <1>1, FileAssumption DEF Init, Dates
  <1>6. DOMAIN range_list = {}
    BY DEF Init
  <1>7. pc = "idle" /\ st = NoVersion /\ epos = -1 /\ code = NoCode /\ sent = {}
        /\ label = NoVersion /\ aim \in {"copy", "ranges"} /\ raced = FALSE
    BY DEF Init
  <1> QED
    BY <1>1, <1>2, <1>3, <1>4, <1>5, <1>6, <1>7 DEF TypeOK

\* Every step keeps the types.
LEMMA TypeStep == TypeOK /\ [Next]_vars => TypeOK'
  <1> SUFFICES ASSUME TypeOK, [Next]_vars PROVE TypeOK'
    OBVIOUS
  <1> USE FileAssumption
  <1>1. CASE FileHandler
    <2>1. CASE Refusal(Current) = NoCode
      <3>1. FileRange(Current) /\ lens[Current] \in Lens /\ req \in Request
        BY <2>1, VersionsType DEF Refusal, NoCode, TypeOK
      <3>2. \A s \in DOMAIN range_list' :
                s \in Lens /\ range_list'[s] \in Lens \union {-1}
        BY <1>1, <2>1, <3>1, RangesInFile DEF FileHandler, Lens
      <3> QED
        BY <1>1, <2>1, <3>2, VersionsType
        DEF FileHandler, TypeOK, fileVars, clientVars, Versions
    <2>2. CASE Refusal(Current) # NoCode
      <3>1. Refusal(Current) \in Codes
        BY <2>2 DEF Refusal, Codes
      <3>2. Ends
        BY <1>1, <2>2 DEF FileHandler
      <3> QED
        BY <1>1, <2>2, <3>1, <3>2, EndsType, VersionsType
        DEF FileHandler, TypeOK, fileVars, clientVars, Versions
    <2> QED
      BY <2>1, <2>2
  <1>2. CASE SendRangeHeader
    <2>1. PICK s \in DOMAIN range_list :
              /\ pos' = s /\ epos' = range_list[s]
              /\ range_list' = [r \in DOMAIN range_list \ {s} |-> range_list[r]]
      BY <1>2 DEF SendRangeHeader
    <2>2. /\ pos' \in 0..MaxLen + 1 /\ epos' \in Lens \union {-1}
          /\ DOMAIN range_list' \subseteq Lens
          /\ \A r \in DOMAIN range_list' : range_list'[r] \in Lens \union {-1}
      BY <2>1 DEF TypeOK, Lens
    <2>3. copy' \in Seq(Versions) /\ label' \in Versions \union {NoVersion}
      <3>1. \/ copy' = << >> /\ label' = st
            \/ copy' = copy /\ label' = label
        BY <1>2 DEF SendRangeHeader
      <3>2. << >> \in Seq(Versions)
        OBVIOUS
      <3> QED
        BY <3>1, <3>2 DEF TypeOK
    <2>6. raced' \in BOOLEAN
      BY <1>2 DEF SendRangeHeader, TypeOK
    <2>4. code' \in Codes \union {NoCode} /\ pc' = "reading"
      BY <1>2 DEF SendRangeHeader, Codes
    <2>5. Versions' = Versions /\ UNCHANGED <<mtimes, lens, clock, req, st, sent, aim, lost>>
      BY <1>2 DEF SendRangeHeader, Versions, fileVars
    <2> QED
      BY <2>2, <2>3, <2>4, <2>5, <2>6 DEF TypeOK
  <1>3. CASE SendContent
    <2>1. /\ pos \in Lens /\ pos + 1 \in 0..MaxLen + 1
          /\ sent' \subseteq Lens
      BY <1>3, VersionsType DEF SendContent, TypeOK, Lens
    <2>2. copy' \in Seq(Versions)
      BY <1>3, VersionsType DEF SendContent, TypeOK
    <2> QED
      BY <1>3, <2>1, <2>2 DEF SendContent, TypeOK, fileVars, Versions
  <1>4. CASE EndRange
    BY <1>4 DEF EndRange, TypeOK, fileVars, clientVars, Versions, Lens
  <1>5. CASE EndFile
    BY <1>5, EndsType DEF EndFile, TypeOK, fileVars, clientVars, Versions
  <1>6. ASSUME NEW conds \in SUBSET Conditions, NEW range \in RangeText \union {NoRange},
               Sends(conds, range)
        PROVE  TypeOK'
    BY <1>6 DEF Sends, TypeOK, Request, fileVars, clientVars, Versions
  <1>7. CASE Fetch
    BY <1>7, <1>6 DEF Fetch
  <1>8. CASE Revalidate
    BY <1>8, <1>6 DEF Revalidate, Conditions
  <1>9. CASE Resume
    <2>1. From(Len(copy)) \in RangeText
      BY DEF From, RangeText, Piece, PieceKinds, TypeOK
    <2> QED
      BY <1>9, <1>6, <2>1 DEF Resume, Conditions
  <1>10. CASE AskRanges
    BY <1>10, <1>6 DEF AskRanges
  <1>11. CASE GiveUp
    BY <1>11, EndsType DEF GiveUp, TypeOK, fileVars, clientVars, Versions
  <1>12. CASE Lose
    BY <1>12, EndsType DEF Lose, TypeOK, fileVars, Versions
  <1>13. CASE WriteFile
    <2>1. copy' \in Seq(Versions') /\ label' \in Versions' \union {NoVersion}
          /\ st' \in Versions' \union {NoVersion}
      BY <1>13, NewVersion DEF WriteFile, TypeOK, serverVars, clientVars
    <2>2. Len(mtimes') \in 1..MaxVersions /\ Len(lens') = Len(mtimes')
      BY <1>13, NewVersion DEF Current
    <2> QED
      BY <1>13, <2>1, <2>2, NewVersion DEF WriteFile, TypeOK, serverVars, clientVars
  <1>14. CASE Tick
    BY <1>14 DEF Tick, TypeOK, serverVars, clientVars, Versions, Dates
  <1>15. CASE UNCHANGED vars
    BY <1>15 DEF vars, fileVars, serverVars, clientVars, TypeOK, Versions
  <1> QED
    BY <1>1, <1>2, <1>3, <1>4, <1>5, <1>7, <1>8, <1>9, <1>10, <1>11, <1>12,
       <1>13, <1>14, <1>15 DEF Next, Server, Client

\* Every reachable state has its type.
THEOREM TypeCorrect == Spec => []TypeOK
  BY TypeInit, TypeStep, PTL DEF Spec

-----------------------------------------------------------------------------
(* The label of the copy                                                   *)

\* Of the steps of the client and of the others none changes what the copy or
\* the server's answer is, except for the status of the last one.
CopyKept == UNCHANGED <<copy, label, aim, raced, st>>

\* What the steps other than those of the server do to copy and versions.
LEMMA OthersKeep ==
    ASSUME TypeOK, Client \/ Lose \/ Tick
    PROVE  CopyKept /\ UNCHANGED <<mtimes, lens>>
  BY DEF Client, Fetch, Revalidate, Resume, AskRanges, GiveUp, Lose, Tick, Sends,
         Ends, CopyKept, fileVars, serverVars, clientVars

\* Every unit has a version, and none later than the current one.
LEMMA UnitsAreVersions ==
    ASSUME TypeOK
    PROVE  /\ Len(copy) \in Nat
           /\ \A i \in 1..Len(copy) : copy[i] \in Nat /\ copy[i] <= Current
           /\ HasCopy => label \in Versions
  <1>1. copy \in Seq(Versions) /\ label \in Versions \union {NoVersion}
    BY DEF TypeOK
  <1>2. \A i \in 1..Len(copy) : copy[i] \in Versions
    BY <1>1
  <1> QED
    BY <1>1, <1>2, VersionsType DEF HasCopy

\* A unit is read from the file as it is.
LEMMA UnitAppended ==
    ASSUME TypeOK, SendContent
    PROVE  \/ copy' = copy
           \/ /\ aim = "copy"
              /\ Len(copy') = Len(copy) + 1
              /\ copy'[Len(copy) + 1] = Current
              /\ \A i \in 1..Len(copy) : copy'[i] = copy[i]
  <1>1. copy \in Seq(Versions) /\ Current \in Versions
    BY VersionsType DEF TypeOK
  <1>2. copy' = copy \/ (aim = "copy" /\ copy' = Append(copy, Current))
    BY DEF SendContent
  <1> QED
    BY <1>1, <1>2

\* The label was taken before any of the content.
LEMMA LabelStep == TypeOK /\ LabelNotNewer /\ [Next]_vars => LabelNotNewer'
  <1> SUFFICES ASSUME TypeOK, LabelNotNewer, [Next]_vars PROVE LabelNotNewer'
    OBVIOUS
  <1> USE DEF LabelNotNewer, HasCopy
  <1>1. CASE SendRangeHeader
    <2>1. copy' = << >> \/ UNCHANGED <<copy, label>>
      BY <1>1 DEF SendRangeHeader
    <2> QED
      BY <2>1
  <1>2. CASE SendContent
    <2>1. label' = label
      BY <1>2 DEF SendContent
    <2>2. HasCopy => label <= Current
      BY UnitsAreVersions, VersionsType
    <2> QED
      BY <1>2, <2>1, <2>2, UnitAppended, UnitsAreVersions
  <1>3. CASE FileHandler \/ EndRange \/ EndFile \/ WriteFile
    BY <1>3 DEF FileHandler, EndRange, EndFile, WriteFile, clientVars
  <1>4. CASE Client \/ Lose \/ Tick
    BY <1>4, OthersKeep DEF CopyKept
  <1>5. CASE UNCHANGED vars
    BY <1>5 DEF vars, clientVars
  <1> QED
    BY <1>1, <1>2, <1>3, <1>4, <1>5 DEF Next, Server

\* No unit of the copy is older than the label says.
THEOREM LabelSafe == Spec => []LabelNotNewer
  <1>1. Init => LabelNotNewer
    BY DEF Init, LabelNotNewer, HasCopy
  <1> QED
    BY <1>1, LabelStep, TypeCorrect, PTL DEF Spec

-----------------------------------------------------------------------------
(* 304                                                                     *)

\* If the later versions still have later dates they had them before.
LEMMA DatedBefore == TypeOK /\ [Next]_vars /\ Dated' => Dated
  <1> SUFFICES ASSUME TypeOK, [Next]_vars, Dated' PROVE Dated
    OBVIOUS
  <1>1. CASE WriteFile
    BY <1>1, NewVersion DEF Dated
  <1>2. CASE Server
    BY <1>2 DEF Dated, Versions, Server, FileHandler, SendRangeHeader, SendContent,
                EndRange, EndFile, fileVars
  <1>3. CASE Client \/ Lose \/ Tick
    BY <1>3, OthersKeep DEF Dated, Versions
  <1>4. CASE UNCHANGED vars
    BY <1>4 DEF Dated, Versions, vars, fileVars
  <1> QED
    BY <1>1, <1>2, <1>3, <1>4 DEF Next

\* Under that condition two versions with one date are one version.
LEMMA OneDate ==
    ASSUME TypeOK, Dated, NEW v \in Versions, mtimes[v] >= mtimes[Current]
    PROVE  v = Current
  <1>1. v < Current => mtimes[v] < mtimes[Current]
    BY VersionsType DEF Dated
  <1>2. mtimes[v] \in Int /\ mtimes[Current] \in Int
    BY VersionsType DEF Dates
  <1> QED
    BY <1>1, <1>2, VersionsType

\* Only a whole copy is revalidated, and 304 ends an answer.
Revalidates ==
    pc = "header" /\ (Asks("If-Modified-Since") \/ Asks("If-None-Match")) => Whole
Told ==
    /\ pc = "header" => code = NoCode
    /\ code = "304" => pc = "idle" /\ st # NoVersion

NotModifiedInv ==
    TypeOK /\ LabelNotNewer /\ Revalidates /\ Told /\ NotModifiedMeansCurrent

\* The copy the client asks about stays whole until it has its answer.
LEMMA RevalidatesStep == NotModifiedInv /\ [Next]_vars => Revalidates'
  <1> SUFFICES ASSUME NotModifiedInv, [Next]_vars PROVE Revalidates'
    OBVIOUS
  <1>0. TypeOK /\ Revalidates
    BY DEF NotModifiedInv
  <1>1. CASE Server \/ GiveUp \/ Lose
    BY <1>1 DEF Server, FileHandler, SendRangeHeader, SendContent, EndRange, EndFile,
                GiveUp, Lose, Ends, Revalidates
  <1>2. CASE Fetch \/ AskRanges
    BY <1>2 DEF Fetch, AskRanges, Sends, Revalidates, Asks
  <1>3. CASE Revalidate
    BY <1>3, OthersKeep, <1>0
    DEF Client, Revalidate, CopyKept, Revalidates, Whole, HasCopy
  <1>4. CASE Resume
    BY <1>4, FileAssumption DEF Resume, Sends, Revalidates, Asks
  <1>5. CASE WriteFile
    BY <1>0, <1>5, NewVersion, UnitsAreVersions
    DEF WriteFile, serverVars, clientVars, Revalidates, Asks, Whole, HasCopy
  <1>6. CASE Tick \/ UNCHANGED vars
    BY <1>0, <1>6 DEF Tick, vars, fileVars, serverVars, clientVars, Revalidates, Asks,
                      Whole, HasCopy
  <1> QED
    BY <1>1, <1>2, <1>3, <1>4, <1>5, <1>6 DEF Next, Client

\* 304 is the last word of an answer.
LEMMA ToldStep == NotModifiedInv /\ [Next]_vars => Told'
  <1> SUFFICES ASSUME NotModifiedInv, [Next]_vars PROVE Told'
    OBVIOUS
  <1>0. TypeOK /\ Told
    BY DEF NotModifiedInv
  <1> USE DEF Told
  <1>1. CASE FileHandler
    <2>1. Current # NoVersion
      BY <1>0, VersionsType DEF NoVersion
    <2> QED
      BY <1>0, <1>1, <2>1 DEF FileHandler, Ends, NoCode
  <1>2. CASE SendRangeHeader \/ SendContent \/ EndRange \/ EndFile \/ GiveUp \/ Lose
    BY <1>0, <1>2 DEF SendRangeHeader, SendContent, EndRange, EndFile, GiveUp, Lose, Ends
  <1>3. CASE Fetch \/ Revalidate \/ Resume \/ AskRanges
    BY <1>3 DEF Fetch, Revalidate, Resume, AskRanges, Sends, NoCode
  <1>4. CASE WriteFile \/ Tick \/ UNCHANGED vars
    BY <1>0, <1>4 DEF WriteFile, Tick, vars, serverVars
  <1> QED
    BY <1>1, <1>2, <1>3, <1>4 DEF Next, Server, Client

\* What 304 says is true when it is said, and remains true of the version seen.
LEMMA NotModifiedStep == NotModifiedInv /\ [Next]_vars => NotModifiedMeansCurrent'
  <1> SUFFICES ASSUME NotModifiedInv, [Next]_vars, code' = "304", Dated'
               PROVE  /\ Len(copy') = lens'[st']
                      /\ \A i \in 1..Len(copy') : copy'[i] = st'
    BY DEF NotModifiedMeansCurrent
  <1>0. TypeOK /\ LabelNotNewer /\ Revalidates /\ Told /\ NotModifiedMeansCurrent
        /\ Dated
    BY DatedBefore DEF NotModifiedInv
  <1> DEFINE Same == UNCHANGED <<copy, lens, st, code>>
  <1>1. Same => /\ Len(copy') = lens'[st']
                /\ \A i \in 1..Len(copy') : copy'[i] = st'
    BY <1>0 DEF NotModifiedMeansCurrent
  <1>2. CASE FileHandler
    <2>1. Refusal(Current) = "304"
      BY <1>0, <1>2 DEF FileHandler, Told, NoCode
    <2>2. FileIfModefiedSince(Current) \/ FileIfNoneMatch(Current)
      BY <2>1 DEF Refusal, NoCode
    <2>3. Whole /\ label \in Versions
      BY <1>0, <1>2, <2>2, UnitsAreVersions
      DEF FileHandler, Revalidates, FileIfModefiedSince, FileIfNoneMatch, Whole
    <2>4. mtimes[label] >= mtimes[Current]
      <3>1. mtimes[Current] \in Int
        BY <1>0, VersionsType DEF Dates
      <3> QED
        BY <2>2, <3>1 DEF FileIfModefiedSince, FileIfNoneMatch, _mtime, _etag
    <2>5. label = Current
      BY <1>0, <2>3, <2>4, OneDate
    <2>6. \A i \in 1..Len(copy) : copy[i] = Current
      BY <1>0, <2>3, <2>5, UnitsAreVersions, VersionsType DEF LabelNotNewer, Whole
    <2> QED
      BY <1>2, <2>3, <2>5, <2>6 DEF FileHandler, fileVars, clientVars, Whole
  <1>3. CASE SendRangeHeader
    BY <1>3 DEF SendRangeHeader
  <1>4. CASE SendContent
    BY <1>0, <1>4 DEF SendContent, Told
  <1>5. CASE EndRange \/ EndFile \/ GiveUp \/ Lose
    BY <1>5, <1>1 DEF EndRange, EndFile, GiveUp, Lose, fileVars, clientVars
  <1>6. CASE Fetch \/ Revalidate \/ Resume \/ AskRanges
    BY <1>6 DEF Fetch, Revalidate, Resume, AskRanges, Sends, NoCode
  <1>7. CASE WriteFile
    <2>1. UNCHANGED <<copy, st, code>>
      BY <1>7 DEF WriteFile, serverVars, clientVars
    <2>2. lens'[st] = lens[st]
      BY <1>0, <1>7, <2>1, NewVersion DEF Told, TypeOK
    <2> QED
      BY <1>0, <2>1, <2>2 DEF NotModifiedMeansCurrent
  <1>8. CASE Tick \/ UNCHANGED vars
    BY <1>8, <1>1 DEF Tick, vars, fileVars, serverVars, clientVars
  <1> QED
    BY <1>2, <1>3, <1>4, <1>5, <1>6, <1>7, <1>8 DEF Next, Server, Client

\* A 304 is only given to a client whose copy is the version stat saw.
THEOREM NotModifiedSafe == Spec => []NotModifiedMeansCurrent
  <1>1. Init => NotModifiedInv
    <2> SUFFICES ASSUME Init PROVE NotModifiedInv
      OBVIOUS
    <2>1. TypeOK
      BY TypeInit
    <2> QED
      BY <2>1 DEF Init, NotModifiedInv, LabelNotNewer, HasCopy, Revalidates, Told,
                  NotModifiedMeansCurrent, NoCode
  <1>2. NotModifiedInv /\ [Next]_vars => NotModifiedInv'
    BY TypeStep, LabelStep, RevalidatesStep, ToldStep, NotModifiedStep
    DEF NotModifiedInv
  <1>3. NotModifiedInv => NotModifiedMeansCurrent
    BY DEF NotModifiedInv
  <1> QED
    BY <1>1, <1>2, <1>3, PTL DEF Spec

-----------------------------------------------------------------------------
(* Resumed copies                                                          *)

\* While the file is not written to during an answer the copy is of the version
\* of its label, which is the current one when content is about to be sent.
OneVersion ==
    HasCopy /\ Dated /\ ~raced => \A i \in 1..Len(copy) : copy[i] = label
SendsLabelled ==
    /\ aim = "copy" /\ Dated /\ ~raced
    /\ pc = "reading" \/ (pc = "ranges" /\ req.range # NoRange)
    => label = Current

\* The rest of a copy is asked for under one of the conditions of Resumes.
ResumesUnder ==
    pc = "header" /\ aim = "copy" /\ req.range # NoRange =>
        HasCopy /\ \E cond \in Resumes : req.conds = {cond}

ResumeInv == TypeOK /\ LabelNotNewer /\ OneVersion /\ SendsLabelled /\ ResumesUnder

\* Of the client's requests only Resume asks for a range of a copy.
LEMMA ResumesUnderStep == ResumeInv /\ [Next]_vars => ResumesUnder'
  <1> SUFFICES ASSUME ResumeInv, [Next]_vars PROVE ResumesUnder'
    OBVIOUS
  <1>0. TypeOK /\ ResumesUnder
    BY DEF ResumeInv
  <1>1. CASE Server \/ GiveUp \/ Lose
    BY <1>1 DEF Server, FileHandler, SendRangeHeader, SendContent, EndRange, EndFile,
                GiveUp, Lose, Ends, ResumesUnder
  <1>2. CASE Fetch \/ Revalidate \/ AskRanges
    BY <1>2 DEF Fetch, Revalidate, AskRanges, Sends, ResumesUnder, clientVars
  <1>3. CASE Resume
    BY <1>3 DEF Resume, Sends, ResumesUnder, clientVars, BrokenOff, HasCopy
  <1>4. CASE WriteFile \/ Tick \/ UNCHANGED vars
    BY <1>0, <1>4 DEF WriteFile, Tick, vars, serverVars, clientVars, ResumesUnder,
                      HasCopy
  <1> QED
    BY <1>1, <1>2, <1>3, <1>4 DEF Next, Client

\* A range of a copy passes If-Match and If-Unmodified-Since only if the copy's
\* label is the version that stat saw.
LEMMA ResumedIsCurrent ==
    ASSUME "If-Range" \notin Resumes, ResumeInv, Dated, FileHandler, aim = "copy",
           req.range # NoRange, Refusal(Current) = NoCode
    PROVE  label = Current
  <1>1. PICK cond \in {"If-Match", "If-Unmodified-Since"} : req.conds = {cond}
    BY FileAssumption DEF ResumeInv, ResumesUnder, FileHandler
  <1>2. TypeOK /\ label \in Versions
    BY UnitsAreVersions DEF ResumeInv, ResumesUnder, FileHandler
  <1>3. ~FileIfMatch(Current) /\ ~FileIfUnModefiedSince(Current)
    BY DEF Refusal, NoCode
  <1>4. mtimes[label] \in Int /\ mtimes[Current] \in Int
    BY <1>2, VersionsType DEF Dates
  <1>5. mtimes[label] >= mtimes[Current]
    BY <1>1, <1>3, <1>4 DEF FileIfMatch, FileIfUnModefiedSince, Asks, _mtime
  <1> QED
    BY <1>2, <1>5, OneDate

\* What is about to be sent belongs to the copy.
LEMMA SendsLabelledStep ==
    ASSUME "If-Range" \notin Resumes
    PROVE  ResumeInv /\ [Next]_vars => SendsLabelled'
  <1> SUFFICES ASSUME ResumeInv, [Next]_vars, Dated', ~raced', aim' = "copy",
                      pc' = "reading" \/ (pc' = "ranges" /\ req'.range # NoRange)
               PROVE  label' = Current'
    BY DEF SendsLabelled
  <1>0. TypeOK /\ SendsLabelled /\ Dated
    BY DatedBefore DEF ResumeInv
  <1>1. CASE FileHandler
    <2>1. Refusal(Current) = NoCode /\ req.range # NoRange /\ aim = "copy"
      BY <1>1 DEF FileHandler, Ends, clientVars
    <2> QED
      BY <1>0, <1>1, <2>1, ResumedIsCurrent DEF FileHandler, fileVars, clientVars, Current
  <1>2. CASE SendRangeHeader
    <2>1. CASE req.range = NoRange
      BY <1>2, <2>1 DEF SendRangeHeader, fileVars, Current
    <2>2. CASE req.range # NoRange
      BY <1>0, <1>2, <2>2 DEF SendRangeHeader, fileVars, Current, SendsLabelled
    <2> QED
      BY <2>1, <2>2
  <1>3. CASE SendContent \/ EndRange
    BY <1>0, <1>3 DEF SendContent, EndRange, fileVars, clientVars, Current, SendsLabelled
  <1>4. CASE EndFile \/ GiveUp \/ Lose
    BY <1>4 DEF EndFile, GiveUp, Lose, Ends
  <1>5. CASE Fetch \/ Revalidate \/ Resume \/ AskRanges
    BY <1>5 DEF Fetch, Revalidate, Resume, AskRanges, Sends
  <1>6. CASE WriteFile
    BY <1>6 DEF WriteFile, serverVars
  <1>7. CASE Tick \/ UNCHANGED vars
    BY <1>0, <1>7 DEF Tick, vars, fileVars, serverVars, clientVars, Current, SendsLabelled
  <1> QED
    BY <1>1, <1>2, <1>3, <1>4, <1>5, <1>6, <1>7 DEF Next, Server, Client

\* What is sent is appended to a copy of the same version.
LEMMA OneVersionStep == ResumeInv /\ [Next]_vars => OneVersion'
  <1> SUFFICES ASSUME ResumeInv, [Next]_vars, HasCopy', Dated', ~raced'
               PROVE  \A i \in 1..Len(copy') : copy'[i] = label'
    BY DEF OneVersion
  <1>0. TypeOK /\ OneVersion /\ SendsLabelled /\ Dated
    BY DatedBefore DEF ResumeInv
  <1>1. CASE SendRangeHeader
    <2>1. copy' = << >> \/ UNCHANGED <<copy, label, raced>>
      BY <1>1 DEF SendRangeHeader
    <2> QED
      BY <1>0, <2>1 DEF OneVersion, HasCopy
  <1>2. CASE SendContent
    <2>1. UNCHANGED <<label, raced>> /\ pc = "reading"
      BY <1>2 DEF SendContent
    <2> QED
      BY <1>0, <1>2, <2>1, UnitAppended, UnitsAreVersions
      DEF OneVersion, SendsLabelled, HasCopy
  <1>3. CASE FileHandler \/ EndRange \/ EndFile
    BY <1>0, <1>3 DEF FileHandler, EndRange, EndFile, clientVars, OneVersion, HasCopy
  <1>4. CASE WriteFile
    BY <1>0, <1>4 DEF WriteFile, clientVars, OneVersion, HasCopy
  <1>5. CASE Client \/ Lose \/ Tick
    BY <1>0, <1>5, OthersKeep DEF CopyKept, OneVersion, HasCopy
  <1>6. CASE UNCHANGED vars
    BY <1>0, <1>6 DEF vars, clientVars, OneVersion, HasCopy
  <1> QED
    BY <1>1, <1>2, <1>3, <1>4, <1>5, <1>6 DEF Next, Server

\* A client that resumes under If-Match or If-Unmodified-Since never joins two
\* versions of the file, unless it is written to while it is sent.
THEOREM ResumedSafe ==
    ASSUME "If-Range" \notin Resumes
    PROVE  Spec => []ResumedCopyWhole
  <1>1. Init => ResumeInv
    <2> SUFFICES ASSUME Init PROVE ResumeInv
      OBVIOUS
    <2>1. TypeOK
      BY TypeInit
    <2> QED
      BY <2>1 DEF Init, ResumeInv, LabelNotNewer, HasCopy, OneVersion, SendsLabelled,
                  ResumesUnder
  <1>2. ResumeInv /\ [Next]_vars => ResumeInv'
    BY TypeStep, LabelStep, OneVersionStep, SendsLabelledStep, ResumesUnderStep
    DEF ResumeInv
  <1>3. ResumeInv => ResumedCopyWhole
    BY DEF ResumeInv, OneVersion, ResumedCopyWhole, Whole
  <1> QED
    BY <1>1, <1>2, <1>3, PTL DEF Spec

-----------------------------------------------------------------------------
(* 206 and 416                                                             *)

\* FileRange and RangeList in terms of the header and of the length that the file
\* has: a version keeps its length, whatever is written later.
InFile(r, n) ==
    \/ r = NoRange
    \/ /\ r.eq
       /\ \A i \in Split(r.pieces) : InBounds(r.pieces[i], n - 1)

Begins(r, n, s) == {i \in Split(r.pieces) : First(r.pieces[i], n - 1) = s}
StaysAt(r, n, s) == CHOOSE i \in Begins(r, n, s) : \A j \in Begins(r, n, s) : j <= i
Ranges(r, n) ==
    IF r = NoRange
      THEN [s \in {0} |-> n - 1]
      ELSE [s \in {First(r.pieces[i], n - 1) : i \in Split(r.pieces)} |->
              Last(r.pieces[StaysAt(r, n, s)], n - 1)]

\* FileRange looks at nothing else.
LEMMA InFileIs ==
    ASSUME NEW v
    PROVE  FileRange(v) <=> InFile(req.range, lens[v])
  BY DEF FileRange, InFile, Kept, Pieces

\* Nor does _range_list depend on anything else.
LEMMA RangesIs ==
    ASSUME NEW v
    PROVE  RangeList(v) = Ranges(req.range, lens[v])
  BY DEF RangeList, Ranges, Begins, StaysAt, Kept, Pieces

\* The units of the ranges of f that begin in S.
Units(f, S) == UNION {s..f[s] : s \in S}

\* A piece in bounds asks for the units from its first to its last.
LEMMA WantsOf ==
    ASSUME NEW p \in Piece, NEW n \in Lens, InBounds(p, n - 1)
    PROVE  /\ Wants(p, n) = First(p, n - 1)..Last(p, n - 1)
           /\ First(p, n - 1) \in 0..n - 1
           /\ Last(p, n - 1) \in 0..n - 1
           /\ First(p, n - 1) <= Last(p, n - 1)
  <1>0. n \in Nat /\ n <= MaxLen /\ MaxLen \in Nat /\ p.a \in Int /\ p.b \in Int
    BY FileAssumption DEF Lens, Piece
  <1>1. CASE p.kind = "suffix"
    <2>1. First(p, n - 1) = n - p.b /\ Last(p, n - 1) = n - 1 /\ 1 <= p.b /\ p.b <= n
      BY <1>0, <1>1 DEF First, Last, InBounds
    <2>2. Wants(p, n) = {n - k : k \in 1..p.b}
      BY <1>1 DEF Wants
    <2>3. \A u \in n - p.b..n - 1 : n - u \in 1..p.b /\ n - (n - u) = u
      BY <1>0
    <2>4. \A k \in 1..p.b : n - k \in n - p.b..n - 1
      BY <1>0
    <2>5. Wants(p, n) = n - p.b..n - 1
      BY <2>2, <2>3, <2>4
    <2> QED
      BY <1>0, <2>1, <2>5
  <1>2. CASE p.kind = "from"
    <2>1. First(p, n - 1) = p.a /\ Last(p, n - 1) = n - 1 /\ 0 <= p.a /\ p.a <= n - 1
      BY <1>0, <1>2 DEF First, Last, InBounds
    <2>2. Wants(p, n) = {p.a} \union {k \in 0..n - 1 : p.a <= k}
      BY <1>2 DEF Wants
    <2>3. Wants(p, n) = p.a..n - 1
      BY <1>0, <2>1, <2>2
    <2> QED
      BY <1>0, <2>1, <2>3
  <1>3. CASE p.kind = "to"
    <2>1. First(p, n - 1) = p.a /\ Last(p, n - 1) = p.b /\ 0 <= p.a /\ p.a <= p.b
          /\ p.b <= n - 1
      BY <1>0, <1>3 DEF First, Last, InBounds
    <2>2. Wants(p, n) = {k \in -1..MaxLen + 1 : p.a <= k /\ k <= p.b}
      BY <1>3 DEF Wants
    <2>3. Wants(p, n) = p.a..p.b
      BY <1>0, <2>1, <2>2
    <2> QED
      BY <1>0, <2>1, <2>3
  <1> QED
    BY <1>1, <1>2, <1>3 DEF InBounds

\* The bounds of the code are those of what a piece means.
LEMMA FitsInBounds ==
    ASSUME NEW p \in Piece, NEW n \in Lens, Fits(p, n)
    PROVE  InBounds(p, n - 1)
  <1>0. n \in Nat /\ n <= MaxLen /\ MaxLen \in Nat /\ p.a \in Int /\ p.b \in Int
    BY FileAssumption DEF Lens, Piece
  <1>1. PICK k \in Wants(p, n) : TRUE
    BY DEF Fits
  <1>2. \A u \in Wants(p, n) : u \in 0..n - 1
    BY DEF Fits
  <1>3. CASE p.kind = "suffix"
    <2>1. Wants(p, n) = {n - u : u \in 1..p.b}
      BY <1>3 DEF Wants
    <2>2. 1 <= p.b
      BY <1>0, <1>1, <2>1
    <2>3. n - p.b \in Wants(p, n)
      BY <1>0, <2>1, <2>2
    <2>4. n - p.b \in 0..n - 1
      BY <1>2, <2>3
    <2> QED
      BY <1>0, <1>3, <2>2, <2>4 DEF InBounds, First, Last
  <1>4. CASE p.kind = "from"
    <2>1. p.a \in Wants(p, n)
      BY <1>4 DEF Wants
    <2>2. p.a \in 0..n - 1
      BY <1>2, <2>1
    <2> QED
      BY <1>0, <1>4, <2>2 DEF InBounds, First, Last
  <1>5. CASE p.kind = "to"
    <2>1. Wants(p, n) = {u \in -1..MaxLen + 1 : p.a <= u /\ u <= p.b}
      BY <1>5 DEF Wants
    <2>2. k \in Int /\ -1 <= k /\ p.a <= k /\ k <= p.b /\ k <= n - 1
      BY <1>0, <1>1, <1>2, <2>1
    <2>3. 0 <= p.a
      <3>1. -1 \notin Wants(p, n)
        BY <1>0, <1>2
      <3> QED
        BY <1>0, <2>1, <2>2, <3>1
    <2>4. p.b <= n - 1
      <3>1. n \notin Wants(p, n)
        BY <1>0, <1>2
      <3> QED
        BY <1>0, <2>1, <2>2, <3>1
    <2>5. p.a <= p.b
      BY <1>0, <2>2
    <2> QED
      BY <1>0, <1>5, <2>3, <2>4, <2>5 DEF InBounds, First, Last
  <1>6. CASE p.kind \notin {"suffix", "from", "to"}
    BY <1>1, <1>6 DEF Wants
  <1> QED
    BY <1>3, <1>4, <1>5, <1>6

\* A piece that Split leaves out asks for nothing.
LEMMA LeftOut ==
    ASSUME NEW r \in RangeText, NEW i \in 1..Len(r.pieces), i \notin Split(r.pieces)
    PROVE  r.pieces[i].kind \in {"empty", "short"}
  BY DEF Split, RangeText

\* Every range of _range_list is one of the pieces that begin there.
LEMMA RangeIsPiece ==
    ASSUME NEW r \in RangeText, NEW n \in Lens, InFile(r, n),
           NEW s \in DOMAIN Ranges(r, n)
    PROVE  \E i \in 1..Len(r.pieces) :
               /\ First(r.pieces[i], n - 1) = s
               /\ InBounds(r.pieces[i], n - 1)
               /\ Ranges(r, n)[s] = Last(r.pieces[i], n - 1)
  <1>1. r # NoRange /\ r.pieces \in Seq(Piece)
    BY DEF RangeText, NoRange
  <1>2. /\ Ranges(r, n) = [u \in {First(r.pieces[i], n - 1) : i \in Split(r.pieces)} |->
                              Last(r.pieces[StaysAt(r, n, u)], n - 1)]
        /\ \A i \in Split(r.pieces) : InBounds(r.pieces[i], n - 1)
    BY <1>1 DEF Ranges, InFile
  <1>3. Begins(r, n, s) \in SUBSET (1..Len(r.pieces)) /\ Begins(r, n, s) # {}
        /\ Len(r.pieces) \in Nat
    BY <1>1, <1>2 DEF Begins, Split
  <1>4. StaysAt(r, n, s) \in Begins(r, n, s)
    BY <1>3, StaysIsOne DEF StaysAt
  <1> QED
    BY <1>2, <1>3, <1>4 DEF Begins

\* Both in one: the units of a range are those that one of the pieces asks for.
LEMMA RangeWanted ==
    ASSUME NEW r \in RangeText, NEW n \in Lens, InFile(r, n),
           NEW s \in DOMAIN Ranges(r, n)
    PROVE  /\ s \in 0..n - 1
           /\ Ranges(r, n)[s] \in Int
           /\ s <= Ranges(r, n)[s]
           /\ \E i \in 1..Len(r.pieces) :
                 /\ Wants(r.pieces[i], n) = s..Ranges(r, n)[s]
                 /\ BeginsWith(r.pieces[i], n, s)
  <1>1. PICK i \in 1..Len(r.pieces) :
            /\ First(r.pieces[i], n - 1) = s
            /\ InBounds(r.pieces[i], n - 1)
            /\ Ranges(r, n)[s] = Last(r.pieces[i], n - 1)
    BY RangeIsPiece
  <1>2. r.pieces[i] \in Piece
    BY DEF RangeText
  <1>3. /\ Wants(r.pieces[i], n) = s..Ranges(r, n)[s]
        /\ s \in 0..n - 1 /\ Ranges(r, n)[s] \in 0..n - 1 /\ s <= Ranges(r, n)[s]
    BY <1>1, <1>2, WantsOf
  <1>4. BeginsWith(r.pieces[i], n, s)
    BY <1>3 DEF BeginsWith, Lens
  <1> QED
    BY <1>3, <1>4 DEF Lens

\* What a range of _range_list holds was asked for.
LEMMA NothingElse ==
    ASSUME req.range \in RangeText, NEW n \in Lens, InFile(req.range, n)
    PROVE  Units(Ranges(req.range, n), DOMAIN Ranges(req.range, n))
               \subseteq UNION {Wants(p, n) : p \in Asked}
  <1> DEFINE L == Ranges(req.range, n)
  <1>1. SUFFICES ASSUME NEW s \in DOMAIN L, NEW u \in s..L[s]
                 PROVE  u \in UNION {Wants(p, n) : p \in Asked}
    BY DEF Units
  <1>2. PICK i \in 1..Len(req.range.pieces) :
            Wants(req.range.pieces[i], n) = s..L[s]
    BY RangeWanted
  <1> QED
    BY <1>2 DEF Asked

\* All that was asked for is in _range_list, if no two ranges begin with one unit.
LEMMA NothingMissing ==
    ASSUME req.range \in RangeText, NEW n \in Lens, InFile(req.range, n), ~OneStart(n)
    PROVE  UNION {Wants(p, n) : p \in Asked}
               \subseteq Units(Ranges(req.range, n), DOMAIN Ranges(req.range, n))
  <1> DEFINE L == Ranges(req.range, n)
             ps == req.range.pieces
  <1>1. SUFFICES ASSUME NEW i \in 1..Len(ps), NEW u \in Wants(ps[i], n)
                 PROVE  u \in Units(L, DOMAIN L)
    BY DEF Asked
  <1>2. req.range # NoRange /\ ps[i] \in Piece
    BY DEF RangeText, NoRange
  <1>3. i \in Split(ps)
    BY LeftOut DEF Wants
  <1>4. InBounds(ps[i], n - 1)
    BY <1>2, <1>3 DEF InFile
  <1> DEFINE s == First(ps[i], n - 1)
  <1>5. s \in DOMAIN L
    BY <1>2, <1>3 DEF Ranges
  <1>6. PICK j \in 1..Len(ps) :
            Wants(ps[j], n) = s..L[s] /\ BeginsWith(ps[j], n, s)
    BY <1>5, RangeWanted
  <1>7. BeginsWith(ps[i], n, s) /\ s \in 0..n
    BY <1>2, <1>4, WantsOf DEF BeginsWith, Lens
  <1>8. ps[i] \in Asked /\ ps[j] \in Asked
    BY DEF Asked
  <1>9. ps[i] = ps[j]
    BY <1>6, <1>7, <1>8 DEF OneStart
  <1> QED
    BY <1>5, <1>6, <1>9 DEF Units

\* _range_list is empty only if there is nothing in the header to look at.
LEMMA EmptyMeaning ==
    ASSUME req.range \in RangeText, NEW n \in Lens, DOMAIN Ranges(req.range, n) = {}
    PROVE  \A p \in Asked : p.kind \in {"empty", "short"}
  <1>1. req.range # NoRange
    BY DEF RangeText, NoRange
  <1>2. Split(req.range.pieces) = {}
    BY <1>1 DEF Ranges
  <1> QED
    BY <1>2, LeftOut DEF Asked

\* A header that FileRange refuses names a range that the file does not have.
LEMMA RefusalMeaning ==
    ASSUME req.range \in RangeText, NEW n \in Lens, ~InFile(req.range, n)
    PROVE  ~req.range.eq \/ \E p \in Asked : ~Fits(p, n)
  <1> SUFFICES ASSUME req.range.eq
               PROVE  \E p \in Asked : ~Fits(p, n)
    OBVIOUS
  <1>1. PICK i \in Split(req.range.pieces) : ~InBounds(req.range.pieces[i], n - 1)
    BY DEF InFile
  <1>2. i \in 1..Len(req.range.pieces) /\ req.range.pieces[i] \in Piece
    BY DEF Split, RangeText
  <1>3. ~Fits(req.range.pieces[i], n) /\ req.range.pieces[i] \in Asked
    BY <1>1, <1>2, FitsInBounds DEF Asked
  <1> QED
    BY <1>3

-----------------------------------------------------------------------------
(* The steps of an answer with ranges                                      *)

\* The ranges of the version that stat saw.
Due == Ranges(req.range, lens[st])
Rest == DOMAIN Due \ DOMAIN range_list

\* Where such an answer is: what has been taken out of _range_list has been sent,
\* but for the rest of the range that is being sent.
ToSend ==
    pc \in {"ranges", "reading"} =>
        /\ st \in Versions
        /\ InFile(req.range, lens[st])
        /\ DOMAIN range_list \subseteq DOMAIN Due
        /\ \A s \in DOMAIN range_list : range_list[s] = Due[s]
Between ==
    pc = "ranges" =>
        /\ sent = Units(Due, Rest)
        /\ code \in {NoCode, "206"}
        /\ code = NoCode => DOMAIN range_list = DOMAIN Due
Within ==
    pc = "reading" =>
        /\ code = "206"
        /\ \E s \in Rest :
              /\ epos = Due[s]
              /\ s <= pos /\ pos <= epos + 1
              /\ sent = (s..pos - 1) \union Units(Due, Rest \ {s})
Header ==
    /\ pc # "idle" => req.range \in RangeTexts
    /\ pc = "header" => sent = {} /\ code = NoCode

\* 416 has a cause.
Refused ==
    code = "416" /\ st # NoVersion =>
        /\ st \in Versions
        /\ req.range \in RangeTexts
        /\ ~InFile(req.range, lens[st])

RangesInv ==
    TypeOK /\ (aim = "ranges" => Header /\ ToSend /\ Between /\ Within /\ Refused)

\* Such an answer is what the header asks for.
LEMMA RangesMeaning == RangesInv => RangesAsAsked
  <1> SUFFICES ASSUME RangesInv, aim = "ranges", st # NoVersion
               PROVE  RangesAsAsked
    BY DEF RangesAsAsked
  <1>0. TypeOK /\ Header /\ ToSend /\ Between /\ Refused
    BY DEF RangesInv
  <1> DEFINE n == lens[st]
  <1>1. n \in Lens
    BY <1>0, VersionsType DEF TypeOK
  <1>2. ASSUME pc = "ranges", range_list = << >>
        PROVE  /\ req.range \in RangeText /\ InFile(req.range, n)
               /\ sent = Units(Ranges(req.range, n), DOMAIN Ranges(req.range, n))
    <2>1. Rest = DOMAIN Ranges(req.range, n)
      BY <1>2 DEF Rest, Due
    <2> QED
      BY <1>0, <1>2, <2>1, FileAssumption DEF Header, ToSend, Between, Due
  <1>3. ASSUME pc = "ranges", range_list = << >>, code = "206"
        PROVE  /\ sent \subseteq UNION {Wants(p, n) : p \in Asked}
               /\ OneStart(n) \/ sent = UNION {Wants(p, n) : p \in Asked}
    <2>1. sent \subseteq UNION {Wants(p, n) : p \in Asked}
      BY <1>1, <1>2, <1>3, NothingElse
    <2>2. CASE ~OneStart(n)
      <3>1. UNION {Wants(p, n) : p \in Asked} \subseteq sent
        BY <1>1, <1>2, <1>3, <2>2, NothingMissing
      <3> QED
        BY <2>1, <3>1
    <2>3. CASE OneStart(n)
      BY <2>1, <2>3
    <2> QED
      BY <2>2, <2>3
  <1>4. ASSUME code = "416"
        PROVE  ~req.range.eq \/ \E p \in Asked : ~Fits(p, n)
    <2>1. req.range \in RangeText /\ ~InFile(req.range, n)
      BY <1>0, <1>4, FileAssumption DEF Refused
    <2> QED
      BY <1>1, <2>1, RefusalMeaning
  <1>5. ASSUME pc = "ranges", range_list = << >>, code = NoCode
        PROVE  \A p \in Asked : p.kind \in {"empty", "short"}
    <2>1. DOMAIN Ranges(req.range, n) = {}
      BY <1>0, <1>5 DEF Between, Due
    <2> QED
      BY <1>1, <1>2, <1>5, <2>1, EmptyMeaning
  <1> QED
    BY <1>3, <1>4, <1>5 DEF RangesAsAsked

\* Steps that leave the answer alone, and the length of the version stat saw.
AnswerKept ==
    /\ UNCHANGED <<aim, pc, req, st, range_list, epos, pos, code, sent>>
    /\ st \in Versions => st \in Versions' /\ lens'[st] = lens[st]

\* They keep all of it.
LEMMA KeptStep ==
    ASSUME TypeOK, Header, ToSend, Between, Within, Refused, AnswerKept
    PROVE  Header' /\ ToSend' /\ Between' /\ Within' /\ Refused'
  <1>1. st \in Versions => Due' = Due /\ Rest' = Rest
    BY DEF AnswerKept, Due, Rest
  <1>2. Header' /\ Refused'
    BY DEF AnswerKept, Header, Refused
  <1>3. ToSend'
    BY <1>1 DEF AnswerKept, ToSend
  <1>4. Between'
    BY <1>1 DEF AnswerKept, ToSend, Between
  <1>5. Within'
    BY <1>1 DEF AnswerKept, ToSend, Within
  <1> QED
    BY <1>2, <1>3, <1>4, <1>5

\* An answer that ends leaves only its code behind.
LEMMA OverStep ==
    ASSUME Header, Refused, Ends, UNCHANGED <<lens, mtimes, req, st, code>>
    PROVE  Header' /\ ToSend' /\ Between' /\ Within' /\ Refused'
  BY DEF Ends, Header, ToSend, Between, Within, Refused, Versions

\* FileHandler fills _range_list, or refuses the header.
LEMMA HandlerStep ==
    ASSUME TypeOK, Header, FileHandler
    PROVE  Header' /\ ToSend' /\ Between' /\ Within' /\ Refused'
  <1>1. /\ pc = "header" /\ sent = {} /\ code = NoCode /\ req.range \in RangeTexts
        /\ st' = Current /\ UNCHANGED <<lens, mtimes, req, sent>>
        /\ Current \in Versions
    BY VersionsType DEF FileHandler, Header, fileVars
  <1>2. CASE Refusal(Current) = NoCode
    <2>1. pc' = "ranges" /\ code' = code /\ range_list' = RangeList(Current)
      BY <1>2 DEF FileHandler
    <2>2. InFile(req.range, lens[Current])
      BY <1>2, InFileIs DEF Refusal, NoCode
    <2>3. range_list' = Due' /\ Rest' = {}
      BY <1>1, <2>1, RangesIs DEF Due, Rest
    <2>4. ToSend'
      BY <1>1, <2>1, <2>2, <2>3 DEF ToSend, Versions
    <2>5. Between'
      BY <1>1, <2>1, <2>3 DEF Between, Units
    <2>6. Header' /\ Within' /\ Refused'
      BY <1>1, <2>1 DEF Header, Within, Refused, NoCode
    <2> QED
      BY <2>4, <2>5, <2>6
  <1>3. CASE Refusal(Current) # NoCode
    <2>1. pc' = "idle" /\ code' = Refusal(Current)
      BY <1>3 DEF FileHandler, Ends
    <2>2. code' = "416" => ~InFile(req.range, lens[Current])
      BY <2>1, <1>3, InFileIs DEF Refusal, NoCode
    <2>3. Refused'
      BY <1>1, <2>1, <2>2 DEF Refused, Versions
    <2> QED
      BY <2>1, <2>3 DEF Header, ToSend, Between, Within
  <1> QED
    BY <1>2, <1>3

\* A range is taken out of _range_list, and sending it begins.
LEMMA TakeStep ==
    ASSUME TypeOK, Header, ToSend, Between, SendRangeHeader
    PROVE  Header' /\ ToSend' /\ Between' /\ Within' /\ Refused'
  <1>1. PICK s \in DOMAIN range_list :
            /\ pos' = s /\ epos' = range_list[s]
            /\ range_list' = [r \in DOMAIN range_list \ {s} |-> range_list[r]]
    BY DEF SendRangeHeader
  <1>2. pc = "ranges" /\ pc' = "reading" /\ UNCHANGED <<lens, mtimes, req, st, sent>>
    BY DEF SendRangeHeader, fileVars
  <1>3. /\ st \in Versions /\ InFile(req.range, lens[st])
        /\ DOMAIN range_list \subseteq DOMAIN Due
        /\ \A r \in DOMAIN range_list : range_list[r] = Due[r]
        /\ sent = Units(Due, Rest)
        /\ req.range \in RangeTexts /\ req.range \in RangeText
    BY <1>2, FileAssumption DEF ToSend, Between, Header
  <1>4. req.range # NoRange /\ code' = "206"
    BY <1>3 DEF SendRangeHeader, RangeText, NoRange
  <1>5. Due' = Due /\ Rest' = Rest \union {s} /\ s \notin Rest
    BY <1>1, <1>2, <1>3 DEF Due, Rest
  <1>6. s \in DOMAIN Due /\ Due[s] \in Int /\ s \in Int /\ s <= Due[s]
    <2>1. lens[st] \in Lens
      BY <1>3, VersionsType
    <2> QED
      BY <1>1, <1>3, <2>1, RangeWanted DEF Due, Lens
  <1>7. Within'
    <2>1. Rest' \ {s} = Rest /\ s..s - 1 = {}
      BY <1>5, <1>6
    <2>2. sent' = (s..s - 1) \union Units(Due, Rest' \ {s})
      BY <1>2, <1>3, <2>1
    <2>3. /\ s \in Rest' /\ epos' = Due'[s] /\ s <= pos' /\ pos' <= epos' + 1
          /\ sent' = (s..pos' - 1) \union Units(Due', Rest' \ {s})
      BY <1>1, <1>3, <1>5, <1>6, <2>2
    <2> QED
      BY <1>4, <2>3 DEF Within
  <1>8. ToSend'
    BY <1>1, <1>2, <1>3, <1>5 DEF ToSend, Versions
  <1> QED
    BY <1>2, <1>3, <1>4, <1>7, <1>8 DEF Header, Between, Refused

\* A unit of the range is sent.
LEMMA UnitStep ==
    ASSUME TypeOK, Header, ToSend, Within, SendContent
    PROVE  Header' /\ ToSend' /\ Between' /\ Within' /\ Refused'
  <1>1. /\ pc = "reading" /\ pc' = "reading" /\ pos <= epos /\ pos' = pos + 1
        /\ sent' = sent \union {pos}
        /\ UNCHANGED <<lens, mtimes, req, st, range_list, epos, code>>
    BY DEF SendContent, fileVars
  <1>2. PICK s \in Rest :
            /\ epos = Due[s] /\ s <= pos /\ pos <= epos + 1
            /\ sent = (s..pos - 1) \union Units(Due, Rest \ {s})
    BY <1>1 DEF Within
  <1>3. Due' = Due /\ Rest' = Rest
    BY <1>1 DEF Due, Rest
  <1>4. s \in Int /\ pos \in Int /\ epos \in Int
    <2>1. /\ lens[st] \in Lens /\ InFile(req.range, lens[st])
          /\ req.range \in RangeText /\ s \in DOMAIN Due
      BY <1>1, <1>2, VersionsType, FileAssumption DEF ToSend, Header, Rest
    <2> QED
      BY <2>1, RangeWanted DEF Due, TypeOK, Lens
  <1>5. s..pos' - 1 = (s..pos - 1) \union {pos} /\ s <= pos' /\ pos' <= epos' + 1
    BY <1>1, <1>2, <1>4
  <1>6. sent' = (s..pos' - 1) \union Units(Due', Rest' \ {s})
    BY <1>1, <1>2, <1>3, <1>5
  <1>7. Within'
    BY <1>1, <1>2, <1>3, <1>5, <1>6 DEF Within
  <1>8. ToSend'
    BY <1>1, <1>3 DEF ToSend, Versions
  <1> QED
    BY <1>1, <1>7, <1>8 DEF Header, Between, Refused, Within

\* The range has been sent.
LEMMA RangeStep ==
    ASSUME TypeOK, Header, ToSend, Within, EndRange
    PROVE  Header' /\ ToSend' /\ Between' /\ Within' /\ Refused'
  <1>1. /\ pc = "reading" /\ pc' = "ranges" /\ pos > epos
        /\ UNCHANGED <<lens, mtimes, req, st, range_list, code, sent>>
    BY DEF EndRange, fileVars
  <1>2. PICK s \in Rest :
            /\ epos = Due[s] /\ s <= pos /\ pos <= epos + 1
            /\ sent = (s..pos - 1) \union Units(Due, Rest \ {s})
    BY <1>1 DEF Within
  <1>3. Due' = Due /\ Rest' = Rest
    BY <1>1 DEF Due, Rest
  <1>4. pos - 1 = Due[s]
    <2>1. pos \in Int /\ epos \in Int
      BY DEF TypeOK, Lens
    <2> QED
      BY <1>1, <1>2, <2>1
  <1>5. sent = Units(Due, Rest)
    BY <1>2, <1>4 DEF Units
  <1>6. ToSend'
    BY <1>1, <1>3 DEF ToSend, Versions
  <1>7. code = "206"
    BY <1>1 DEF Within
  <1>8. Between'
    BY <1>1, <1>3, <1>5, <1>7 DEF Between, NoCode
  <1> QED
    BY <1>1, <1>6, <1>7, <1>8 DEF Header, Refused, Within

\* An answer with ranges stays where its ranges say that it is.
LEMMA RangesStep == RangesInv /\ [Next]_vars => RangesInv'
  <1> SUFFICES ASSUME RangesInv, [Next]_vars, aim' = "ranges"
               PROVE  Header' /\ ToSend' /\ Between' /\ Within' /\ Refused'
    BY TypeStep DEF RangesInv
  <1>0. TypeOK
    BY DEF RangesInv
  <1>1. aim = "ranges"
    BY DEF Next, Server, Client, FileHandler, SendRangeHeader, SendContent, EndRange,
           EndFile, Fetch, Revalidate, Resume, AskRanges, Sends, GiveUp, Lose,
           WriteFile, Tick, vars, clientVars
  <1>2. Header /\ ToSend /\ Between /\ Within /\ Refused
    BY <1>1 DEF RangesInv
  <1>3. CASE FileHandler
    BY <1>0, <1>2, <1>3, HandlerStep
  <1>4. CASE SendRangeHeader
    BY <1>0, <1>2, <1>4, TakeStep
  <1>5. CASE SendContent
    BY <1>0, <1>2, <1>5, UnitStep
  <1>6. CASE EndRange
    BY <1>0, <1>2, <1>6, RangeStep
  <1>7. CASE EndFile \/ GiveUp \/ Lose
    <2>1. Ends /\ UNCHANGED <<lens, mtimes, req, st, code>>
      BY <1>7 DEF EndFile, GiveUp, Lose, fileVars
    <2> QED
      BY <1>2, <2>1, OverStep
  <1>8. CASE Fetch \/ Revalidate \/ Resume
    BY <1>1, <1>8 DEF Fetch, Revalidate, Resume
  <1>9. CASE AskRanges
    <2>1. PICK text \in RangeTexts : Sends({}, text)
      BY <1>9 DEF AskRanges
    <2> QED
      BY <2>1 DEF Sends, Header, ToSend, Between, Within, Refused, NoCode
  <1>10. CASE WriteFile
    <2>1. AnswerKept
      BY <1>0, <1>10, NewVersion DEF WriteFile, serverVars, clientVars, AnswerKept
    <2> QED
      BY <1>0, <1>2, <2>1, KeptStep
  <1>11. CASE Tick \/ UNCHANGED vars
    <2>1. AnswerKept
      BY <1>11 DEF Tick, vars, fileVars, serverVars, clientVars, AnswerKept, Versions
    <2> QED
      BY <1>0, <1>2, <2>1, KeptStep
  <1> QED
    BY <1>3, <1>4, <1>5, <1>6, <1>7, <1>8, <1>9, <1>10, <1>11 DEF Next, Server, Client

\* What 206 sends was asked for and is all of it, but for ranges that begin with the
\* same unit; 416 has a range as its cause that the file does not have; and no
\* answer is sent only if no range is longer than a character: for files of every
\* length and headers of every form, also while others write the file.
THEOREM RangesSafe == Spec => []RangesAsAsked
  <1>1. Init => RangesInv
    <2> SUFFICES ASSUME Init PROVE RangesInv
      OBVIOUS
    <2>1. TypeOK
      BY TypeInit
    <2> QED
      BY <2>1 DEF Init, RangesInv, Header, ToSend, Between, Within, Refused, NoCode
  <1>2. RangesInv /\ [Next]_vars => RangesInv'
    BY RangesStep
  <1>3. RangesInv => RangesAsAsked
    BY RangesMeaning
  <1> QED
    BY <1>1, <1>2, <1>3, PTL DEF Spec
=============================================================================
