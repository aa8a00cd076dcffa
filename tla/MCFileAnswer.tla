---------------------------- MODULE MCFileAnswer ----------------------------
(* Range headers for files of up to two units: every piece up to one unit  *)
(* behind the end, alone and in pairs, and headers without "=".            *)
EXTENDS FileAnswer

Numbers == 0..MaxLen + 1
AllPieces ==
    [kind : {"empty", "short", "word"}, a : {0}, b : {0}]
    \union [kind : {"suffix"}, a : {0}, b : Numbers]
    \union [kind : {"from"}, a : Numbers, b : {0}]
    \union [kind : {"to"}, a : Numbers, b : {-1} \union Numbers]

AllRanges ==
    [eq : {TRUE}, pieces : UNION {[1..n -> AllPieces] : n \in 1..2}]
    \union [eq : {FALSE}, pieces : { << p >> : p \in AllPieces}]

Checked == {"If-Match", "If-Unmodified-Since"}
=============================================================================
