----------------------------- MODULE MCUpLoad -----------------------------
(* Bodies of one to three parts, whose content ends in a line end or looks *)
(* like the beginning of a boundary.                                       *)
EXTENDS UpLoad

AllUnits == {N, D, B, F, E, H, X, Garbage, "u", "x", "y", "z"}

File(s) == [header |-> F, content |-> s]
Field(s) == [header |-> H, content |-> s]

LongBodies ==
    { <<File(<<"x", N, D, "y", N>>), Field(<<"z">>)>>,
      <<Field(<<"u", N>>), File(<<"x", "y", N, N, D>>), File(<< >>)>>,
      <<File(<<N, "x", B, D, "y", N, D, N>>)>>,
      <<File(<<"x">>), [header |-> E, content |-> << >>]>>,
      <<Field(<<"u">>), [header |-> X, content |-> <<"y">>]>> }

\* Contents of up to two units.
Contents ==
    {s \in UNION {[1..n -> {"x", N, D, B}] : n \in 0..2} : Fits(s)}

SmallBodies == LongBodies \union {<<File(s), Field(s), File(s)>> : s \in Contents}

NoFile == << >>

\* What the theorems about the program assume holds of these bodies.
ASSUME BodiesFit /\ OldFileCovered
=============================================================================
