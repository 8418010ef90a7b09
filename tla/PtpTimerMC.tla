---------------------------- MODULE PtpTimerMC -----------------------------
(***************************************************************************)
(* PtpTimer for TLC: a second has 2 units, a word 2 bits.                  *)
(***************************************************************************)
EXTENDS PtpTimer, TLC

SmallPpbs    == {-3, 3}
SmallDeltas  == {-3, 4}
SmallTargets == {0, 5, 9}

Symmetry == Permutations(Caller)
=============================================================================
