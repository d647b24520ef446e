------------------------------- MODULE MCTask4 -------------------------------
(***************************************************************************)
(* Task4Threads for TLC: a buffer of two bytes, files that are empty,      *)
(* shorter than the buffer, as long as it and longer; the third byte is a  *)
(* zero, or none is.                                                       *)
(***************************************************************************)
EXTENDS Task4Threads

MCInitialSizes == {0, 1, 2, 3}
MCFewSizes == {0, 3}

MCZeroBytes == {3}
MCNoZero == {}
=============================================================================
