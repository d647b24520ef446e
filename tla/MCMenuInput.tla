---------------------------- MODULE MCMenuInput ----------------------------
(***************************************************************************)
(* MenuInput for TLC.  Choices of one and of two digits, nothing, and text *)
(* of one to three characters; words and numbers alone and with a blank;   *)
(* where the rest of the line is thrown away, also two words, text for a   *)
(* number and a number in front of text.                                   *)
(***************************************************************************)
EXTENDS MenuInput

MCMenuLines   == {<<d>> : d \in Digit} \cup {<<0, 6>>, <<1, 2>>, <<>>, <<Letter>>, <<Letter, 1>>,
                                             <<Blank, Letter, Letter>>}
MCWordLines   == {<<Letter>>, <<Letter, 4>>, <<Blank, Letter>>, <<>>}
MCNumberLines == {<<3>>, <<1, 4, 3, 0>>, <<7, Blank>>}
MCLooseLines  == MCWordLines \cup MCNumberLines \cup {<<Letter, Blank, 2>>, <<5, Letter>>, <<8, Blank, 9>>}
=============================================================================
