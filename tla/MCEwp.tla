------------------------------- MODULE MCEwp -------------------------------
(***************************************************************************)
(* EwpServer for TLC.  With buffers of 5 cells, the two halves of the end  *)
(* marker and the closing zero of a mail: no or one cell of text comes in  *)
(* one read, four in two reads with the boundary before the marker         *)
(* (MCFit); three have the boundary between the halves of the marker       *)
(* (MCStraddle), two between the marker and the zero (MCLeftover).         *)
(***************************************************************************)
EXTENDS EwpServer

MCNames == {"a.eml", "b.eml"}
MCOne   == {"a.eml"}

MCAll == Commands
MCFew == {"DATA", "QUIT"}

Plain(n) == [i \in 1..n |-> "other"]

MCFit      == {Plain(0), Plain(4)} \cup {<<w>> : w \in Commands}
MCStraddle == {Plain(0), Plain(3)}
MCLeftover == {Plain(0), Plain(2)}
MCOneText  == {<<"other">>, <<"DATA">>, <<"QUIT">>}
=============================================================================
