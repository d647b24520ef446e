----------------------------- MODULE MenuInput -----------------------------
(***************************************************************************)
(* Task 3: what the menu reads from the terminal.  The number of a choice  *)
(* is read with fgets, two characters at a time; the answers to the        *)
(* prompts of a choice with scanf, which leaves the end of the line, and   *)
(* mostly clear_input_buffer behind it.  What is left of one line is the   *)
(* beginning of the next answer.                                           *)
(*                                                                         *)
(* The user types a line when the program waits for one.  What the choices *)
(* do with the answers is FlightManager; here the lists decide by chance   *)
(* whether a choice ends early.                                            *)
(***************************************************************************)
EXTENDS Integers, SequencesExt

CONSTANTS MenuLines,    \* what the user types to choose
          WordLines,    \* to a prompt for a name or an id that is followed by no clearing
          NumberLines,  \* to a prompt for a number that is followed by no clearing
          LooseLines    \* to a prompt that is followed by one

(* Characters: the digits, and three kinds of others. *)
Digit   == 0..9
LineEnd == -1
Blank   == -2
Letter  == -3
White   == {LineEnd, Blank}
InLine  == Digit \cup {Blank, Letter}
Lines   == Seq(InLine)

ASSUME LinesAssumption == MenuLines \cup WordLines \cup NumberLines \cup LooseLines \subseteq Lines

VARIABLES input,   \* what was typed and not read
          open,    \* whether the user may type more
          line,    \* the line typed for the answer that is waited for, if any
          reads,   \* what the choice has still to read
          took,    \* what was read last, and the line that was typed for it
          state    \* of the process, as in FlightManager

vars == <<input, open, line, reads, took, state>>

NoLine  == <<Blank>>
Nothing == [kind |-> "nothing"]
Error   == [kind |-> "error"]

Word(clear)   == [kind |-> "word", clear |-> clear]
Number(clear) == [kind |-> "number", clear |-> clear]

(* What choice c reads: everything, or what comes before it finds no       *)
(* flights, or not the flight it asked for.                                *)
Scripts == [c \in 1..9 |->
  CASE c = 1      -> {<<Word(FALSE), Word(FALSE), Number(FALSE), Number(FALSE)>>}
    [] c = 2      -> {<<Word(TRUE)>>, <<Word(TRUE), Word(TRUE), Number(TRUE), Number(TRUE)>>}
    [] c = 3      -> {<<Number(TRUE)>>}
    [] c \in {4, 7} -> {<<>>, <<Word(TRUE)>>}
    [] c = 5      -> {<<Word(TRUE)>>}
    [] c = 6      -> {<<Word(TRUE)>>, <<Word(TRUE), Number(TRUE), Number(TRUE)>>}
    [] OTHER      -> {<<>>}]

-----------------------------------------------------------------------------
(* The library *)

(* How long the beginning of s is whose characters are in set; it, and the *)
(* rest.                                                                   *)
strspn(s, set) == CHOOSE n \in 0..Len(s) : /\ \A i \in 1..n : s[i] \in set
                                           /\ n < Len(s) => s[n + 1] \notin set
Span(s, set) == SubSeq(s, 1, strspn(s, set))
Rest(s, set) == SubSeq(s, strspn(s, set) + 1, Len(s))

Graphic == Digit \cup {Letter}

(* What scanf finds in s: %s a word, %d a number, after any white space;   *)
(* nothing if a number does not begin with a digit.                        *)
Found(kind, s) == Span(Rest(s, White), IF kind = "word" THEN Graphic ELSE Digit)
Behind(kind, s) == Rest(Rest(s, White), IF kind = "word" THEN Graphic ELSE Digit)

(* Bound: what keeps the reads in step.  A choice is typed with two        *)
(* characters at most, or without a digit; behind the answers of choice 1, *)
(* which are not followed by a clearing, stands nothing else.              *)
ASSUME DisciplineAssumption ==
  /\ \A l \in MenuLines : Len(l) <= 2 \/ Range(l) \cap Digit = {}
  /\ \A l \in WordLines : Range(Behind("word", l)) \subseteq White
  /\ \A l \in NumberLines : Range(Behind("number", l)) \subseteq White

(* Bug: the rest of the line is not thrown away. *)
clear_input_buffer_None(s) == s

(* Everything up to the end of the line, or of the input, is thrown away.  *)
clear_input_buffer(s) == LET end == Rest(s, InLine)
                         IN IF end = <<>> THEN <<>> ELSE Tail(end)

(* fgets into three bytes: up to two characters, up to the end of the line. *)
Piece == SubSeq(input, 1, IF input[1] = LineEnd \/ Len(input) = 1 THEN 1 ELSE 2)

-----------------------------------------------------------------------------
(* The user *)

Init == /\ input = <<>> /\ open = TRUE /\ line = NoLine
        /\ reads = <<>> /\ took = Nothing /\ state = "menu"

(* The program waits: for any line at the menu, in scanf for something     *)
(* that is not white space, which it drops meanwhile.                      *)
Waits == open /\ IF reads = <<>> THEN input = <<>> ELSE Range(input) \subseteq White

Prompted == IF reads = <<>> THEN MenuLines
            ELSE IF Head(reads).clear THEN LooseLines
            ELSE IF Head(reads).kind = "word" THEN WordLines ELSE NumberLines

Type == /\ state = "menu" /\ Waits
        /\ \E l \in Prompted : /\ input' = Rest(input, White) \o Append(l, LineEnd)
                               /\ line' = IF Range(l) \subseteq White THEN line ELSE l
        /\ UNCHANGED <<open, reads, took, state>>

EndInput == /\ state = "menu" /\ Waits
            /\ open' = FALSE
            /\ UNCHANGED <<input, line, reads, took, state>>

-----------------------------------------------------------------------------
(* The program *)

(* Bug: whatever is not empty is a number. *)
IsChoice_Any(inp) == inp # <<>>

IsChoice(inp) == inp # <<>> /\ Range(inp) \subseteq Digit

(* The switch of main: 0 ends the program; a number above 9, or the -1 of  *)
(* an input error ("Exiting."), frees the list and goes on with it.        *)
Choose(c) == /\ reads' \in IF c \in 1..9 THEN Scripts[c] ELSE {<<>>}
             /\ state' = IF c \in 1..9 THEN "menu" ELSE IF c = 0 THEN "ended" ELSE "dangling"

(* One round of the loop: what is not a number is asked for again. *)
get_user_selection ==
  /\ state = "menu" /\ reads = <<>> /\ ~Waits
  /\ IF input = <<>>
     THEN took' = Error /\ Choose(-1) /\ UNCHANGED input
     ELSE LET inp == Span(Piece, InLine)
          IN /\ input' = SubSeq(input, Len(Piece) + 1, Len(input))
             /\ IF IsChoice(inp)
                THEN /\ took' = [kind |-> "choice", value |-> inp, from |-> line]
                     /\ Choose(FoldLeft(LAMBDA n, d : 10 * n + d, 0, inp))
                ELSE UNCHANGED <<reads, took, state>>
  /\ line' = NoLine /\ UNCHANGED open

(* A scanf of the choice, and clear_input_buffer behind it.  If there is   *)
(* nothing for it, the variable stays as it was.                           *)
Scanf ==
  /\ state = "menu" /\ reads # <<>> /\ ~Waits
  /\ LET r     == Head(reads)
         value == Found(r.kind, input)
         left  == Behind(r.kind, input)
     IN /\ input' = IF r.clear THEN clear_input_buffer(left) ELSE left
        /\ took' = IF value = <<>> THEN Nothing ELSE [kind |-> r.kind, value |-> value, from |-> line]
  /\ reads' = Tail(reads) /\ line' = NoLine
  /\ UNCHANGED <<open, state>>

Next == Type \/ EndInput \/ get_user_selection \/ Scanf

Spec == Init /\ [][Next]_vars

-----------------------------------------------------------------------------
(* The properties *)

TypeOK ==
  /\ input \in Seq(InLine \cup {LineEnd}) /\ line \in Lines
  /\ open \in BOOLEAN /\ state \in {"menu", "ended", "dangling"}
  /\ reads \in Seq({Word(TRUE), Word(FALSE), Number(TRUE), Number(FALSE)})
  /\ took.kind \in {"nothing", "error", "choice", "word", "number"}
  /\ took.kind \in {"choice", "number"} => took.value \in Seq(Digit) \ {<<>>}

(* Every answer is what the user typed for its own prompt: no answer is a  *)
(* remainder of the line before, and none is cut, at the menu either, as   *)
(* long as a choice is typed with two characters at most and the answers   *)
(* to choice 1, behind which nothing is thrown away, are one fitting word  *)
(* (source.c:24, flight_functions.c:345-354).                              *)
TakenAsTyped ==
  took.kind \in {"choice", "word", "number"} =>
    /\ took.from # NoLine
    /\ took.value = IF took.kind = "choice" THEN took.from ELSE Found(took.kind, took.from)
=============================================================================
