------------------------------ MODULE BytePipe ------------------------------
(***************************************************************************)
(* What the buffer shared by the two threads of task 4 promises: a bounded *)
(* pipe.  Bytes leave the file in order, pass through the pipe and are     *)
(* counted, each of them once, in the order of the file.  A byte is named  *)
(* by its position in the file, counted from 1.                            *)
(***************************************************************************)
EXTENDS Integers, Sequences

CONSTANT Capacity      \* the number of bytes the pipe can hold

VARIABLES pos,         \* position of the stream: bytes 1..pos are behind it
          pipe,        \* the bytes in the pipe
          counted      \* the bytes counted so far

vars == <<pos, pipe, counted>>

(* The bytes of the file after position a, up to and including b. *)
Bytes(a, b) == [i \in 1..(b - a) |-> a + i]

Init == pos = 0 /\ pipe = <<>> /\ counted = <<>>

(* Before any byte entered the pipe the stream may be moved. *)
Seek == /\ pipe = <<>> /\ counted = <<>>
        /\ pos' \in Nat
        /\ UNCHANGED <<pipe, counted>>

(* The next n bytes of the file enter the pipe. *)
Take(n) == /\ Len(pipe) + n <= Capacity
           /\ pipe' = pipe \o Bytes(pos, pos + n)
           /\ pos' = pos + n
           /\ UNCHANGED counted

(* Everything in the pipe is counted, and the pipe is empty again. *)
Drain == /\ pipe # <<>>
         /\ counted' = counted \o pipe
         /\ pipe' = <<>>
         /\ UNCHANGED pos

Next == Seek \/ (\E n \in 1..Capacity : Take(n)) \/ Drain

Spec == Init /\ [][Next]_vars
=============================================================================
