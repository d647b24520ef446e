----------------------------- MODULE EwpSession -----------------------------
(***************************************************************************)
(* What the EWP server of task 5 promises to a client that waits for every *)
(* answer (the list at communication.c:28-33): a greeting, then one answer *)
(* to every request, in order and with a code that fits the request.       *)
(***************************************************************************)
EXTENDS Integers, Sequences

VARIABLES asked,    \* the requests of the client
          answers,  \* the codes the client received
          present,  \* has the client not closed the connection?
          serving   \* has the server not closed it?

vars == <<asked, answers, present, serving>>

Words == {"HELO", "MAIL FROM", "RCPT TO", "DATA", "QUIT", "other"}

(* A command, or a mail, whose text may begin with the word of a command.  *)
Questions == [mail : BOOLEAN, word : Words]

(* The codes that may answer a command. *)
CodesOf(word) == CASE word \in {"HELO", "MAIL FROM", "RCPT TO"} -> {"250"}
                   [] word = "DATA" -> {"354", "501"}
                   [] word = "QUIT" -> {"221"}
                   [] OTHER -> {}

(* The codes that may answer a request.  "accepted" is the 250 of "Message *)
(* accepted for delivery".  A mail that the server asked for and then      *)
(* could not store is taken for a command, but never for the DATA of a     *)
(* valid name.                                                             *)
Codes(r) == IF r.mail THEN {"accepted"} \cup (CodesOf(r.word) \ {"354"}) ELSE CodesOf(r.word)

Init == asked = <<>> /\ answers = <<>> /\ present = TRUE /\ serving = TRUE

Greet == /\ answers = <<>> /\ asked = <<>> /\ serving
         /\ answers' = <<"220">>
         /\ UNCHANGED <<asked, present, serving>>

(* The client asks when it has the answer to everything it asked before.   *)
Ask == /\ present
       /\ Len(answers) = Len(asked) + 1
       /\ \E r \in Questions : asked' = Append(asked, r)
       /\ UNCHANGED <<answers, present, serving>>

Leave == present /\ present' = FALSE /\ UNCHANGED <<asked, answers, serving>>

Pending == asked # <<>> /\ Len(answers) = Len(asked)

Answer == /\ present /\ serving /\ Pending
          /\ \E code \in Codes(asked[Len(asked)]) :
               answers' = Append(answers, code) /\ serving' = (code # "221")
          /\ UNCHANGED <<asked, present>>

(* The server may close without an answer only on a request it does not    *)
(* know, a mail that begins with no command among them, or when the client *)
(* has left.                                                               *)
Close == /\ serving
         /\ ~present \/ (Pending /\ asked[Len(asked)].word = "other")
         /\ serving' = FALSE
         /\ UNCHANGED <<asked, answers, present>>

Next == Greet \/ Ask \/ Leave \/ Answer \/ Close

Spec == Init /\ [][Next]_vars
=============================================================================
