----------------------------- MODULE EwpServer -----------------------------
(***************************************************************************)
(* Task 5: the EWP server.  It serves one client: it greets it, then reads *)
(* a command, replies and reads the next; after DATA it reads a mail up to *)
(* the end marker CRLF.CRLF and saves it.                                  *)
(*                                                                         *)
(* The server takes every read for one message and never looks at the size *)
(* in the header.  So the bytes of the connection are modelled as cells, a *)
(* cell being what one read delivers or does not: the header of a message, *)
(* its command word, its argument with the zero that ends it, a stretch of *)
(* the text of a mail, the two halves of the end marker, the zero that     *)
(* ends a mail.  Both buffers keep what an earlier, longer read left.      *)
(***************************************************************************)
EXTENDS Integers, Sequences

CONSTANTS BufferCells,   \* the cells that fit into a buffer of 1024 bytes
          Names,         \* the arguments that are valid names of mail files
          Requests,      \* the commands the client sends, of those in Commands
          Texts,         \* the texts of mails: of each cell, the command it begins with
          LockStep,      \* does the client wait for every answer?
          Fragmenting,   \* may a read return less than what has arrived?
          HalfCloses,    \* may the client stop to send and go on to receive?
          MaxMessages    \* bound: the messages of the client

(* The commands the server knows, and all others. *)
Commands == {"HELO", "MAIL FROM", "RCPT TO", "DATA", "QUIT", "other"}

ASSUME EwpAssumption == /\ BufferCells \in Nat /\ BufferCells >= 3
                        /\ Names # {} /\ "invalid" \notin Names
                        /\ Requests \subseteq Commands
                        /\ Texts \subseteq Seq(Commands)
                        /\ {LockStep, Fragmenting, HalfCloses} \subseteq BOOLEAN
                        /\ MaxMessages \in Nat

VARIABLES
  client,     \* the client's side of the connection
  sent,       \* the messages of the client
  wire,       \* the cells that arrived and have not been read
  replies,    \* the codes of the replies that reached the client
  pc,         \* where the server is
  buffer,     \* the buffer of the commands
  email,      \* email_buffer, in the same place on the stack for every mail
  files       \* the mail files

vars == <<client, sent, wire, replies, pc, buffer, email, files>>

-----------------------------------------------------------------------------
(* Cells and messages *)

Cell(tag, val, no) == [tag |-> tag, val |-> val, no |-> no]

Header    == Cell("head", "", 0)
Word(w)   == Cell("word", w, 0)
Arg(a)    == Cell("arg", a, 0)
Text(w, no) == Cell("text", w, no)   \* a stretch of the no-th message, beginning with w
Dot1      == Cell("dot1", "", 0)
Dot2      == Cell("dot2", "", 0)
Zero      == Cell("zero", "", 0)
Junk      == Cell("junk", "", 0)     \* a stack byte no read has written

Absent == <<Junk>>                   \* no such file

Message(kind, arg, text) == [kind |-> kind, arg |-> arg, text |-> text]

TextOf(m, no) == [i \in 1..Len(m.text) |-> Text(m.text[i], no)]

(* The command a server that looks behind its header takes m for. *)
Begins(m) == IF m.kind # "mail" THEN m.kind
             ELSE IF m.text = <<>> THEN "other" ELSE m.text[1]

(* The cells of the message m, the no-th of the client. *)
Cells(m, no) == IF m.kind = "mail" THEN <<Header>> \o TextOf(m, no) \o <<Dot1, Dot2, Zero>>
                                   ELSE <<Header, Word(m.kind), Arg(m.arg)>>

CommandMessages ==
  {m \in {Message(k, a, <<>>) : k \in Requests, a \in Names \cup {"invalid"}} :
     m.kind = "DATA" \/ m.arg = "invalid"}
MailMessages    == {Message("mail", "invalid", t) : t \in Texts}

Last(s) == s[Len(s)]

Init == /\ client = "open" /\ sent = <<>> /\ wire = <<>> /\ replies = <<>>
        /\ pc = "greet"
        /\ buffer = [i \in 1..BufferCells |-> Junk]
        /\ email = [i \in 1..BufferCells |-> Junk]
        /\ files = [a \in Names |-> Absent]

-----------------------------------------------------------------------------
(* The client: ewa_exam25's test client, or any other *)

(* A client that waits sends its next message on the answer to the last    *)
(* one; what follows a 354 is the mail.                                    *)
ClientSend ==
  /\ client = "open" /\ Len(sent) < MaxMessages
  /\ \E m \in CommandMessages \cup MailMessages :
       /\ IF LockStep THEN /\ Len(replies) = Len(sent) + 1
                           /\ Last(replies) # "221"
                           /\ (m.kind = "mail") = (Last(replies) = "354")
                      ELSE m.kind = "mail" => sent # <<>> /\ Last(sent).kind = "DATA"
       /\ sent' = Append(sent, m)
       /\ wire' = wire \o Cells(m, Len(sent) + 1)
  /\ UNCHANGED <<client, replies, pc, buffer, email, files>>

ClientClose ==
  /\ \/ client # "closed" /\ client' = "closed"
     \/ client = "open" /\ HalfCloses /\ client' = "halfclosed"
  /\ UNCHANGED <<sent, wire, replies, pc, buffer, email, files>>

Client == ClientSend \/ ClientClose

-----------------------------------------------------------------------------
(* What read and send do *)

SmallerOf(a, b) == IF a < b THEN a ELSE b

(* The numbers of cells a read may return. *)
ReadSizes == LET most == SmallerOf(BufferCells, Len(wire))
             IN IF Fragmenting THEN 1..most ELSE {most} \ {0}

(* What is in the buffer b after a read of n cells. *)
Overlay(b, n) == [i \in 1..BufferCells |-> IF i <= n THEN wire[i] ELSE b[i]]

(* The same of the buffer of the commands: the end marker and the zero are *)
(* together shorter than a header, so a read of nothing else leaves alone  *)
(* what is behind the header.                                              *)
Received(n) == IF \A i \in 1..n : wire[i] \in {Dot1, Dot2, Zero}
               THEN [buffer EXCEPT ![1] = wire[1]] ELSE Overlay(buffer, n)

Consume(n) == wire' = SubSeq(wire, n + 1, Len(wire))

(* read returns 0 at the end of the stream, and -1 if the connection was   *)
(* reset; a reset discards what has arrived.                               *)
ReadEnds == /\ client # "open"
            /\ client = "closed" \/ wire = <<>>
            /\ wire' = <<>>

(* send: to a client that closed, the reply is lost or SIGPIPE ends the    *)
(* process; its result is not looked at.                                   *)
Reply(code, next) ==
  \/ /\ replies' = IF client = "closed" THEN replies ELSE Append(replies, code)
     /\ pc' = next
  \/ /\ client = "closed" /\ pc' = "killed"
     /\ UNCHANGED replies

-----------------------------------------------------------------------------
(* The server *)

Greet == /\ pc = "greet"
         /\ Reply("220", "read")
         /\ UNCHANGED <<client, sent, wire, buffer, email, files>>

(* Bug: only a negative result of read ends the loop. *)
ReadCommand_NoEnd == /\ pc = "read"
                     /\ \E n \in ReadSizes : /\ buffer' = Received(n)
                                             /\ Consume(n)
                                             /\ pc' = "parse"
                     /\ UNCHANGED <<client, sent, replies, email, files>>

ReadCommand == /\ pc = "read"
               /\ \/ /\ ReadEnds
                     /\ pc' = "ended" /\ UNCHANGED buffer
                  \/ \E n \in ReadSizes : /\ buffer' = Received(n)
                                          /\ Consume(n)
                                          /\ pc' = "parse"
               /\ UNCHANGED <<client, sent, replies, email, files>>

(* ewp_parse_message: the command is what stands behind the header, however *)
(* many bytes the read returned, be it a command or the text of a mail.    *)
Parsed == IF buffer[2].tag \in {"word", "text"} THEN buffer[2].val ELSE "other"

Hello == /\ pc = "parse" /\ Parsed \in {"HELO", "MAIL FROM", "RCPT TO"}
         /\ Reply("250", "read")
         /\ UNCHANGED <<client, sent, wire, buffer, email, files>>

Filename == buffer[3].val
ValidFilename == buffer[3].tag = "arg" /\ Filename \in Names

(* Bug: the name is not validated. *)
DataCommand_AnyName == /\ pc = "parse" /\ Parsed = "DATA"
                       /\ Reply("354", "open")
                       /\ UNCHANGED <<client, sent, wire, buffer, email, files>>

(* Bug: the mail is read after a 501 as well. *)
DataCommand_ReadsOn == /\ pc = "parse" /\ Parsed = "DATA"
                       /\ IF ValidFilename THEN Reply("354", "open") ELSE Reply("501", "accept")
                       /\ UNCHANGED <<client, sent, wire, buffer, email, files>>

DataCommand == /\ pc = "parse" /\ Parsed = "DATA"
               /\ IF ValidFilename THEN Reply("354", "open") ELSE Reply("501", "read")
               /\ UNCHANGED <<client, sent, wire, buffer, email, files>>

(* Bug: the file is opened with "ab". *)
OpenFile_Appends ==
  /\ pc = "open"
  /\ \/ /\ pc' = "data"
        /\ files' = [files EXCEPT ![Filename] = IF @ = Absent THEN <<>> ELSE @]
     \/ pc' = "read" /\ UNCHANGED files
  /\ UNCHANGED <<client, sent, wire, replies, buffer, email>>

(* fopen with "wb" empties the file.  If it fails the server goes back to  *)
(* its loop, although it has asked for the mail.                           *)
OpenFile == /\ pc = "open"
            /\ \/ pc' = "data" /\ files' = [files EXCEPT ![Filename] = <<>>]
               \/ pc' = "read" /\ UNCHANGED files
            /\ UNCHANGED <<client, sent, wire, replies, buffer, email>>

(* strstr: where the end marker is found in b, before any zero.  What is   *)
(* behind the array is taken to hold a zero and no end marker.             *)
MarkerAt(b) == {i \in 1..(BufferCells - 1) :
                  /\ b[i] = Dot1 /\ b[i + 1] = Dot2
                  /\ \A j \in 1..(i - 1) : b[j].tag \notin {"zero", "arg"}}

(* Up to the marker is written what stands in the buffer, without one as   *)
(* many bytes as were read.  What the read returned behind the marker is   *)
(* dropped.                                                                *)
ReadMail ==
  /\ pc = "data"
  /\ \/ ReadEnds /\ pc' = "accept" /\ UNCHANGED <<email, files>>
     \/ \E n \in ReadSizes :
          /\ Consume(n)
          /\ email' = Overlay(email, n)
          /\ \/ \E i \in MarkerAt(email') :
                  /\ \A j \in MarkerAt(email') : i <= j
                  /\ files' = [files EXCEPT ![Filename] = @ \o SubSeq(email', 1, i - 1)]
                  /\ pc' = "accept"
             \/ /\ MarkerAt(email') = {}
                /\ files' = [files EXCEPT ![Filename] = @ \o SubSeq(email', 1, n)]
                /\ UNCHANGED pc
  /\ UNCHANGED <<client, sent, replies, buffer>>

(* Bug: no reply to the mail. *)
Accept_Silent == /\ pc = "accept"
                 /\ pc' = "read"
                 /\ UNCHANGED <<client, sent, wire, replies, buffer, email, files>>

(* fclose and the reply, also when the loop ended on a closed connection.  *)
Accept == /\ pc = "accept"
          /\ Reply("accepted", "read")
          /\ UNCHANGED <<client, sent, wire, buffer, email, files>>

(* Bug: after the 221 the loop goes on. *)
Quit_GoesOn == /\ pc = "parse" /\ Parsed = "QUIT"
               /\ Reply("221", "read")
               /\ UNCHANGED <<client, sent, wire, buffer, email, files>>

Quit == /\ pc = "parse" /\ Parsed = "QUIT"
        /\ Reply("221", "ended")
        /\ UNCHANGED <<client, sent, wire, buffer, email, files>>

Unknown == /\ pc = "parse" /\ Parsed = "other"
           /\ pc' = "ended"
           /\ UNCHANGED <<client, sent, wire, replies, buffer, email, files>>

Server == Greet \/ ReadCommand \/ Hello \/ DataCommand \/ OpenFile \/ ReadMail \/ Accept
          \/ Quit \/ Unknown

Next == Client \/ Server

Spec == Init /\ [][Next]_vars

(* The server runs whenever a read can return; nothing is assumed of the   *)
(* client.                                                                 *)
FairSpec == Spec /\ WF_vars(Server)

-----------------------------------------------------------------------------
(* The properties *)

Over == pc \in {"ended", "killed"}

(* Types; the command the server takes is one it knows, and a mail is only *)
(* ever received for a valid file name.                                    *)
TypeOK ==
  /\ client \in {"open", "halfclosed", "closed"}
  /\ \A i \in 1..Len(sent) : sent[i] \in CommandMessages \cup MailMessages
  /\ \A i \in 1..Len(replies) :
       replies[i] \in {"220", "250", "354", "501", "accepted", "221"}
  /\ pc \in {"greet", "read", "parse", "open", "data", "accept", "ended", "killed"}
  /\ DOMAIN buffer = 1..BufferCells /\ DOMAIN email = 1..BufferCells
  /\ DOMAIN files = Names
  /\ pc \in {"open", "data", "accept"} => Parsed = "DATA" /\ ValidFilename

(* "Message accepted for delivery" is said only of a mail that was asked   *)
(* for: the reply before it is the 354, never a 501, whatever the client   *)
(* sends and however it arrives.                                           *)
AcceptedAfterReady == \A i \in 1..Len(replies) :
                        replies[i] = "accepted" => i > 1 /\ replies[i - 1] = "354"

(* The 221 is the last the client hears. *)
NothingAfterBye == \A i \in 1..Len(replies) : replies[i] = "221" => i = Len(replies) /\ Over

(* The file named in the DATA command of the last mail. *)
MailFile == sent[Len(sent) - 1].arg

MailAccepted == /\ sent # <<>> /\ Last(sent).kind = "mail"
                /\ Len(replies) > Len(sent) /\ replies[Len(sent) + 1] = "accepted"

(* What was accepted, with "Message accepted for delivery" and not with    *)
(* the 250 of another command, is on disk, whole, under the name the       *)
(* client chose; the header of the mail message is saved with the text.    *)
AcceptedSaved == MailAccepted
                   => files[MailFile] = <<Header>> \o TextOf(Last(sent), Len(sent))

Request(m) == [mail |-> m.kind = "mail", word |-> Begins(m)]

(* To a client that waits, the server is the session of EwpSession: one    *)
(* fitting answer to each request, also to a mail whose file could not be  *)
(* opened (main.c:261-265), which is taken for the command it begins with. *)
Session == INSTANCE EwpSession WITH
             asked <- [i \in 1..Len(sent) |-> Request(sent[i])],
             answers <- replies,
             present <- (client # "closed"),
             serving <- ~Over
SessionSpec == Session!Spec

(* A client that waits for an answer gets it, or the session is over.      *)
Answered == (Len(replies) <= Len(sent)) ~> (Len(replies) > Len(sent) \/ Over)

(* When the client has gone, the server shuts down, also in the middle of  *)
(* a mail.                                                                 *)
ServerEnds == (client # "open") ~> Over

-----------------------------------------------------------------------------
(* What a comment of the source says, and the code does not do *)

(* main.c:267 "Read email data from client until end marker": a mail that  *)
(* was sent up to its end marker is received, and the server goes on.      *)
EndMarkerSeen == (pc = "data" /\ sent # <<>> /\ Last(sent).kind = "mail") ~> pc # "data"
=============================================================================
