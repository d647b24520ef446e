----------------------------- MODULE EwpProofs -----------------------------
(***************************************************************************)
(* Proofs about EwpServer for any buffer, any names, any commands and any  *)
(* number of messages.                                                     *)
(*                                                                         *)
(* The first part holds for every client and every network.  Nothing in    *)
(* the bytes matters for it, only the order of the replies; so its         *)
(* invariant relates the last reply to where the server is.  The second    *)
(* part, on a client that waits for its answers, follows the bytes of a    *)
(* message through the buffers.                                            *)
(***************************************************************************)
EXTENDS EwpServer, SequenceTheorems, TLAPS

Codes == {"220", "250", "354", "501", "accepted", "221"}

(* The types, as far as the proofs need them. *)
Types ==
  /\ client \in {"open", "halfclosed", "closed"}
  /\ sent \in Seq(CommandMessages \cup MailMessages)
  /\ replies \in Seq(Codes)
  /\ pc \in {"greet", "read", "parse", "open", "data", "accept", "ended", "killed"}
  /\ DOMAIN buffer = 1..BufferCells /\ DOMAIN email = 1..BufferCells
  /\ DOMAIN files = Names

(* A mail is being received for a valid name. *)
NameTaken == pc \in {"open", "data", "accept"} => Parsed = "DATA" /\ ValidFilename

(* While a mail is being received from a client that is there, the last    *)
(* reply is the 354.                                                       *)
Asked == (client # "closed" /\ pc \in {"open", "data", "accept"})
           => replies # <<>> /\ Last(replies) = "354"

IInv == Types /\ NameTaken /\ Asked /\ AcceptedAfterReady /\ NothingAfterBye

-----------------------------------------------------------------------------
(* A reply leaves the earlier ones alone and is the last one, if the       *)
(* client can hear it; otherwise nothing is heard.                         *)
LEMMA ReplyAppends ==
  ASSUME NEW code \in Codes, NEW next, replies \in Seq(Codes), Reply(code, next)
  PROVE  /\ replies' \in Seq(Codes)
         /\ \/ client = "closed" /\ replies' = replies
            \/ /\ pc' = next
               /\ Len(replies') = Len(replies) + 1
               /\ replies'[Len(replies')] = code
               /\ \A i \in 1..Len(replies) : replies'[i] = replies[i]
<1>1. replies' = replies \/ replies' = Append(replies, code)
  BY DEF Reply
<1>2. CASE client = "closed"
  <2>1. replies' = replies
    BY <1>2 DEF Reply
  <2> QED BY <1>2, <2>1
<1>3. CASE client # "closed"
  <2>1. replies' = Append(replies, code) /\ pc' = next
    BY <1>3 DEF Reply
  <2>2. /\ Append(replies, code) \in Seq(Codes)
        /\ Len(Append(replies, code)) = Len(replies) + 1
        /\ Append(replies, code)[Len(replies) + 1] = code
        /\ \A i \in 1..Len(replies) : Append(replies, code)[i] = replies[i]
    OBVIOUS
  <2> QED BY <2>1, <2>2
<1> QED BY <1>2, <1>3

(* After a reply that is neither the 250 to a mail nor the 221, both       *)
(* properties of the replies hold as before.                               *)
LEMMA PlainReply ==
  ASSUME NEW code \in Codes \ {"accepted", "221"}, NEW next,
         Types, AcceptedAfterReady, NothingAfterBye, ~Over, Reply(code, next)
  PROVE  AcceptedAfterReady' /\ NothingAfterBye'
<1>1. replies \in Seq(Codes) /\ Len(replies) \in Nat
  BY DEF Types
<1>2. \A i \in 1..Len(replies) : replies[i] # "221"
  BY DEF NothingAfterBye
<1>3. CASE replies' = replies
  BY <1>1, <1>2, <1>3 DEF AcceptedAfterReady, NothingAfterBye
<1>4. CASE replies' # replies
  <2>1. /\ Len(replies') = Len(replies) + 1
        /\ replies'[Len(replies')] = code
        /\ \A i \in 1..Len(replies) : replies'[i] = replies[i]
    BY <1>1, <1>4, ReplyAppends
  <2>2. \A i \in 1..Len(replies') : replies'[i] # "221"
    BY <1>1, <1>2, <2>1
  <2>3. AcceptedAfterReady'
    <3> SUFFICES ASSUME NEW i \in 1..Len(replies'), replies'[i] = "accepted"
                 PROVE  i > 1 /\ replies'[i - 1] = "354"
      BY DEF AcceptedAfterReady
    <3>1. i \in 1..Len(replies) /\ replies[i] = "accepted"
      BY <1>1, <2>1
    <3>2. i > 1 /\ replies[i - 1] = "354"
      BY <3>1 DEF AcceptedAfterReady
    <3>3. i - 1 \in 1..Len(replies)
      BY <1>1, <3>1, <3>2
    <3> QED BY <2>1, <3>2, <3>3
  <2> QED BY <2>2, <2>3 DEF NothingAfterBye
<1> QED BY <1>3, <1>4

-----------------------------------------------------------------------------
LEMMA InitInv == Init => IInv
<1> SUFFICES ASSUME Init PROVE IInv
  OBVIOUS
<1>1. Types
  BY DEF Init, Types
<1>2. Len(replies) = 0
  BY DEF Init
<1> QED BY <1>1, <1>2 DEF Init, IInv, NameTaken, Asked, AcceptedAfterReady, NothingAfterBye

(* A step that leaves the replies alone and does not take the server back  *)
(* from its end keeps both properties of the replies.                      *)
LEMMA SilentStep ==
  ASSUME AcceptedAfterReady, NothingAfterBye, UNCHANGED replies, Over => Over'
  PROVE  AcceptedAfterReady' /\ NothingAfterBye'
BY DEF AcceptedAfterReady, NothingAfterBye

(* The client sends or closes: the server and its replies stay as they are.*)
LEMMA ClientStep == IInv /\ Client => IInv'
<1> SUFFICES ASSUME IInv, Client PROVE IInv'
  OBVIOUS
<1> USE DEF IInv
<1>1. UNCHANGED <<replies, pc, buffer, email, files>>
  BY DEF Client, ClientSend, ClientClose
<1>2. AcceptedAfterReady' /\ NothingAfterBye'
  BY <1>1, SilentStep DEF Over
<1>3. NameTaken'
  BY <1>1 DEF NameTaken, Parsed, ValidFilename, Filename
<1>4. CASE ClientSend
  <2>1. sent' \in Seq(CommandMessages \cup MailMessages) /\ UNCHANGED client
    <3>1. PICK m \in CommandMessages \cup MailMessages : sent' = Append(sent, m)
      BY <1>4 DEF ClientSend
    <3> HIDE DEF IInv
    <3>2. sent \in Seq(CommandMessages \cup MailMessages)
      BY DEF IInv, Types
    <3>3. \A S : \A s \in Seq(S), e \in S : Append(s, e) \in Seq(S)
      OBVIOUS
    <3>4. UNCHANGED client
      BY <1>4 DEF ClientSend
    <3> QED BY <3>1, <3>2, <3>3, <3>4, Zenon
  <2> QED BY <1>1, <1>2, <1>3, <2>1 DEF Types, Asked
<1>5. CASE ClientClose
  <2>1. /\ client' \in {"open", "halfclosed", "closed"} /\ UNCHANGED sent
        /\ client' # "closed" => client # "closed"
    BY <1>5 DEF ClientClose
  <2> QED BY <1>1, <1>2, <1>3, <2>1 DEF Types, Asked
<1> QED BY <1>4, <1>5 DEF Client

(* The server answers with a code other than the 250 to a mail and the     *)
(* 221, and does not go on to a mail unless the code is the 354.           *)
LEMMA AnswerStep ==
  ASSUME NEW code \in Codes \ {"accepted", "221"},
         NEW next \in {"read", "open"}, next = "open" => code = "354",
         next = "open" => Parsed = "DATA" /\ ValidFilename,
         IInv, ~Over, Reply(code, next),
         UNCHANGED <<client, sent, wire, buffer, email, files>>
  PROVE  IInv'
<1> USE DEF IInv
<1>1. AcceptedAfterReady' /\ NothingAfterBye'
  BY PlainReply
<1>2. replies' \in Seq(Codes) /\ pc' \in {next, "killed"}
      /\ (pc' # next => client = "closed")
  BY ReplyAppends DEF Types, Reply
<1>3. NameTaken'
  BY <1>2 DEF NameTaken, Parsed, ValidFilename, Filename
<1>4. Types'
  BY <1>2 DEF Types
<1>5. Asked'
  <2> SUFFICES ASSUME client # "closed", pc' \in {"open", "data", "accept"}
               PROVE  replies' # <<>> /\ Last(replies)' = "354"
    BY DEF Asked
  <2>1. next = "open" /\ code = "354"
    BY <1>2
  <2>2. /\ replies \in Seq(Codes) /\ Len(replies) \in Nat
        /\ Len(replies') = Len(replies) + 1
        /\ replies'[Len(replies')] = "354"
    BY <2>1, ReplyAppends DEF Types
  <2> QED BY <1>2, <2>2 DEF Last
<1> QED BY <1>1, <1>3, <1>4, <1>5

(* The server acts: one step for each of its actions.                      *)
LEMMA ServerStep == IInv /\ Server => IInv'
<1> SUFFICES ASSUME IInv, Server PROVE IInv'
  OBVIOUS
<1>1. CASE Greet
  <2>1. pc = "greet" /\ Reply("220", "read")
        /\ UNCHANGED <<client, sent, wire, buffer, email, files>>
    BY <1>1 DEF Greet
  <2> QED BY <2>1, AnswerStep DEF Codes, Over
<1>2. CASE ReadCommand
  <2>1. /\ pc = "read" /\ pc' \in {"ended", "parse"}
        /\ UNCHANGED <<client, sent, replies, email, files>>
    BY <1>2 DEF ReadCommand
  <2>2. DOMAIN buffer' = 1..BufferCells
    BY <1>2 DEF ReadCommand, Received, Overlay, IInv, Types
  <2>3. AcceptedAfterReady' /\ NothingAfterBye'
    BY <2>1, SilentStep DEF IInv, Over
  <2> QED BY <2>1, <2>2, <2>3 DEF IInv, Types, NameTaken, Asked
<1>3. CASE Hello
  <2>1. pc = "parse" /\ Reply("250", "read")
        /\ UNCHANGED <<client, sent, wire, buffer, email, files>>
    BY <1>3 DEF Hello
  <2> QED BY <2>1, AnswerStep DEF Codes, Over
<1>4. CASE DataCommand
  <2>1. /\ pc = "parse" /\ Parsed = "DATA"
        /\ IF ValidFilename THEN Reply("354", "open") ELSE Reply("501", "read")
        /\ UNCHANGED <<client, sent, wire, buffer, email, files>>
    BY <1>4 DEF DataCommand
  <2>2. CASE ValidFilename
    BY <2>1, <2>2, AnswerStep DEF Codes, Over
  <2>3. CASE ~ValidFilename
    BY <2>1, <2>3, AnswerStep DEF Codes, Over
  <2> QED BY <2>2, <2>3
<1>5. CASE OpenFile
  <2>1. /\ pc = "open" /\ pc' \in {"data", "read"}
        /\ DOMAIN files' = DOMAIN files
        /\ UNCHANGED <<client, sent, wire, replies, buffer, email>>
    BY <1>5 DEF OpenFile
  <2>2. AcceptedAfterReady' /\ NothingAfterBye'
    BY <2>1, SilentStep DEF IInv, Over
  <2>3. NameTaken'
    BY <2>1 DEF IInv, NameTaken, Parsed, ValidFilename, Filename
  <2> QED BY <2>1, <2>2, <2>3 DEF IInv, Types, Asked, Last
<1>6. CASE ReadMail
  <2>1. /\ pc = "data" /\ pc' \in {"data", "accept"}
        /\ DOMAIN files' = DOMAIN files
        /\ UNCHANGED <<client, sent, replies, buffer>>
    BY <1>6 DEF ReadMail
  <2>2. DOMAIN email' = 1..BufferCells
    BY <1>6 DEF ReadMail, Overlay, IInv, Types
  <2>3. AcceptedAfterReady' /\ NothingAfterBye'
    BY <2>1, SilentStep DEF IInv, Over
  <2>4. NameTaken'
    BY <2>1 DEF IInv, NameTaken, Parsed, ValidFilename, Filename
  <2> QED BY <2>1, <2>2, <2>3, <2>4 DEF IInv, Types, Asked, Last
<1>7. CASE Accept
  <2>1. /\ pc = "accept" /\ Reply("accepted", "read")
        /\ UNCHANGED <<client, sent, wire, buffer, email, files>>
    BY <1>7 DEF Accept
  <2>2. /\ replies \in Seq(Codes) /\ Len(replies) \in Nat
        /\ replies' \in Seq(Codes) /\ pc' \in {"read", "killed"}
    <3>1. "accepted" \in Codes
      BY DEF Codes
    <3>2. replies \in Seq(Codes) /\ Len(replies) \in Nat
      BY DEF IInv, Types
    <3>3. pc' \in {"read", "killed"}
      BY <2>1 DEF Reply
    <3> QED BY <2>1, <3>1, <3>2, <3>3, ReplyAppends
  <2>3. Types' /\ NameTaken' /\ Asked'
    BY <2>1, <2>2 DEF IInv, Types, NameTaken, Asked
  <2>4. CASE client = "closed"
    <3>1. UNCHANGED replies
      BY <2>1, <2>4 DEF Reply
    <3>2. AcceptedAfterReady' /\ NothingAfterBye'
      BY <2>1, <3>1, SilentStep DEF IInv, Over
    <3> QED BY <2>3, <3>2 DEF IInv
  <2>5. CASE client # "closed"
    <3>1. /\ Len(replies') = Len(replies) + 1
          /\ replies'[Len(replies')] = "accepted"
          /\ \A i \in 1..Len(replies) : replies'[i] = replies[i]
      BY <2>1, <2>2, <2>5, ReplyAppends DEF Codes
    <3>2. Len(replies) > 0 /\ replies[Len(replies)] = "354"
      BY <2>1, <2>2, <2>5 DEF IInv, Asked, Last
    <3>3. AcceptedAfterReady'
      <4> SUFFICES ASSUME NEW i \in 1..Len(replies'), replies'[i] = "accepted"
                   PROVE  i > 1 /\ replies'[i - 1] = "354"
        BY DEF AcceptedAfterReady
      <4>1. CASE i = Len(replies')
        BY <2>2, <3>1, <3>2, <4>1
      <4>2. CASE i # Len(replies')
        <5>1. i \in 1..Len(replies) /\ replies[i] = "accepted"
          BY <2>2, <3>1, <4>2
        <5>2. i > 1 /\ replies[i - 1] = "354"
          BY <5>1 DEF IInv, AcceptedAfterReady
        <5>3. i - 1 \in 1..Len(replies)
          BY <2>2, <5>1, <5>2
        <5> QED BY <3>1, <5>2, <5>3
      <4> QED BY <4>1, <4>2
    <3>4. NothingAfterBye'
      <4>1. \A i \in 1..Len(replies) : replies[i] # "221"
        BY <2>1 DEF IInv, NothingAfterBye, Over
      <4>2. \A i \in 1..Len(replies') : replies'[i] # "221"
        BY <2>2, <3>1, <4>1
      <4> QED BY <4>2 DEF NothingAfterBye
    <3> QED BY <2>3, <3>3, <3>4 DEF IInv
  <2> QED BY <2>4, <2>5
<1>8. CASE Quit
  <2>1. /\ pc = "parse" /\ Reply("221", "ended")
        /\ UNCHANGED <<client, sent, wire, buffer, email, files>>
    BY <1>8 DEF Quit
  <2>2. /\ replies \in Seq(Codes) /\ Len(replies) \in Nat
        /\ replies' \in Seq(Codes) /\ pc' \in {"ended", "killed"}
    <3>1. "221" \in Codes
      BY DEF Codes
    <3>2. replies \in Seq(Codes) /\ Len(replies) \in Nat
      BY DEF IInv, Types
    <3>3. pc' \in {"ended", "killed"}
      BY <2>1 DEF Reply
    <3> QED BY <2>1, <3>1, <3>2, <3>3, ReplyAppends
  <2>3. Types' /\ NameTaken' /\ Asked' /\ Over'
    BY <2>1, <2>2 DEF IInv, Types, NameTaken, Asked, Over
  <2>4. CASE UNCHANGED replies
    BY <2>3, <2>4, SilentStep DEF IInv
  <2>5. CASE replies' # replies
    <3>1. /\ Len(replies') = Len(replies) + 1
          /\ replies'[Len(replies')] = "221"
          /\ \A i \in 1..Len(replies) : replies'[i] = replies[i]
      BY <2>1, <2>2, <2>5, ReplyAppends DEF Codes
    <3>2. \A i \in 1..Len(replies) : replies[i] # "221"
      BY <2>1 DEF IInv, NothingAfterBye, Over
    <3>3. NothingAfterBye'
      <4>1. \A i \in 1..Len(replies') : replies'[i] = "221" => i = Len(replies')
        BY <2>2, <3>1, <3>2
      <4> QED BY <2>3, <4>1 DEF NothingAfterBye
    <3>4. AcceptedAfterReady'
      <4> SUFFICES ASSUME NEW i \in 1..Len(replies'), replies'[i] = "accepted"
                   PROVE  i > 1 /\ replies'[i - 1] = "354"
        BY DEF AcceptedAfterReady
      <4>1. i \in 1..Len(replies) /\ replies[i] = "accepted"
        BY <2>2, <3>1
      <4>2. i > 1 /\ replies[i - 1] = "354"
        BY <4>1 DEF IInv, AcceptedAfterReady
      <4>3. i - 1 \in 1..Len(replies)
        BY <2>2, <4>1, <4>2
      <4> QED BY <3>1, <4>2, <4>3
    <3> QED BY <2>3, <3>3, <3>4 DEF IInv
  <2> QED BY <2>4, <2>5
<1>9. CASE Unknown
  <2>1. /\ pc = "parse" /\ pc' = "ended"
        /\ UNCHANGED <<client, sent, wire, replies, buffer, email, files>>
    BY <1>9 DEF Unknown
  <2>2. AcceptedAfterReady' /\ NothingAfterBye'
    BY <2>1, SilentStep DEF IInv, Over
  <2> QED BY <2>1, <2>2 DEF IInv, Types, NameTaken, Asked
<1> QED
  BY <1>1, <1>2, <1>3, <1>4, <1>5, <1>6, <1>7, <1>8, <1>9 DEF Server

(* A step that changes nothing. *)
LEMMA StutterStep == IInv /\ UNCHANGED vars => IInv'
BY DEF IInv, vars, Types, NameTaken, Parsed, ValidFilename, Filename, Asked, Last,
       AcceptedAfterReady, NothingAfterBye, Over

-----------------------------------------------------------------------------
(* The invariant of the server, in every state of every session.           *)
THEOREM EwpInductive == Spec => []IInv
<1>1. IInv /\ [Next]_vars => IInv'
  BY ClientStep, ServerStep, StutterStep DEF Next
<1> QED BY InitInv, <1>1, PTL DEF Spec

(* The types hold, and a mail is received only under a valid name.         *)
THEOREM EwpTypes == Spec => []TypeOK
<1>1. IInv => TypeOK
  <2> SUFFICES ASSUME IInv PROVE TypeOK
    OBVIOUS
  <2>1. \A i \in 1..Len(sent) : sent[i] \in CommandMessages \cup MailMessages
    <3> DEFINE M == CommandMessages \cup MailMessages
    <3>1. sent \in Seq(M)
      BY DEF IInv, Types
    <3> HIDE DEF M
    <3>2. \A i \in 1..Len(sent) : sent[i] \in M
      BY <3>1
    <3> QED BY <3>2 DEF M
  <2>2. \A i \in 1..Len(replies) : replies[i] \in Codes
    BY DEF IInv, Types
  <2> QED BY <2>1, <2>2 DEF IInv, Types, NameTaken, TypeOK, Codes
<1> QED BY EwpInductive, <1>1, PTL

(* "Message accepted for delivery" follows a 354 and nothing else, for any *)
(* client and any splitting of its messages.                               *)
THEOREM AcceptedOnlyWhenAsked == Spec => []AcceptedAfterReady
<1>1. IInv => AcceptedAfterReady
  BY DEF IInv
<1> QED BY EwpInductive, <1>1, PTL

(* Nothing follows the 221, and after it the server serves nothing more.   *)
THEOREM ByeIsLast == Spec => []NothingAfterBye
<1>1. IInv => NothingAfterBye
  BY DEF IInv
<1> QED BY EwpInductive, <1>1, PTL
-----------------------------------------------------------------------------
(***************************************************************************)
(* A client that waits for every answer, on a connection that delivers a   *)
(* message whole: what was accepted is saved, and the server is the        *)
(* session of EwpSession.                                                  *)
(***************************************************************************)

(* No read ends between the text of a mail and the zero behind its end     *)
(* marker, if every read but the last fills the buffer; and a mail that    *)
(* begins like a command comes in one read.                                *)
MarkerWhole == \A t \in Texts : /\ (Len(t) + 2) % BufferCells # 0
                                /\ (Len(t) + 3) % BufferCells # 0
                                /\ t # <<>> /\ t[1] # "other" => Len(t) + 4 <= BufferCells

Orderly == LockStep /\ ~Fragmenting /\ MarkerWhole

(* What the client said last: a command or a mail, and its cells. *)
CommandLast == sent # <<>> /\ Last(sent).kind # "mail"
MailLast    == sent # <<>> /\ Last(sent).kind = "mail"
LastCells   == Cells(Last(sent), Len(sent))

Replied == Len(replies) = Len(sent) + 1
Pending == Len(replies) = Len(sent)

(* The name in the DATA command that is being served. *)
MailName == IF MailLast THEN MailFile ELSE Last(sent).arg

DataReplied == Replied /\ CommandLast /\ Last(sent).kind = "DATA" /\ Last(replies) = "354" /\ wire = <<>>
(* A mail was asked for, and nothing of it has been read. *)
MailAsked == DataReplied \/ (Pending /\ MailLast /\ wire = LastCells)

(* Where the server and the client are, as long as the client is there.    *)
Greeting   == pc = "greet" /\ sent = <<>> /\ replies = <<>> /\ wire = <<>>
Idle       == pc = "read" /\ Replied /\ wire = <<>> /\ Last(replies) \notin {"354", "221"}
Arrived    == pc = "read" /\ Pending /\ CommandLast /\ wire = LastCells
Understood == /\ pc = "parse" /\ Pending /\ CommandLast /\ wire = <<>>
              /\ buffer[2] = Word(Last(sent).kind) /\ buffer[3] = Arg(Last(sent).arg)
Opening    == pc = "open" /\ MailAsked /\ Filename = MailName
NotOpened  == pc = "read" /\ MailAsked
Misread    == /\ pc = "parse" /\ Pending /\ MailLast /\ Parsed = Begins(Last(sent))
              /\ Parsed # "other" => wire = <<>> /\ ~ValidFilename
Waiting    == pc = "data" /\ DataReplied /\ Filename = MailName /\ files[MailName] = <<>>
(* r cells of the mail have been read and saved, so many whole buffers.    *)
ReadUpTo(r) == /\ r % BufferCells = 0
               /\ wire = SubSeq(LastCells, r + 1, Len(LastCells))
               /\ files[MailName] = SubSeq(LastCells, 1, r)
Receiving  == /\ pc = "data" /\ Pending /\ MailLast /\ Filename = MailName
              /\ \E r \in 0..(Len(Last(sent).text) + 1) : ReadUpTo(r)
Storing    == /\ pc = "accept" /\ Pending /\ MailLast /\ wire = <<>>
              /\ files[MailName] = <<Header>> \o TextOf(Last(sent), Len(sent))
(* The client stopped sending before the mail. *)
Unsent     == client = "halfclosed" /\ pc \in {"accept", "read"} /\ CommandLast /\ wire = <<>>

Phase == \/ Greeting \/ Idle \/ Arrived \/ Understood \/ Opening \/ NotOpened \/ Misread
         \/ Waiting \/ Receiving \/ Storing \/ Unsent \/ Over

(* Of what was accepted nothing is left to read when the client has gone.  *)
Settled == client = "closed" /\ MailAccepted => Over \/ (pc = "read" /\ wire = <<>>)

WaitInv == (client # "closed" => Phase) /\ Settled /\ AcceptedSaved
-----------------------------------------------------------------------------
(* Cells and messages *)

(* Cells of different kinds differ. *)
LEMMA Tags ==
  /\ Header.tag = "head" /\ Dot1.tag = "dot1" /\ Dot2.tag = "dot2" /\ Zero.tag = "zero"
  /\ \A w, no : Text(w, no).tag = "text" /\ Text(w, no).val = w
  /\ \A w : Word(w).tag = "word" /\ Word(w).val = w
  /\ \A a : Arg(a).tag = "arg" /\ Arg(a).val = a
BY Zenon DEF Header, Dot1, Dot2, Zero, Text, Word, Arg, Cell

LEMMA MessageFacts ==
  ASSUME NEW msg \in CommandMessages \cup MailMessages
  PROVE  /\ msg.kind # "mail" => msg.kind \in Commands
         /\ msg.kind = "mail" => msg.text \in Texts /\ Len(msg.text) \in Nat
<1>1. CASE msg \in CommandMessages
  <2>1. PICK k \in Requests, a \in Names \cup {"invalid"} : msg = Message(k, a, <<>>)
    BY <1>1 DEF CommandMessages
  <2> QED
    BY <2>1, EwpAssumption DEF Message, Commands
<1>2. CASE msg \in MailMessages
  <2>1. PICK t \in Texts : msg = Message("mail", "invalid", t)
    BY <1>2 DEF MailMessages
  <2>2. msg.text = t
    BY <2>1 DEF Message
  <2>3. t \in Seq(Commands)
    BY EwpAssumption
  <2>4. Len(t) \in Nat
    BY <2>3, LenProperties
  <2>5. msg.kind = "mail"
    BY <2>1 DEF Message
  <2> QED
    BY <2>2, <2>4, <2>5
<1> QED
  BY <1>1, <1>2

(* What a message begins with is a command, or no command. *)
LEMMA BeginsTyped ==
  ASSUME NEW msg \in CommandMessages \cup MailMessages
  PROVE  Begins(msg) \in Commands
<1>1. CASE msg.kind # "mail"
  BY <1>1, MessageFacts DEF Begins
<1>2. CASE msg.kind = "mail" /\ msg.text = <<>>
  BY <1>2 DEF Begins, Commands
<1>3. CASE msg.kind = "mail" /\ msg.text # <<>>
  <2>1. msg.text \in Seq(Commands)
    BY <1>3, MessageFacts, EwpAssumption
  <2>2. PICK t \in Seq(Commands) : t = msg.text
    BY <2>1
  <2>3. 1 \in 1..Len(t)
    BY <1>3, <2>2, EmptySeq, LenProperties
  <2>4. t[1] \in Commands
    BY <2>3, ElementOfSeq
  <2> QED
    BY <1>3, <2>2, <2>4 DEF Begins
<1> QED
  BY <1>1, <1>2, <1>3

(* The last message the client sent is one of them. *)
LEMMA LastSent ==
  ASSUME Types, sent # <<>>
  PROVE  /\ Len(sent) \in Nat /\ Len(sent) > 0
         /\ Last(sent) \in CommandMessages \cup MailMessages
<1> DEFINE M == CommandMessages \cup MailMessages
<1>1. sent \in Seq(M)
  BY DEF Types
<1> HIDE DEF M
<1>2. Len(sent) \in Nat /\ Len(sent) > 0
  BY <1>1, EmptySeq
<1>3. sent[Len(sent)] \in M
  BY <1>1, <1>2, ElementOfSeq
<1> QED
  BY <1>2, <1>3 DEF M, Last

LEMMA CommandCells ==
  ASSUME NEW msg, NEW no, msg.kind # "mail"
  PROVE  LET c == Cells(msg, no)
         IN /\ c # <<>> /\ Len(c) = 3 /\ c[1] = Header
            /\ c[2] = Word(msg.kind) /\ c[3] = Arg(msg.arg)
            /\ SubSeq(c, 4, 3) = <<>>
<1> DEFINE c == Cells(msg, no)
<1>1. c = <<Header, Word(msg.kind), Arg(msg.arg)>>
  BY DEF Cells
<1> HIDE DEF c
<1> SUFFICES /\ c # <<>> /\ Len(c) = 3 /\ c[1] = Header
             /\ c[2] = Word(msg.kind) /\ c[3] = Arg(msg.arg)
  BY SubSeqEmpty DEF c
<1>2. \A x, y, z : /\ <<x, y, z>> # <<>> /\ Len(<<x, y, z>>) = 3
                   /\ <<x, y, z>>[1] = x /\ <<x, y, z>>[2] = y /\ <<x, y, z>>[3] = z
  OBVIOUS
<1> QED
  BY <1>1, <1>2, Zenon

(* A mail: its header, the text, the end marker and the zero. *)
IsMail(c, s) == /\ Len(c) = s + 4
                /\ c[1] = Header /\ \A i \in 2..(s + 1) : c[i].tag = "text"
                /\ c[s + 2] = Dot1 /\ c[s + 3] = Dot2 /\ c[s + 4] = Zero

LEMMA MailCells ==
  ASSUME NEW msg, NEW no, msg.kind = "mail", Len(msg.text) \in Nat
  PROVE  /\ IsMail(Cells(msg, no), Len(msg.text))
         /\ SubSeq(Cells(msg, no), 1, Len(msg.text) + 1) = <<Header>> \o TextOf(msg, no)
         /\ \E A : Cells(msg, no) \in Seq(A)
         /\ Len(msg.text) > 0 => Cells(msg, no)[2].val = msg.text[1]
<1>0. PICK s \in Nat : s = Len(msg.text)
  OBVIOUS
<1> DEFINE H == <<Header>>
           T == TextOf(msg, no)
           E == <<Dot1, Dot2, Zero>>
           A == {Header, Dot1, Dot2, Zero} \cup {Text(msg.text[i], no) : i \in 1..s}
<1>1. Cells(msg, no) = (H \o T) \o E
  BY DEF Cells
<1>2. H \in Seq(A) /\ Len(H) = 1 /\ H[1] = Header
  <2>1. Header \in A
    OBVIOUS
  <2> HIDE DEF A
  <2> QED
    BY <2>1
<1>3. E \in Seq(A) /\ Len(E) = 3 /\ E[1] = Dot1 /\ E[2] = Dot2 /\ E[3] = Zero
  <2>1. Dot1 \in A /\ Dot2 \in A /\ Zero \in A
    OBVIOUS
  <2> HIDE DEF A
  <2> QED
    BY <2>1
<1>4. T \in Seq(A) /\ Len(T) = s /\ \A i \in 1..s : T[i] = Text(msg.text[i], no)
  <2>1. \A i \in 1..s : Text(msg.text[i], no) \in A
    OBVIOUS
  <2>2. T = [i \in 1..s |-> Text(msg.text[i], no)]
    BY <1>0 DEF TextOf
  <2> HIDE DEF A, T
  <2> QED
    BY <2>1, <2>2
<1> HIDE DEF H, T, E, A
<1> DEFINE F == H \o T
           c == F \o E
<1>5. F \in Seq(A) /\ Len(F) = s + 1
      /\ \A i \in 1..(s + 1) : F[i] = IF i <= 1 THEN H[i] ELSE T[i - 1]
  <2>1. F \in Seq(A) /\ Len(F) = Len(H) + Len(T)
        /\ \A i \in 1..(Len(H) + Len(T)) : F[i] = IF i <= Len(H) THEN H[i] ELSE T[i - Len(H)]
    BY <1>2, <1>4, ConcatProperties
  <2> HIDE DEF F
  <2>2. Len(H) + Len(T) = s + 1
    BY <1>2, <1>4
  <2> QED
    BY <1>2, <1>4, <2>1, <2>2
<1> HIDE DEF F
<1>6. c \in Seq(A) /\ Len(c) = s + 4
      /\ \A i \in 1..(s + 4) : c[i] = IF i <= s + 1 THEN F[i] ELSE E[i - (s + 1)]
  <2>1. c \in Seq(A) /\ Len(c) = Len(F) + Len(E)
        /\ \A i \in 1..(Len(F) + Len(E)) : c[i] = IF i <= Len(F) THEN F[i] ELSE E[i - Len(F)]
    BY <1>3, <1>5, ConcatProperties
  <2> HIDE DEF c
  <2>2. Len(F) + Len(E) = s + 4
    BY <1>3, <1>5
  <2> QED
    BY <1>3, <1>5, <2>1, <2>2
<1> HIDE DEF c
<1>7. c[1] = H[1] /\ \A i \in 2..(s + 1) : c[i] = T[i - 1]
  BY <1>5, <1>6
<1>8. c[s + 2] = E[1] /\ c[s + 3] = E[2] /\ c[s + 4] = E[3]
  BY <1>3, <1>6
<1>9. SubSeq(c, 1, s + 1) = F
  <2> DEFINE p == SubSeq(c, 1, s + 1)
  <2>1. \A i \in 1..(s + 1) : c[i] = F[i] /\ c[i] \in A
    BY <1>5, <1>6, ElementOfSeq
  <2>2. p \in Seq(A) /\ Len(p) = s + 1 /\ \A i \in 1..(s + 1) : p[i] = c[i]
    <3>1. /\ p \in Seq(A)
          /\ Len(p) = IF 1 <= s + 1 THEN s + 1 - 1 + 1 ELSE 0
          /\ \A i \in 1..(s + 1 - 1 + 1) : p[i] = c[1 + i - 1]
      BY <2>1, SubSeqProperties
    <3> HIDE DEF p
    <3> QED
      BY <3>1
  <2> HIDE DEF p
  <2>3. \A i \in 1..Len(p) : p[i] = F[i]
    BY <2>1, <2>2
  <2> QED
    BY <1>5, <2>2, <2>3, SeqEqual DEF p
<1>10. /\ c = Cells(msg, no) /\ F = H \o T
       /\ \A i \in 2..(s + 1) : c[i].tag = "text"
       /\ s > 0 => c[2].val = msg.text[1]
  <2>1. \A i \in 2..(s + 1) : c[i] = Text(msg.text[i - 1], no)
    BY <1>4, <1>7
  <2>2. \A i \in 2..(s + 1) : c[i].tag = "text"
    BY <2>1, Tags
  <2>3. s > 0 => c[2].val = msg.text[1]
    <3> HAVE s > 0
    <3>1. 2 \in 2..(s + 1) /\ 2 - 1 = 1
      OBVIOUS
    <3>2. c[2] = Text(msg.text[1], no)
      BY <2>1, <3>1
    <3> QED
      BY <3>2, Tags
  <2> QED
    BY <1>1, <2>2, <2>3 DEF c, F
<1>11. IsMail(Cells(msg, no), s)
  BY <1>2, <1>3, <1>6, <1>7, <1>8, <1>10 DEF IsMail
<1> QED
  BY <1>0, <1>6, <1>9, <1>10, <1>11 DEF H, T
-----------------------------------------------------------------------------
(* Reading a message in pieces *)

(* What is left of c after r elements. *)
LEMMA Rest ==
  ASSUME NEW A, NEW c \in Seq(A), NEW r \in 0..Len(c)
  PROVE  /\ SubSeq(c, r + 1, Len(c)) \in Seq(A) /\ Len(SubSeq(c, r + 1, Len(c))) = Len(c) - r
         /\ \A i \in 1..(Len(c) - r) : SubSeq(c, r + 1, Len(c))[i] = c[r + i]
<1> DEFINE L == Len(c)
           w == SubSeq(c, r + 1, L)
<1>1. L \in Nat /\ r \in Nat /\ r <= L /\ \A i \in 1..L : c[i] \in A
  BY LenProperties, ElementOfSeq
<1> HIDE DEF L
<1>2. /\ w \in Seq(A) /\ Len(w) = IF r + 1 <= L THEN L - (r + 1) + 1 ELSE 0
      /\ \A i \in 1..(L - (r + 1) + 1) : w[i] = c[(r + 1) + i - 1]
  <2>1. r + 1 \in Int /\ L \in Int /\ \A i \in (r + 1)..L : c[i] \in A
    BY <1>1
  <2> QED
    BY <2>1, SubSeqProperties
<1> HIDE DEF w
<1>3. Len(w) = L - r /\ \A i \in 1..(L - r) : w[i] = c[r + i]
  BY <1>1, <1>2
<1> QED
  BY <1>2, <1>3 DEF w, L

(* Of what was left, n more elements are taken. *)
LEMMA RestOfRest ==
  ASSUME NEW A, NEW c \in Seq(A), NEW r \in 0..Len(c), NEW n \in 0..(Len(c) - r),
         NEW w \in Seq(A), Len(w) = Len(c) - r, \A i \in 1..(Len(c) - r) : w[i] = c[r + i]
  PROVE  SubSeq(w, n + 1, Len(w)) = SubSeq(c, (r + n) + 1, Len(c))
<1> DEFINE L == Len(c)
           u == SubSeq(w, n + 1, Len(w))
           v == SubSeq(c, (r + n) + 1, L)
<1>1. L \in Nat /\ r \in Nat /\ n \in Nat /\ r + n \in 0..L /\ n \in 0..Len(w)
  BY LenProperties
<1>2. u \in Seq(A) /\ Len(u) = Len(w) - n /\ \A i \in 1..(Len(w) - n) : u[i] = w[n + i]
  BY <1>1, Rest
<1>3. v \in Seq(A) /\ Len(v) = L - (r + n) /\ \A i \in 1..(L - (r + n)) : v[i] = c[(r + n) + i]
  BY <1>1, Rest
<1> HIDE DEF u, v
<1>4. Len(u) = Len(v) /\ Len(u) = (L - r) - n
  BY <1>1, <1>2, <1>3
<1>5. ASSUME NEW i \in 1..Len(u) PROVE u[i] = v[i]
  <2>1. i \in Nat /\ i \in 1..(Len(w) - n) /\ i \in 1..(L - (r + n)) /\ n + i \in 1..(L - r)
        /\ r + (n + i) = (r + n) + i
    BY <1>1, <1>4
  <2>2. u[i] = w[n + i] /\ w[n + i] = c[r + (n + i)] /\ v[i] = c[(r + n) + i]
    BY <1>2, <1>3, <2>1
  <2> QED
    BY <2>1, <2>2
<1> QED
  BY <1>2, <1>3, <1>4, <1>5, SeqEqual DEF u, v

(* The first r elements and the next n, from wherever they stand first.    *)
LEMMA FirstAndNext ==
  ASSUME NEW A, NEW c \in Seq(A), NEW r \in 0..Len(c), NEW n \in 0..(Len(c) - r),
         NEW b, \A i \in 1..n : b[i] = c[r + i]
  PROVE  SubSeq(c, 1, r) \o SubSeq(b, 1, n) = SubSeq(c, 1, r + n)
<1> DEFINE L == Len(c)
           p == SubSeq(c, 1, r)
           q == SubSeq(b, 1, n)
           t == SubSeq(c, 1, r + n)
<1>1. L \in Nat /\ r \in Nat /\ n \in Nat /\ r + n <= L /\ \A i \in 1..L : c[i] \in A
  BY LenProperties, ElementOfSeq
<1> HIDE DEF L
<1>2. p \in Seq(A) /\ Len(p) = r /\ \A i \in 1..r : p[i] = c[i]
  <2>1. \A i \in 1..r : c[i] \in A
    BY <1>1
  <2>2. /\ p \in Seq(A) /\ Len(p) = IF 1 <= r THEN r - 1 + 1 ELSE 0
        /\ \A i \in 1..(r - 1 + 1) : p[i] = c[1 + i - 1]
    BY <1>1, <2>1, SubSeqProperties
  <2> HIDE DEF p
  <2> QED
    BY <1>1, <2>2
<1>3. q \in Seq(A) /\ Len(q) = n /\ \A i \in 1..n : q[i] = b[i]
  <2>1. \A i \in 1..n : b[i] \in A
    BY <1>1
  <2>2. /\ q \in Seq(A) /\ Len(q) = IF 1 <= n THEN n - 1 + 1 ELSE 0
        /\ \A i \in 1..(n - 1 + 1) : q[i] = b[1 + i - 1]
    BY <1>1, <2>1, SubSeqProperties
  <2> HIDE DEF q
  <2> QED
    BY <1>1, <2>2
<1>4. t \in Seq(A) /\ Len(t) = r + n /\ \A i \in 1..(r + n) : t[i] = c[i]
  <2>1. \A i \in 1..(r + n) : c[i] \in A
    BY <1>1
  <2>2. /\ t \in Seq(A) /\ Len(t) = IF 1 <= r + n THEN (r + n) - 1 + 1 ELSE 0
        /\ \A i \in 1..((r + n) - 1 + 1) : t[i] = c[1 + i - 1]
    BY <1>1, <2>1, SubSeqProperties
  <2> HIDE DEF t
  <2> QED
    BY <1>1, <2>2
<1> HIDE DEF p, q, t
<1> DEFINE o == p \o q
<1>5. o \in Seq(A) /\ Len(o) = r + n
      /\ \A i \in 1..(r + n) : o[i] = IF i <= r THEN p[i] ELSE q[i - r]
  <2>1. o \in Seq(A) /\ Len(o) = Len(p) + Len(q)
        /\ \A i \in 1..(Len(p) + Len(q)) : o[i] = IF i <= Len(p) THEN p[i] ELSE q[i - Len(p)]
    BY <1>2, <1>3, ConcatProperties
  <2> HIDE DEF o
  <2> QED
    BY <1>2, <1>3, <2>1
<1> HIDE DEF o
<1>6. ASSUME NEW i \in 1..(r + n) PROVE o[i] = t[i]
  <2>1. CASE i <= r
    BY <1>1, <1>2, <1>4, <1>5, <2>1
  <2>2. CASE ~(i <= r)
    <3>1. i - r \in 1..n /\ r + (i - r) = i
      BY <1>1, <2>2
    <3>2. o[i] = q[i - r] /\ q[i - r] = b[i - r] /\ b[i - r] = c[r + (i - r)]
      BY <1>3, <1>5, <2>2, <3>1
    <3> QED
      BY <1>4, <3>1, <3>2
  <2> QED
    BY <2>1, <2>2
<1> QED
  BY <1>4, <1>5, <1>6, SeqEqual DEF o, p, q, t

(* A read returns all there is, or fills the buffer. *)
LEMMA WholeRead ==
  ASSUME Orderly, NEW n \in ReadSizes, Len(wire) \in Nat
  PROVE  /\ n \in Nat /\ n > 0 /\ n <= BufferCells /\ n <= Len(wire)
         /\ n = BufferCells \/ n = Len(wire)
BY EwpAssumption DEF Orderly, ReadSizes, SmallerOf

LEMMA NothingToRead ==
  ASSUME Orderly, wire = <<>>
  PROVE  ReadSizes = {}
<1>1. Len(wire) = 0
  OBVIOUS
<1> QED
  BY <1>1, EwpAssumption DEF Orderly, ReadSizes, SmallerOf

(* A client that is there hears the reply. *)
LEMMA ReplyHeard ==
  ASSUME Types, client # "closed", NEW code \in Codes, NEW next, Reply(code, next)
  PROVE  /\ pc' = next /\ Len(replies') = Len(replies) + 1 /\ Last(replies)' = code
         /\ Len(replies) \in Nat
<1>1. replies \in Seq(Codes) /\ Len(replies) \in Nat
  BY DEF Types
<1>2. replies' = Append(replies, code) /\ pc' = next
  BY DEF Reply
<1>3. Len(Append(replies, code)) = Len(replies) + 1
      /\ Append(replies, code)[Len(replies) + 1] = code
  BY <1>1
<1> QED
  BY <1>1, <1>2, <1>3 DEF Last
-----------------------------------------------------------------------------
(* Each step keeps the phases *)

LEMMA InitPhase == Init => WaitInv
<1> SUFFICES ASSUME Init PROVE WaitInv
  OBVIOUS
<1>1. sent = <<>> /\ Greeting /\ client = "open"
  BY DEF Init, Greeting
<1> QED
  BY <1>1 DEF WaitInv, Phase, Settled, AcceptedSaved, MailAccepted

(* A step after which the last mail is not yet answered, or that leaves    *)
(* what was said and saved alone, keeps what was accepted.                 *)
LEMMA NotAnswered ==
  ASSUME ~MailAccepted' PROVE AcceptedSaved' /\ Settled'
BY DEF AcceptedSaved, Settled

LEMMA FilesKept ==
  ASSUME AcceptedSaved, UNCHANGED <<sent, replies, files>>
  PROVE  AcceptedSaved' /\ (MailAccepted' <=> MailAccepted)
BY DEF AcceptedSaved, MailAccepted, MailFile, Last

(* What the server does when the client has gone changes nothing that was  *)
(* accepted.                                                               *)
LEMMA ClosedStep ==
  ASSUME Orderly, WaitInv, Types, client = "closed", Server
  PROVE  WaitInv'
<1>1. client' = client /\ sent' = sent /\ ~Over
  BY DEF Server, Greet, ReadCommand, Hello, DataCommand, OpenFile, ReadMail, Accept, Quit, Unknown, Over
<1>2. replies' = replies
  BY DEF Server, Greet, ReadCommand, Hello, DataCommand, OpenFile, ReadMail, Accept, Quit, Unknown, Reply
<1>3. MailAccepted' <=> MailAccepted
  BY <1>1, <1>2 DEF MailAccepted, Last
<1>4. CASE ~MailAccepted
  BY <1>1, <1>3, <1>4, NotAnswered DEF WaitInv
<1>5. CASE MailAccepted
  <2>1. pc = "read" /\ wire = <<>>
    BY <1>1, <1>5 DEF WaitInv, Settled
  <2>2. ReadCommand
    BY <2>1 DEF Server, Greet, Hello, DataCommand, OpenFile, ReadMail, Accept, Quit, Unknown
  <2>3. pc' = "ended" /\ UNCHANGED files
    BY <2>1, <2>2, NothingToRead DEF ReadCommand
  <2>4. AcceptedSaved'
    BY <1>1, <1>2, <2>3, FilesKept DEF WaitInv
  <2> QED
    BY <1>1, <2>3, <2>4 DEF WaitInv, Settled, Over
<1> QED
  BY <1>4, <1>5

(* The rest of the steps: the client is there. *)
LEMMA GreetPhase ==
  ASSUME Types, WaitInv, client # "closed", Greet
  PROVE  WaitInv'
<1>1. pc = "greet" /\ Reply("220", "read") /\ UNCHANGED <<client, sent, wire, buffer, email, files>>
  BY DEF Greet
<1>2. sent = <<>> /\ replies = <<>> /\ wire = <<>>
  BY <1>1 DEF WaitInv, Phase, Greeting, Idle, Arrived, Understood, Opening, NotOpened, Misread,
              Waiting, Receiving, Storing, Unsent, Over
<1>3. pc' = "read" /\ Len(replies') = Len(replies) + 1 /\ Last(replies)' = "220"
  BY <1>1, ReplyHeard DEF Codes
<1>4. Len(replies) = 0 /\ Len(sent) = 0
  BY <1>2
<1>5. Idle'
  BY <1>1, <1>2, <1>3, <1>4 DEF Idle, Replied
<1>6. ~MailAccepted'
  BY <1>1, <1>2 DEF MailAccepted
<1> QED
  BY <1>5, <1>6, NotAnswered DEF WaitInv, Phase

(* What is served is the last the client sent: a command, or a mail that   *)
(* begins like one.                                                        *)
LEMMA Served ==
  ASSUME WaitInv, client # "closed", pc = "parse", Parsed # "other"
  PROVE  /\ Pending /\ wire = <<>> /\ sent # <<>> /\ Begins(Last(sent)) = Parsed
         /\ \/ CommandLast /\ Last(sent).kind = Parsed /\ Last(sent).arg = Filename
            \/ MailLast /\ ~ValidFilename
<1>1. Understood \/ Misread
  BY DEF WaitInv, Phase, Greeting, Idle, Arrived, Understood, Opening, NotOpened, Misread,
         Waiting, Receiving, Storing, Unsent, Over
<1>2. CASE Understood
  BY <1>2, Tags DEF Understood, Parsed, Filename, CommandLast, Begins
<1>3. CASE Misread
  BY <1>3 DEF Misread, MailLast
<1> QED
  BY <1>1, <1>2, <1>3

(* A command is answered with a code after which the server reads on. *)
LEMMA Answering ==
  ASSUME Types, WaitInv, client # "closed", pc = "parse", Parsed # "other",
         NEW code \in Codes \ {"354", "221", "accepted"}, Reply(code, "read"),
         UNCHANGED <<client, sent, wire, buffer, email, files>>
  PROVE  WaitInv'
<1>1. Pending /\ wire = <<>> /\ sent # <<>>
  BY Served
<1>2. pc' = "read" /\ Len(replies') = Len(replies) + 1 /\ Last(replies)' = code
  BY ReplyHeard
<1>3. Idle'
  BY <1>1, <1>2 DEF Idle, Replied, Pending
<1>4. ~MailAccepted'
  <2>1. replies'[Len(sent) + 1] = code
    BY <1>1, <1>2 DEF Pending, Last
  <2> QED
    BY <2>1 DEF MailAccepted
<1> QED
  BY <1>3, <1>4, NotAnswered DEF WaitInv, Phase

LEMMA HelloPhase ==
  ASSUME Types, WaitInv, client # "closed", Hello
  PROVE  WaitInv'
<1>1. /\ pc = "parse" /\ Parsed # "other" /\ Reply("250", "read")
      /\ UNCHANGED <<client, sent, wire, buffer, email, files>>
  BY DEF Hello
<1> QED
  BY <1>1, Answering DEF Codes

LEMMA DataPhase ==
  ASSUME Types, WaitInv, client # "closed", DataCommand
  PROVE  WaitInv'
<1>1. /\ pc = "parse" /\ Parsed = "DATA"
      /\ IF ValidFilename THEN Reply("354", "open") ELSE Reply("501", "read")
      /\ UNCHANGED <<client, sent, wire, buffer, email, files>>
  BY DEF DataCommand
<1>2. CASE ~ValidFilename
  BY <1>1, <1>2, Answering DEF Codes
<1>3. CASE ValidFilename
  <2>1. /\ Pending /\ CommandLast /\ wire = <<>>
        /\ Last(sent).kind = "DATA" /\ Last(sent).arg = Filename
    BY <1>1, <1>3, Served
  <2>2. pc' = "open" /\ Len(replies') = Len(replies) + 1 /\ Last(replies)' = "354"
    BY <1>1, <1>3, ReplyHeard DEF Codes
  <2>3. CommandLast' /\ Last(sent)' = Last(sent) /\ Filename' = Filename
    BY <1>1, <2>1 DEF CommandLast, Last, Filename
  <2>4. DataReplied'
    BY <1>1, <2>1, <2>2, <2>3 DEF DataReplied, Replied, Pending
  <2>5. MailName' = Filename'
    BY <2>1, <2>3 DEF MailName, MailLast, CommandLast
  <2>6. ~MailAccepted'
    BY <2>3 DEF MailAccepted, CommandLast
  <2> QED
    BY <2>2, <2>4, <2>5, <2>6, NotAnswered DEF WaitInv, Phase, Opening, MailAsked
<1> QED
  BY <1>2, <1>3

LEMMA QuitPhase ==
  ASSUME Types, WaitInv, client # "closed", Quit
  PROVE  WaitInv'
<1>1. /\ pc = "parse" /\ Parsed = "QUIT" /\ Reply("221", "ended")
      /\ UNCHANGED <<client, sent, wire, buffer, email, files>>
  BY DEF Quit
<1>2. Pending
  BY <1>1, Served
<1>3. pc' = "ended" /\ Len(replies') = Len(replies) + 1 /\ Last(replies)' = "221"
  BY <1>1, ReplyHeard DEF Codes
<1>4. ~MailAccepted'
  <2>1. replies'[Len(sent) + 1] = "221"
    BY <1>2, <1>3 DEF Pending, Last
  <2> QED
    BY <1>1, <2>1 DEF MailAccepted
<1> QED
  BY <1>3, <1>4, NotAnswered DEF WaitInv, Phase, Over

LEMMA UnknownPhase ==
  ASSUME WaitInv, client # "closed", Unknown
  PROVE  WaitInv'
<1>1. /\ pc' = "ended" /\ UNCHANGED <<client, sent, replies, files>>
  BY DEF Unknown
<1>2. AcceptedSaved'
  BY <1>1, FilesKept DEF WaitInv
<1> QED
  BY <1>1, <1>2 DEF WaitInv, Phase, Settled, Over
(* Nothing of a mail has been read. *)
LEMMA NothingRead ==
  ASSUME NEW msg \in CommandMessages \cup MailMessages, msg.kind = "mail", NEW no
  PROVE  /\ SubSeq(Cells(msg, no), 0 + 1, Len(Cells(msg, no))) = Cells(msg, no)
         /\ SubSeq(Cells(msg, no), 1, 0) = <<>>
         /\ 0 % BufferCells = 0 /\ 0 \in 0..(Len(msg.text) + 1)
         /\ Cells(msg, no) # <<>>
<1>1. Len(msg.text) \in Nat
  BY MessageFacts
<1>2. (\E A : Cells(msg, no) \in Seq(A)) /\ Len(Cells(msg, no)) = Len(msg.text) + 4
  BY <1>1, MailCells DEF IsMail
<1>3. PICK A : Cells(msg, no) \in Seq(A)
  BY <1>2
<1> DEFINE c == Cells(msg, no)
<1> HIDE DEF c
<1>4. SubSeq(c, 1, Len(c)) = c
  BY <1>3, SubSeqFull DEF c
<1>5. SubSeq(c, 1, 0) = <<>>
  BY SubSeqEmpty
<1>6. 0 % BufferCells = 0 /\ 0 + 1 = 1 /\ 0 \in 0..(Len(msg.text) + 1)
  BY <1>1, EwpAssumption
<1>7. c # <<>>
  <2>1. Len(c) # 0
    BY <1>1, <1>2 DEF c
  <2> QED
    BY <2>1
<1> QED
  BY <1>4, <1>5, <1>6, <1>7 DEF c

LEMMA OpenPhase ==
  ASSUME IInv, WaitInv, client # "closed", OpenFile
  PROVE  WaitInv'
<1>1. /\ pc = "open" /\ UNCHANGED <<client, sent, wire, replies, buffer, email>>
      /\ \/ pc' = "data" /\ files' = [files EXCEPT ![Filename] = <<>>]
         \/ pc' = "read" /\ UNCHANGED files
  BY DEF OpenFile
<1>2. MailAsked /\ Filename = MailName
  BY <1>1 DEF WaitInv, Phase, Greeting, Idle, Arrived, Understood, Opening, NotOpened, Misread,
              Waiting, Receiving, Storing, Unsent, Over
<1>3. MailAsked' /\ Filename' = MailName' /\ MailName' = MailName
  BY <1>1, <1>2 DEF MailAsked, DataReplied, Replied, Pending, CommandLast, MailLast, LastCells,
                    Filename, MailName, MailFile, Last
<1>4. ~MailAccepted'
  <2>1. Len(sent) \in Nat \/ sent = <<>>
    BY LastSent DEF IInv
  <2> QED
    BY <1>1, <1>2, <2>1 DEF MailAsked, DataReplied, Pending, MailLast, CommandLast, MailAccepted, Last
<1>5. CASE pc' = "read"
  BY <1>3, <1>4, <1>5, NotAnswered DEF WaitInv, Phase, NotOpened
<1>6. CASE pc' = "data" /\ files' = [files EXCEPT ![Filename] = <<>>]
  <2>1. files'[MailName'] = <<>>
    <3>1. Filename \in DOMAIN files
      BY <1>1 DEF IInv, NameTaken, ValidFilename, Types
    <3> QED
      BY <1>2, <1>3, <1>6, <3>1
  <2>2. CASE DataReplied'
    BY <1>3, <1>4, <1>6, <2>1, <2>2, NotAnswered DEF WaitInv, Phase, Waiting
  <2>3. CASE Pending' /\ MailLast' /\ wire' = LastCells'
    <3>1. /\ LastCells' = Cells(Last(sent), Len(sent)) /\ Last(sent)' = Last(sent)
          /\ sent # <<>> /\ Last(sent).kind = "mail"
      BY <1>1, <2>3 DEF LastCells, MailLast, Last
    <3>2. Last(sent) \in CommandMessages \cup MailMessages
      BY <3>1, LastSent DEF IInv
    <3>3. /\ SubSeq(LastCells', 0 + 1, Len(LastCells')) = LastCells'
          /\ SubSeq(LastCells', 1, 0) = <<>>
          /\ 0 % BufferCells = 0 /\ 0 \in 0..(Len(Last(sent)'.text) + 1)
      BY <3>1, <3>2, NothingRead
    <3>4. ReadUpTo(0)'
      BY <2>1, <2>3, <3>3 DEF ReadUpTo
    <3>5. Receiving'
      BY <1>3, <1>6, <2>3, <3>3, <3>4 DEF Receiving
    <3> QED
      BY <1>4, <3>5, NotAnswered DEF WaitInv, Phase
  <2> QED
    BY <1>3, <2>2, <2>3 DEF MailAsked
<1> QED
  BY <1>1, <1>5, <1>6

(* A read that begins with a header goes to the front of the buffer. *)
LEMMA HeaderReceived ==
  ASSUME NEW n \in Nat, n > 0, wire[1] = Header
  PROVE  Received(n) = Overlay(buffer, n)
<1>1. 1 \in 1..n /\ wire[1] \notin {Dot1, Dot2, Zero}
  BY Tags
<1> QED
  BY <1>1 DEF Received

(* A read at the top of the loop gets a whole command; of a mail whose     *)
(* file could not be opened it gets what the mail begins with.             *)
LEMMA ReadPhase ==
  ASSUME Orderly, IInv, WaitInv, client # "closed", ReadCommand
  PROVE  WaitInv'
<1>1. /\ pc = "read" /\ UNCHANGED <<client, sent, replies, email, files>>
      /\ \/ pc' = "ended"
         \/ \E n \in ReadSizes : buffer' = Received(n) /\ Consume(n) /\ pc' = "parse"
  BY DEF ReadCommand
<1>2. AcceptedSaved' /\ (MailAccepted' <=> MailAccepted)
  BY <1>1, FilesKept DEF WaitInv
<1>3. CASE pc' = "ended"
  BY <1>1, <1>2, <1>3 DEF WaitInv, Phase, Settled, Over
<1>4. CASE \E n \in ReadSizes : buffer' = Received(n) /\ Consume(n) /\ pc' = "parse"
  <2>1. PICK n \in ReadSizes : buffer' = Received(n) /\ Consume(n) /\ pc' = "parse"
    BY <1>4
  <2>2. wire # <<>>
    BY <2>1, NothingToRead
  <2>3. Pending /\ wire = LastCells /\ (CommandLast \/ MailLast)
    BY <1>1, <2>2 DEF WaitInv, Phase, Greeting, Idle, Arrived, Understood, Opening, NotOpened, Misread,
            MailAsked, DataReplied, Waiting, Receiving, Storing, Unsent, Over
  <2>4. /\ sent # <<>> /\ Last(sent) \in CommandMessages \cup MailMessages /\ Len(sent) \in Nat
    BY <2>3, LastSent DEF CommandLast, MailLast, IInv
  <2>5. Len(replies') = Len(sent') /\ ~MailAccepted'
    BY <1>1, <2>3, <2>4 DEF Pending, MailAccepted
  <2>6. BufferCells \in Nat /\ BufferCells >= 3
    BY EwpAssumption
  <2>7. CASE CommandLast
    <3>1. /\ Len(wire) = 3 /\ wire[1] = Header /\ wire[2] = Word(Last(sent).kind) /\ wire[3] = Arg(Last(sent).arg)
          /\ SubSeq(wire, 4, 3) = <<>>
      BY <2>3, <2>7, CommandCells DEF LastCells, CommandLast
    <3>2. n = 3
      <4>1. /\ n \in Nat /\ n <= 3 /\ (n = BufferCells \/ n = 3)
        BY <2>1, <3>1, WholeRead
      <4> QED
        BY <2>6, <4>1
    <3>3. wire' = <<>>
      BY <2>1, <3>1, <3>2 DEF Consume
    <3>4. buffer'[2] = wire[2] /\ buffer'[3] = wire[3]
      <4>1. buffer' = Overlay(buffer, n)
        BY <2>1, <3>1, <3>2, HeaderReceived
      <4> QED
        BY <2>6, <3>2, <4>1 DEF Overlay
    <3>5. Understood'
      BY <1>1, <2>1, <2>3, <2>7, <3>1, <3>3, <3>4
      DEF Understood, Pending, CommandLast, Last
    <3> QED
      BY <2>5, <3>5, NotAnswered DEF WaitInv, Phase
  <2>8. CASE MailLast
    <3>0. PICK s \in Nat : s = Len(Last(sent).text)
      BY <2>4, <2>8, MessageFacts DEF MailLast
    <3>1. Last(sent).kind = "mail" /\ Last(sent).text \in Texts /\ Last(sent).text \in Seq(Commands)
      BY <2>4, <2>8, MessageFacts, EwpAssumption DEF MailLast
    <3>2. /\ IsMail(wire, s) /\ Len(wire) = s + 4
          /\ s > 0 => wire[2].val = Last(sent).text[1]
      <4>1. IsMail(wire, s) /\ (s > 0 => wire[2].val = Last(sent).text[1])
        BY <2>3, <3>0, <3>1, MailCells DEF LastCells
      <4> QED
        BY <4>1 DEF IsMail
    <3>3. n \in Nat /\ n >= 3 /\ (n = BufferCells \/ n = s + 4) /\ n <= s + 4
      BY <2>1, <2>6, <3>0, <3>2, WholeRead
    <3>4. buffer'[2] = wire[2] /\ buffer'[3] = wire[3]
      <4>1. buffer' = Overlay(buffer, n)
        BY <2>1, <3>2, <3>3, HeaderReceived DEF IsMail
      <4> QED
        BY <2>6, <3>3, <4>1 DEF Overlay
    <3>5. Last(sent).text = <<>> <=> s = 0
      <4>1. PICK t \in Seq(Commands) : t = Last(sent).text
        BY <3>1
      <4> QED
        BY <3>0, <4>1, EmptySeq
    <3>6. Parsed' = Begins(Last(sent))
      <4>1. CASE s = 0
        <5>1. wire[2] = Dot1
          BY <3>2, <4>1 DEF IsMail
        <5> QED
          BY <3>1, <3>4, <3>5, <4>1, <5>1, Tags DEF Begins, Parsed
      <4>2. CASE s # 0
        <5>1. wire[2].tag = "text" /\ wire[2].val = Last(sent).text[1]
          <6>1. 2 \in 2..(s + 1)
            BY <3>0, <4>2
          <6> QED
            BY <3>0, <3>2, <4>2, <6>1 DEF IsMail
        <5> QED
          BY <3>1, <3>4, <3>5, <4>2, <5>1 DEF Begins, Parsed
      <4> QED
        BY <4>1, <4>2
    <3>7. ~ValidFilename'
      <4>1. wire[3].tag # "arg"
        <5>1. CASE s = 0
          <6>1. wire[3] = Dot2
            BY <3>2, <5>1 DEF IsMail
          <6> QED
            BY <6>1, Tags
        <5>2. CASE s = 1
          <6>1. wire[3] = Dot1
            BY <3>2, <5>2 DEF IsMail
          <6> QED
            BY <6>1, Tags
        <5>3. CASE s # 0 /\ s # 1
          <6>0. s \in Nat
            BY <3>0
          <6>1. 3 \in 2..(s + 1)
            BY ONLY <6>0, <5>3
          <6> QED
            BY <3>2, <6>1 DEF IsMail
        <5> QED
          BY <5>1, <5>2, <5>3
      <4> QED
        BY <3>4, <4>1 DEF ValidFilename
    <3>8. Parsed' # "other" => wire' = <<>>
      <4> HAVE Parsed' # "other"
      <4>1. s + 4 <= BufferCells
        BY <3>0, <3>1, <3>6 DEF Begins, Orderly, MarkerWhole
      <4>2. n = s + 4
        BY <2>6, <3>0, <3>3, <4>1
      <4>3. wire' = SubSeq(wire, (s + 4) + 1, s + 4)
        BY <2>1, <3>2, <4>2 DEF Consume
      <4> QED
        BY <3>0, <4>3, SubSeqEmpty
    <3>9. Misread'
      BY <1>1, <2>1, <2>3, <2>8, <3>6, <3>7, <3>8 DEF Misread, Pending, MailLast, Last
    <3> QED
      BY <2>5, <3>9, NotAnswered DEF WaitInv, Phase
  <2> QED
    BY <2>3, <2>7, <2>8
<1> QED
  BY <1>1, <1>3, <1>4
-----------------------------------------------------------------------------
(* A buffer full of a mail *)

LEMMA OneBufferOn ==
  ASSUME NEW r \in Nat, r % BufferCells = 0
  PROVE  (r + BufferCells) % BufferCells = 0
<1> DEFINE B == BufferCells
           q == r \div B
<1>1. B \in Nat /\ B > 0
  BY EwpAssumption
<1> HIDE DEF B
<1>2. q \in Int /\ r = B * q + (r % B)
  BY <1>1
<1>3. r = B * q
  BY <1>1, <1>2 DEF B
<1> HIDE DEF q
<1>4. r + B = B * (q + 1)
  BY <1>1, <1>2, <1>3
<1>5. (B * (q + 1)) % B = 0
  <2>1. q + 1 \in Int
    BY <1>2
  <2> DEFINE t == q + 1
  <2>2. t \in Int
    BY <2>1
  <2> HIDE DEF t
  <2>3. (B * t) % B = 0
    BY <1>1, <2>2
  <2> QED
    BY <2>3 DEF t
<1> QED
  BY <1>4, <1>5 DEF B

(* The front of b holds the n elements of c behind the first r. *)
Holds(b, c, r, n) == \A i \in 1..n : b[i] = c[r + i]

(* The cells r + 1 to r + n of a mail of s cells of text, read to the      *)
(* front of the buffer b: if the mail does not end with them, they hold    *)
(* header and text; else the end marker is found right behind the text.    *)
LEMMA MarkerFound ==
  ASSUME NEW s \in Nat, NEW c, NEW b, NEW r \in Nat, NEW n \in Nat, IsMail(c, s),
         r <= s + 1, r + n = s + 4, n <= BufferCells, Holds(b, c, r, n)
  PROVE  (s + 2) - r \in MarkerAt(b) /\ \A j \in MarkerAt(b) : (s + 2) - r <= j
<1> DEFINE m == (s + 2) - r
<1>1. m \in Nat /\ m >= 1 /\ m + 2 = n /\ BufferCells \in Nat /\ m \in 1..(BufferCells - 1)
      /\ r + m = s + 2 /\ r + (m + 1) = s + 3 /\ m \in 1..n /\ m + 1 \in 1..n
  BY EwpAssumption
<1>2. b[m] = Dot1 /\ b[m + 1] = Dot2
  BY <1>1 DEF Holds, IsMail
<1>3. ASSUME NEW j \in 1..(m - 1) PROVE b[j].tag \in {"head", "text"}
  <2>1. j \in 1..n /\ r + j \in 1..(s + 1)
    BY <1>1
  <2>2. b[j] = c[r + j]
    BY <2>1 DEF Holds
  <2>3. CASE r + j = 1
    BY <2>2, <2>3, Tags DEF IsMail
  <2>4. CASE r + j # 1
    <3>1. r + j \in 2..(s + 1)
      BY <2>1, <2>4
    <3> QED
      BY <2>2, <3>1, Tags DEF IsMail
  <2> QED
    BY <2>3, <2>4
<1> HIDE DEF m
<1>4. m \in MarkerAt(b)
  BY <1>1, <1>2, <1>3 DEF MarkerAt
<1>5. ASSUME NEW j \in MarkerAt(b) PROVE m <= j
  <2>1. j \in 1..(BufferCells - 1) /\ b[j].tag = "dot1"
    BY Tags DEF MarkerAt
  <2>2. j \notin 1..(m - 1)
    BY <1>3, <2>1
  <2> QED
    BY <1>1, <2>1, <2>2
<1> QED
  BY <1>4, <1>5 DEF m

LEMMA NoMarker ==
  ASSUME NEW s \in Nat, NEW c, NEW b, NEW r \in Nat, IsMail(c, s),
         r + BufferCells <= s + 1, Holds(b, c, r, BufferCells)
  PROVE  MarkerAt(b) = {}
<1>1. BufferCells \in Nat
  BY EwpAssumption
<1>2. ASSUME NEW j \in 1..BufferCells PROVE b[j].tag \in {"head", "text"}
  <2>1. b[j] = c[r + j] /\ r + j \in 1..(s + 1)
    BY <1>1 DEF Holds
  <2>2. CASE r + j = 1
    BY <2>1, <2>2, Tags DEF IsMail
  <2>3. CASE r + j # 1
    <3>1. r + j \in 2..(s + 1)
      BY <2>1, <2>3
    <3> QED
      BY <2>1, <3>1, Tags DEF IsMail
  <2> QED
    BY <2>2, <2>3
<1>3. ASSUME NEW j \in MarkerAt(b) PROVE FALSE
  <2>1. j \in 1..BufferCells /\ b[j].tag = "dot1"
    BY <1>1, Tags DEF MarkerAt
  <2> QED
    BY <1>2, <2>1
<1> QED
  BY <1>3

(* What one read of a mail does. *)
LEMMA MailChunk ==
  ASSUME Orderly, IInv, client # "closed", pc = "data", Pending, MailLast, Filename = MailName,
         NEW r \in 0..(Len(Last(sent).text) + 1), ReadUpTo(r),
         NEW n \in ReadSizes, Consume(n), email' = Overlay(email, n),
         \/ \E i \in MarkerAt(email') :
              /\ \A j \in MarkerAt(email') : i <= j
              /\ files' = [files EXCEPT ![Filename] = @ \o SubSeq(email', 1, i - 1)]
              /\ pc' = "accept"
         \/ /\ MarkerAt(email') = {}
            /\ files' = [files EXCEPT ![Filename] = @ \o SubSeq(email', 1, n)]
            /\ UNCHANGED pc,
         UNCHANGED <<client, sent, replies, buffer>>
  PROVE  Phase'
<1> DEFINE c == LastCells
           no == Len(sent)
<1>0. /\ sent # <<>> /\ Last(sent).kind = "mail" /\ Last(sent).text \in Texts
      /\ Len(Last(sent).text) \in Nat
  BY LastSent, MessageFacts DEF MailLast, IInv
<1>1. PICK s \in Nat : Len(Last(sent).text) = s
  BY <1>0
<1>a. s \in Nat
  OBVIOUS
<1>2. /\ IsMail(c, s) /\ Len(c) = s + 4
      /\ SubSeq(c, 1, s + 1) = <<Header>> \o TextOf(Last(sent), no)
      /\ \E A : c \in Seq(A)
  <2>1. /\ IsMail(c, s)
        /\ SubSeq(c, 1, s + 1) = <<Header>> \o TextOf(Last(sent), no)
        /\ \E A : c \in Seq(A)
    BY ONLY <1>0, <1>1, <1>a, MailCells DEF LastCells
  <2> QED
    BY ONLY <2>1 DEF IsMail
<1>3. PICK A : c \in Seq(A)
  BY <1>2
<1>4. /\ r % BufferCells = 0 /\ wire = SubSeq(c, r + 1, Len(c)) /\ files[MailName] = SubSeq(c, 1, r)
      /\ BufferCells \in Nat /\ BufferCells >= 3 /\ (s + 2) % BufferCells # 0 /\ (s + 3) % BufferCells # 0
      /\ MailName \in DOMAIN files
  <2>1. r % BufferCells = 0 /\ wire = SubSeq(c, r + 1, Len(c)) /\ files[MailName] = SubSeq(c, 1, r)
    BY DEF ReadUpTo
  <2>2. (s + 2) % BufferCells # 0 /\ (s + 3) % BufferCells # 0
    BY <1>0, <1>1 DEF Orderly, MarkerWhole
  <2>3. MailName \in DOMAIN files
    BY DEF IInv, NameTaken, ValidFilename, Types
  <2> QED
    BY <2>1, <2>2, <2>3, EwpAssumption
<1>5. /\ LastCells' = c /\ MailName' = MailName /\ Filename' = Filename /\ Last(sent)' = Last(sent)
      /\ Pending' /\ MailLast'
  BY DEF LastCells, MailName, MailLast, MailFile, Filename, Pending, Last
<1>6. r \in Nat /\ r <= s + 1
  BY <1>1, <1>a
<1>7. wire \in Seq(A) /\ Len(wire) = (s + 4) - r /\ \A i \in 1..((s + 4) - r) : wire[i] = c[r + i]
  <2>1. r \in 0..Len(c)
    BY <1>a, <1>2, <1>6
  <2> HIDE DEF c
  <2>2. /\ SubSeq(c, r + 1, Len(c)) \in Seq(A) /\ Len(SubSeq(c, r + 1, Len(c))) = Len(c) - r
        /\ \A i \in 1..(Len(c) - r) : SubSeq(c, r + 1, Len(c))[i] = c[r + i]
    BY ONLY <1>3, <2>1, Rest
  <2> QED
    BY ONLY <1>2, <1>4, <2>2
<1> HIDE DEF c, no
<1>8. /\ n \in Nat /\ n > 0 /\ n <= BufferCells /\ n <= (s + 4) - r
      /\ n = BufferCells \/ n = (s + 4) - r
  <2>1. Len(wire) \in Nat
    BY <1>a, <1>6, <1>7
  <2> QED
    BY <1>7, <2>1, WholeRead
<1>9. wire' = SubSeq(c, (r + n) + 1, Len(c))
  <2>1. r \in 0..Len(c) /\ n \in 0..(Len(c) - r)
    BY <1>a, <1>2, <1>6, <1>8
  <2>2. wire' = SubSeq(wire, n + 1, Len(wire))
    BY DEF Consume
  <2>3. Len(wire) = Len(c) - r /\ \A i \in 1..(Len(c) - r) : wire[i] = c[r + i]
    BY <1>2, <1>7
  <2> QED
    BY ONLY <1>3, <1>7, <2>1, <2>2, <2>3, RestOfRest
<1>10. Holds(email', c, r, n)
  <2>1. \A i \in 1..n : i \in 1..BufferCells /\ i <= n /\ i \in 1..((s + 4) - r)
    BY ONLY <1>a, <1>4, <1>6, <1>8
  <2> QED
    BY <1>7, <2>1 DEF Overlay, Holds
<1>11. ASSUME NEW x \in 0..n, files' = [files EXCEPT ![Filename] = @ \o SubSeq(email', 1, x)]
       PROVE  files'[MailName'] = SubSeq(c, 1, r + x)
  <2>1. files'[MailName'] = SubSeq(c, 1, r) \o SubSeq(email', 1, x)
    BY <1>4, <1>5, <1>11
  <2>2. r \in 0..Len(c) /\ x \in 0..(Len(c) - r)
    BY ONLY <1>a, <1>2, <1>6, <1>8, x \in 0..n
  <2>3. \A i \in 1..x : email'[i] = c[r + i]
    BY ONLY <1>8, <1>10, x \in 0..n DEF Holds
  <2> QED
    BY ONLY <1>3, <2>1, <2>2, <2>3, FirstAndNext
<1>12. CASE n = (s + 4) - r
  <2>1. (s + 2) - r \in MarkerAt(email') /\ \A j \in MarkerAt(email') : (s + 2) - r <= j
    <3>1. r + n = s + 4 /\ n <= BufferCells
      BY <1>a, <1>6, <1>8, <1>12
    <3> QED
      BY ONLY <1>a, <1>2, <1>6, <1>8, <1>10, <3>1, MarkerFound
  <2>2. \A i \in MarkerAt(email') : i \in Nat
    BY DEF MarkerAt
  <2>3. PICK i \in MarkerAt(email') :
          /\ \A j \in MarkerAt(email') : i <= j
          /\ files' = [files EXCEPT ![Filename] = @ \o SubSeq(email', 1, i - 1)]
          /\ pc' = "accept"
    BY <2>1
  <2>4. i = (s + 2) - r
    BY <1>a, <1>6, <2>1, <2>2, <2>3
  <2>5. i - 1 \in 0..n /\ r + (i - 1) = s + 1
    BY <1>a, <1>6, <1>8, <1>12, <2>4
  <2>6. files'[MailName'] = SubSeq(c, 1, s + 1)
    BY <1>11, <2>3, <2>5
  <2>7. wire' = <<>>
    <3>1. (r + n) + 1 \in Int /\ Len(c) \in Int /\ Len(c) < (r + n) + 1
      BY <1>a, <1>2, <1>6, <1>8, <1>12
    <3> QED
      BY <1>9, <3>1, SubSeqEmpty
  <2>8. Storing'
    BY <1>2, <1>5, <2>3, <2>6, <2>7 DEF Storing, no
  <2> QED
    BY <2>8 DEF Phase
<1>13. CASE n # (s + 4) - r
  <2>1. n = BufferCells /\ r + BufferCells < s + 4
    BY ONLY <1>a, <1>4, <1>6, <1>8, <1>13
  <2>2. (r + BufferCells) % BufferCells = 0
    BY <1>4, <1>6, OneBufferOn
  <2>3. r + BufferCells <= s + 1
    <3>1. r + BufferCells # s + 3 /\ r + BufferCells # s + 2
      BY <1>4, <2>2
    <3> QED
      BY ONLY <1>a, <1>4, <1>6, <2>1, <3>1
  <2>4. MarkerAt(email') = {}
    <3>1. r + BufferCells <= s + 1 /\ Holds(email', c, r, BufferCells)
      BY <1>10, <2>1, <2>3
    <3> QED
      BY ONLY <1>a, <1>2, <1>6, <3>1, NoMarker
  <2>5. /\ files' = [files EXCEPT ![Filename] = @ \o SubSeq(email', 1, n)]
        /\ pc' = "data"
    BY <2>4
  <2>6. files'[MailName'] = SubSeq(c, 1, r + BufferCells)
    <3>1. n \in 0..n
      BY ONLY <1>8
    <3>2. files'[MailName'] = SubSeq(c, 1, r + n)
      BY <1>11, <2>5, <3>1
    <3> QED
      BY ONLY <2>1, <3>2
  <2>7. ReadUpTo(r + BufferCells)'
    BY <1>5, <1>9, <2>1, <2>2, <2>6 DEF ReadUpTo
  <2>8. r + BufferCells \in 0..(Len(Last(sent)'.text) + 1)
    BY ONLY <1>1, <1>a, <1>4, <1>5, <1>6, <2>3
  <2>9. Receiving'
    BY <1>5, <2>5, <2>7, <2>8 DEF Receiving
  <2> QED
    BY <2>9 DEF Phase
<1> QED
  BY <1>12, <1>13
LEMMA MailPhase ==
  ASSUME Orderly, IInv, WaitInv, client # "closed", ReadMail
  PROVE  WaitInv'
<1>1. /\ pc = "data" /\ UNCHANGED <<client, sent, replies, buffer>>
      /\ \/ ReadEnds /\ pc' = "accept" /\ UNCHANGED <<email, files>>
         \/ \E n \in ReadSizes :
              /\ Consume(n)
              /\ email' = Overlay(email, n)
              /\ \/ \E i \in MarkerAt(email') :
                      /\ \A j \in MarkerAt(email') : i <= j
                      /\ files' = [files EXCEPT ![Filename] = @ \o SubSeq(email', 1, i - 1)]
                      /\ pc' = "accept"
                 \/ /\ MarkerAt(email') = {}
                    /\ files' = [files EXCEPT ![Filename] = @ \o SubSeq(email', 1, n)]
                    /\ UNCHANGED pc
  BY DEF ReadMail
<1>2. Waiting \/ Receiving
  BY <1>1 DEF WaitInv, Phase, Greeting, Idle, Arrived, Understood, Opening, NotOpened, Misread,
              Storing, Unsent, Over
<1>3. ~MailAccepted'
  <2>1. Len(sent) \in Nat \/ sent = <<>>
    BY LastSent DEF IInv
  <2> QED
    BY <1>1, <1>2, <2>1
    DEF Waiting, Receiving, DataReplied, Pending, MailLast, CommandLast, MailAccepted, Last
<1>4. CASE Waiting
  <2>1. wire = <<>> /\ CommandLast
    BY <1>4 DEF Waiting, DataReplied
  <2>2. ReadEnds /\ pc' = "accept"
    BY <1>1, <2>1, NothingToRead
  <2>3. client = "halfclosed" /\ wire' = <<>>
    BY <2>2 DEF ReadEnds, IInv, Types
  <2>4. Unsent'
    BY <1>1, <2>1, <2>2, <2>3 DEF Unsent, CommandLast, Last
  <2> QED
    BY <1>3, <2>4, NotAnswered DEF WaitInv, Phase
<1>5. CASE Receiving
  <2>1. PICK r \in 0..(Len(Last(sent).text) + 1) : ReadUpTo(r)
    BY <1>5 DEF Receiving
  <2>2. Pending /\ MailLast /\ Filename = MailName
    BY <1>5 DEF Receiving
  <2>3. wire # <<>>
    <3>1. Last(sent).kind = "mail" /\ Len(Last(sent).text) \in Nat /\ sent # <<>>
      BY <2>2, LastSent, MessageFacts DEF MailLast, IInv
    <3>2. (\E A : LastCells \in Seq(A)) /\ Len(LastCells) = Len(Last(sent).text) + 4
      BY <3>1, MailCells DEF LastCells, IsMail
    <3>3. PICK A : LastCells \in Seq(A)
      BY <3>2
    <3>4. r \in 0..Len(LastCells) /\ Len(LastCells) - r > 0
      BY <3>1, <3>2
    <3>5. Len(SubSeq(LastCells, r + 1, Len(LastCells))) = Len(LastCells) - r
      BY ONLY <3>3, <3>4, Rest
    <3>6. Len(wire) > 0
      BY <2>1, <3>4, <3>5 DEF ReadUpTo
    <3> QED
      BY <3>6
  <2>4. ~ReadEnds
    BY <2>3 DEF ReadEnds
  <2>5. PICK n \in ReadSizes :
              /\ Consume(n)
              /\ email' = Overlay(email, n)
              /\ \/ \E i \in MarkerAt(email') :
                      /\ \A j \in MarkerAt(email') : i <= j
                      /\ files' = [files EXCEPT ![Filename] = @ \o SubSeq(email', 1, i - 1)]
                      /\ pc' = "accept"
                 \/ /\ MarkerAt(email') = {}
                    /\ files' = [files EXCEPT ![Filename] = @ \o SubSeq(email', 1, n)]
                    /\ UNCHANGED pc
    BY <1>1, <2>4
  <2>6. Phase'
    BY <1>1, <2>1, <2>2, <2>5, MailChunk
  <2> QED
    BY <1>3, <2>6, NotAnswered DEF WaitInv
<1> QED
  BY <1>2, <1>4, <1>5

LEMMA AcceptPhase ==
  ASSUME IInv, WaitInv, client # "closed", Accept
  PROVE  WaitInv'
<1>1. /\ pc = "accept" /\ Reply("accepted", "read")
      /\ UNCHANGED <<client, sent, wire, buffer, email, files>>
  BY DEF Accept
<1>2. Storing \/ Unsent
  BY <1>1 DEF WaitInv, Phase, Greeting, Idle, Arrived, Understood, Opening, NotOpened, Misread,
              Waiting, Receiving, Over
<1>3. pc' = "read" /\ Len(replies') = Len(replies) + 1 /\ Last(replies)' = "accepted"
  BY <1>1, ReplyHeard DEF Codes, IInv
<1>4. CASE Storing
  <2>1. Idle'
    BY <1>1, <1>3, <1>4 DEF Storing, Idle, Pending, Replied
  <2>2. AcceptedSaved'
    BY <1>1, <1>4 DEF Storing, MailName, MailLast, MailFile, AcceptedSaved, Last
  <2> QED
    BY <1>1, <2>1, <2>2 DEF WaitInv, Phase, Settled
<1>5. CASE Unsent
  <2>1. Unsent'
    BY <1>1, <1>3, <1>5 DEF Unsent, CommandLast, Last
  <2>2. ~MailAccepted'
    BY <2>1 DEF Unsent, CommandLast, MailAccepted
  <2> QED
    BY <2>1, <2>2, NotAnswered DEF WaitInv, Phase
<1> QED
  BY <1>2, <1>4, <1>5

(* The client sends: it has the answer to what it said last.               *)
LEMMA SendPhase ==
  ASSUME Orderly, IInv, WaitInv, ClientSend
  PROVE  WaitInv'
<1> DEFINE M == CommandMessages \cup MailMessages
<1>1. /\ client = "open" /\ UNCHANGED <<client, replies, pc, buffer, email, files>>
      /\ Replied /\ Last(replies) # "221"
  BY DEF ClientSend, Orderly, Replied
<1>2. PICK msg \in M : /\ (msg.kind = "mail") = (Last(replies) = "354")
                       /\ sent' = Append(sent, msg)
                       /\ wire' = wire \o Cells(msg, Len(sent) + 1)
  BY DEF ClientSend, Orderly
<1>3. sent \in Seq(M) /\ Len(sent) \in Nat /\ replies \in Seq(Codes) /\ Len(replies) \in Nat
  <2>1. sent \in Seq(M) /\ replies \in Seq(Codes)
    BY DEF IInv, Types
  <2> HIDE DEF M
  <2> QED
    BY <2>1, LenProperties
<1> HIDE DEF M
<1>4. /\ sent' # <<>> /\ Len(sent') = Len(sent) + 1 /\ Last(sent)' = msg
      /\ \A i \in 1..Len(sent) : sent'[i] = sent[i]
  BY <1>2, <1>3, AppendProperties DEF Last
<1>5. Pending' /\ LastCells' = Cells(msg, Len(sent) + 1)
  BY <1>1, <1>3, <1>4 DEF Pending, Replied, LastCells
<1>6. ~MailAccepted'
  BY <1>3, <1>4, <1>5 DEF MailAccepted, Pending
<1>7. wire = <<>> => wire' = LastCells'
  <2>1. \E A : Cells(msg, Len(sent) + 1) \in Seq(A)
    <3>1. CASE msg.kind = "mail"
      BY <3>1, MessageFacts, MailCells DEF M
    <3>2. CASE msg.kind # "mail"
      <4>1. Cells(msg, Len(sent) + 1) = <<Header, Word(msg.kind), Arg(msg.arg)>>
        BY <3>2 DEF Cells
      <4>2. <<Header, Word(msg.kind), Arg(msg.arg)>> \in Seq({Header, Word(msg.kind), Arg(msg.arg)})
        <5>1. \A x, y, z : <<x, y, z>> \in Seq({x, y, z})
          OBVIOUS
        <5> QED
          BY <5>1, Zenon
      <4> QED
        BY <4>1, <4>2
    <3> QED
      BY <3>1, <3>2
  <2>2. PICK A : Cells(msg, Len(sent) + 1) \in Seq(A)
    BY <2>1
  <2>3. <<>> \o Cells(msg, Len(sent) + 1) = Cells(msg, Len(sent) + 1)
    BY ONLY <2>2, ConcatEmptySeq
  <2> QED
    BY <1>2, <1>5, <2>3
<1>8. CASE Over
  BY <1>1, <1>6, <1>8, NotAnswered DEF WaitInv, Phase, Over
<1>9. CASE Idle
  <2>1. wire' = LastCells' /\ CommandLast' /\ pc' = "read"
    BY <1>1, <1>2, <1>4, <1>7, <1>9 DEF Idle, CommandLast
  <2> QED
    BY <1>5, <1>6, <2>1, NotAnswered DEF WaitInv, Phase, Arrived
<1>10. CASE DataReplied
  <2>1. wire' = LastCells' /\ MailLast'
    BY <1>2, <1>4, <1>7, <1>10 DEF DataReplied, MailLast
  <2>2. MailAsked'
    BY <1>5, <2>1 DEF MailAsked
  <2>3. MailName' = MailName /\ Filename' = Filename /\ files'[MailName'] = files[MailName]
    <3>1. sent # <<>> /\ Len(sent) > 0 /\ ~MailLast
      BY <1>3, <1>10, EmptySeq DEF DataReplied, CommandLast, MailLast
    <3>2. Len(sent') - 1 = Len(sent) /\ sent'[Len(sent)] = sent[Len(sent)]
      BY <1>3, <1>4, <3>1
    <3> QED
      BY <1>1, <2>1, <3>1, <3>2 DEF MailName, MailFile, Last, Filename
  <2>4. CASE Opening
    <3>1. Opening'
      BY <1>1, <2>2, <2>3, <2>4 DEF Opening
    <3> QED
      BY <1>6, <3>1, NotAnswered DEF WaitInv, Phase
  <2>5. CASE NotOpened
    <3>1. NotOpened'
      BY <1>1, <2>2, <2>5 DEF NotOpened
    <3> QED
      BY <1>6, <3>1, NotAnswered DEF WaitInv, Phase
  <2>6. CASE Waiting
    <3>1. /\ msg \in CommandMessages \cup MailMessages /\ msg.kind = "mail"
          /\ LastCells' = Cells(msg, Len(sent) + 1)
      BY <1>4, <1>5, <2>1 DEF MailLast, M
    <3>2. /\ SubSeq(LastCells', 0 + 1, Len(LastCells')) = LastCells'
          /\ SubSeq(LastCells', 1, 0) = <<>>
          /\ 0 % BufferCells = 0 /\ 0 \in 0..(Len(Last(sent)'.text) + 1)
      BY <1>4, <3>1, NothingRead
    <3>3. ReadUpTo(0)'
      BY <2>1, <2>3, <2>6, <3>2 DEF ReadUpTo, Waiting
    <3>4. Receiving'
      BY <1>1, <1>5, <2>1, <2>3, <2>6, <3>2, <3>3 DEF Receiving, Waiting
    <3> QED
      BY <1>6, <3>4, NotAnswered DEF WaitInv, Phase
  <2>7. Opening \/ NotOpened \/ Waiting \/ Over
    <3>1. ~Pending
      BY <1>3, <1>10 DEF Pending, DataReplied, Replied
    <3>2. Phase /\ Last(replies) = "354" /\ replies # <<>> /\ wire = <<>> /\ client = "open"
      <4>1. replies # <<>>
        BY <1>1, <1>3 DEF Replied
      <4> QED
        BY <1>1, <1>10, <4>1 DEF WaitInv, DataReplied
    <3> QED
      BY <1>1, <3>1, <3>2 DEF Phase, Greeting, Idle, Arrived, Understood, Misread,
                              Receiving, Storing, Unsent
  <2> QED
    BY <1>8, <2>4, <2>5, <2>6, <2>7
<1>11. Over \/ Idle \/ DataReplied
  <2>1. ~Pending /\ replies # <<>>
    BY <1>1, <1>3 DEF Pending, Replied
  <2> QED
    BY <1>1, <2>1 DEF WaitInv, Phase, Greeting, Arrived, Understood, Opening, NotOpened, Misread,
                      MailAsked, Waiting, Receiving, Storing, Unsent
<1> QED
  BY <1>8, <1>9, <1>10, <1>11

(* The client closes: nothing of what was accepted is left to read.        *)
LEMMA ClosePhase ==
  ASSUME IInv, WaitInv, ClientClose
  PROVE  WaitInv'
<1>1. /\ UNCHANGED <<sent, wire, replies, pc, buffer, email, files>>
      /\ client # "closed"
      /\ client' = "closed" \/ (client = "open" /\ client' = "halfclosed")
  BY DEF ClientClose
<1>2. AcceptedSaved' /\ (MailAccepted' <=> MailAccepted)
  BY <1>1, FilesKept DEF WaitInv
<1>3. Phase
  BY <1>1 DEF WaitInv
<1>4. CASE client' = "closed"
  <2>1. MailAccepted => Over \/ (pc = "read" /\ wire = <<>>)
    <3> SUFFICES ASSUME MailAccepted PROVE Over \/ (pc = "read" /\ wire = <<>>)
      OBVIOUS
    <3>1. sent # <<>> /\ ~CommandLast /\ ~Pending
      <4>1. sent # <<>> /\ Last(sent).kind = "mail" /\ Len(replies) > Len(sent)
        BY DEF MailAccepted
      <4>2. Len(sent) \in Nat
        BY <4>1, LastSent DEF IInv
      <4> QED
        BY <4>1, <4>2 DEF CommandLast, Pending
    <3> QED
      BY <1>3, <3>1 DEF Phase, Greeting, Idle, Arrived, Understood, Opening, NotOpened, Misread,
                        MailAsked, DataReplied, Waiting, Receiving, Storing, Unsent
  <2>2. Settled'
    BY <1>1, <1>2, <2>1 DEF Settled, Over
  <2> QED
    BY <1>2, <1>4, <2>2 DEF WaitInv
<1>5. CASE client = "open" /\ client' = "halfclosed"
  <2>0. /\ MailName' = MailName /\ LastCells' = LastCells /\ Last(sent)' = Last(sent)
        /\ (Pending' <=> Pending) /\ (Replied' <=> Replied)
        /\ (CommandLast' <=> CommandLast) /\ (MailLast' <=> MailLast)
        /\ Parsed' = Parsed /\ Filename' = Filename /\ Last(replies)' = Last(replies)
    BY <1>1 DEF Pending, Replied, CommandLast, MailLast, LastCells, MailName, MailFile,
                Filename, Parsed, Last
  <2>a. Greeting => Greeting'
    BY <1>1 DEF Greeting
  <2>b. Idle => Idle'
    BY <1>1, <2>0 DEF Idle
  <2>c. Arrived => Arrived'
    BY <1>1, <2>0 DEF Arrived
  <2>d. Understood => Understood'
    BY <1>1, <2>0 DEF Understood
  <2>e. (DataReplied <=> DataReplied') /\ (MailAsked => MailAsked')
    BY <1>1, <2>0 DEF MailAsked, DataReplied
  <2>f. (Opening => Opening') /\ (NotOpened => NotOpened')
    BY <1>1, <2>0, <2>e DEF Opening, NotOpened
  <2>g. Misread => Misread'
    BY <1>1, <2>0 DEF Misread, ValidFilename, Filename, Begins
  <2>h. Waiting => Waiting'
    BY <1>1, <2>0, <2>e DEF Waiting
  <2>i. Receiving => Receiving'
    BY <1>1, <2>0 DEF Receiving, ReadUpTo
  <2>j. Storing => Storing'
    BY <1>1, <2>0 DEF Storing
  <2>k. ~Unsent /\ (Over => Over')
    BY <1>1, <1>5 DEF Unsent, Over
  <2>1. Phase'
    BY <1>3, <2>a, <2>b, <2>c, <2>d, <2>f, <2>g, <2>h, <2>i, <2>j, <2>k DEF Phase
  <2> QED
    BY <1>2, <1>5, <2>1 DEF WaitInv, Settled
<1> QED
  BY <1>1, <1>4, <1>5

LEMMA PhaseStep ==
  ASSUME Orderly, IInv, WaitInv, [Next]_vars
  PROVE  WaitInv'
<1>0. Types
  BY DEF IInv
<1>1. CASE Client
  BY <1>1, SendPhase, ClosePhase DEF Client
<1>2. CASE Server /\ client = "closed"
  BY <1>0, <1>2, ClosedStep
<1>3. CASE Server /\ client # "closed"
  BY <1>0, <1>3, GreetPhase, ReadPhase, HelloPhase, DataPhase, OpenPhase, MailPhase, AcceptPhase,
     QuitPhase, UnknownPhase DEF Server
<1>4. CASE UNCHANGED vars
  BY <1>4 DEF vars, WaitInv, Settled, AcceptedSaved, MailAccepted, Phase, Greeting, Idle, Arrived,
              Understood, Opening, NotOpened, Misread,
              MailAsked, DataReplied, Waiting, Receiving, ReadUpTo, Storing, Unsent, Over,
              Pending, Replied, CommandLast, MailLast, LastCells, MailName, MailFile,
              Filename, ValidFilename, Begins, Parsed, Last
<1> QED
  BY <1>1, <1>2, <1>3, <1>4 DEF Next

(* What was accepted is on disk, whole, whatever the client does after a   *)
(* reply and whichever fopen fails, if no read ends between the text and   *)
(* the zero and a mail that begins like a command comes in one read        *)
(* (main.c:259-314).                                                       *)
THEOREM AcceptedIsSaved ==
  ASSUME Orderly
  PROVE  Spec => []AcceptedSaved
<1>1. IInv /\ WaitInv /\ [Next]_vars => WaitInv'
  BY PhaseStep
<1>2. WaitInv => AcceptedSaved
  BY DEF WaitInv
<1> QED
  BY EwpInductive, InitPhase, <1>1, <1>2, PTL DEF Spec
-----------------------------------------------------------------------------
(* The session *)

(* What the session of EwpSession sees of the state. *)
Asking == [i \in 1..Len(sent) |-> Request(sent[i])]

NotHalfClosed == client # "halfclosed"

LEMMA AskingAppend ==
  ASSUME NEW M, NEW s \in Seq(M), NEW msg \in M
  PROVE  [i \in 1..Len(Append(s, msg)) |-> Request(Append(s, msg)[i])]
           = Append([i \in 1..Len(s) |-> Request(s[i])], Request(msg))
<1> DEFINE K == {Request(x) : x \in M}
           t == Append(s, msg)
           k == [i \in 1..Len(s) |-> Request(s[i])]
           u == [i \in 1..Len(t) |-> Request(t[i])]
           v == Append(k, Request(msg))
<1>1. /\ t \in Seq(M) /\ Len(t) = Len(s) + 1 /\ Len(s) \in Nat
      /\ t[Len(s) + 1] = msg /\ \A i \in 1..Len(s) : t[i] = s[i]
  BY AppendProperties, LenProperties
<1>2. (\A i \in 1..Len(s) : Request(s[i]) \in K) /\ Request(msg) \in K
  BY ElementOfSeq
<1> HIDE DEF K, t
<1>3. k \in Seq(K) /\ Len(k) = Len(s) /\ \A i \in 1..Len(s) : k[i] = Request(s[i])
  <2>1. k \in Seq(K)
    BY <1>1, <1>2
  <2> QED
    BY <1>1, <2>1
<1> HIDE DEF k
<1>4. /\ v \in Seq(K) /\ Len(v) = Len(k) + 1
      /\ v[Len(k) + 1] = Request(msg) /\ \A i \in 1..Len(k) : v[i] = k[i]
  BY <1>2, <1>3, AppendProperties
<1> HIDE DEF v
<1>5. \A i \in 1..Len(t) : Request(t[i]) = v[i]
  BY <1>1, <1>3, <1>4
<1>6. v = [i \in 1..Len(t) |-> v[i]]
  <2>1. DOMAIN v = 1..Len(t) /\ v \in [1..Len(v) -> K]
    BY <1>1, <1>3, <1>4, LenProperties
  <2> QED
    BY <2>1
<1>7. u = v
  BY <1>5, <1>6
<1> QED
  BY <1>7 DEF t, k, v

LEMMA AskingFacts ==
  ASSUME Types
  PROVE  /\ Len(Asking) = Len(sent) /\ Len(sent) \in Nat
         /\ sent = <<>> <=> Asking = <<>>
         /\ sent # <<>> => Asking[Len(Asking)] = Request(Last(sent))
<1> DEFINE M == CommandMessages \cup MailMessages
<1>1. sent \in Seq(M)
  BY DEF Types
<1> HIDE DEF M
<1>2. Len(sent) \in Nat /\ (sent = <<>> <=> Len(sent) = 0)
  BY <1>1, EmptySeq, LenProperties
<1>3. Asking \in Seq({Request(x) : x \in M}) /\ Len(Asking) = Len(sent)
  <2> DEFINE K == {Request(x) : x \in M}
  <2>1. \A i \in 1..Len(sent) : Request(sent[i]) \in K
    BY <1>1, ElementOfSeq
  <2> HIDE DEF K
  <2>2. Asking \in Seq(K) /\ Len(Asking) = Len(sent)
    BY <1>2, <2>1 DEF Asking
  <2> QED
    BY <2>2 DEF K
<1>4. Asking = <<>> <=> Len(Asking) = 0
  BY <1>3, EmptySeq
<1>5. sent # <<>> => Asking[Len(sent)] = Request(sent[Len(sent)])
  BY <1>2 DEF Asking
<1> QED
  BY <1>2, <1>3, <1>4, <1>5 DEF Last

LEMMA SessionInit == Init => Session!Init
<1> SUFFICES ASSUME Init PROVE Session!Init
  OBVIOUS
<1>1. sent = <<>> /\ replies = <<>> /\ client = "open" /\ pc = "greet"
  BY DEF Init
<1>2. Asking = <<>>
  <2>1. Len(sent) = 0
    BY <1>1
  <2> QED
    BY <2>1 DEF Asking
<1> QED
  BY <1>1, <1>2 DEF Session!Init, Asking, Over

(* A step that leaves what was said and the end of the server alone is     *)
(* none of the session.                                                    *)
LEMMA SessionStutter ==
  ASSUME UNCHANGED <<sent, replies, client>>, Over' <=> Over
  PROVE  UNCHANGED Session!vars
BY DEF Session!vars

(* The client is gone, and the server ends or goes on. *)
LEMMA SessionClosed ==
  ASSUME client = "closed", Server
  PROVE  [Session!Next]_(Session!vars)
<1>1. client' = client /\ sent' = sent /\ ~Over
  BY DEF Server, Greet, ReadCommand, Hello, DataCommand, OpenFile, ReadMail, Accept, Quit, Unknown, Over
<1>2. replies' = replies
  BY DEF Server, Greet, ReadCommand, Hello, DataCommand, OpenFile, ReadMail, Accept, Quit, Unknown, Reply
<1>3. CASE ~Over'
  BY <1>1, <1>2, <1>3, SessionStutter
<1>4. CASE Over'
  <2>1. Session!Close
    BY <1>1, <1>2, <1>4 DEF Session!Close
  <2> QED
    BY <2>1 DEF Session!Next
<1> QED
  BY <1>3, <1>4

(* The answer to the last request. *)
LEMMA SessionAnswer ==
  ASSUME Types, client # "closed", ~Over, Pending, sent # <<>>,
         NEW code \in Session!Codes(Request(Last(sent))) \cap Codes, NEW next,
         next \in {"ended", "killed"} <=> code = "221",
         Reply(code, next), UNCHANGED <<client, sent>>
  PROVE  Session!Next
<1>1. replies' = Append(replies, code) /\ pc' = next
  BY DEF Reply
<1>2. /\ Asking # <<>> /\ Len(replies) = Len(Asking)
      /\ Asking[Len(Asking)] = Request(Last(sent))
  BY AskingFacts DEF Pending
<1>3. Session!Pending
  BY <1>2 DEF Session!Pending, Asking
<1>4. (~Over)' = (code # "221")
  BY <1>1 DEF Over
<1>5. code \in Session!Codes(Asking[Len(Asking)])
  BY <1>2
<1>6. Asking' = Asking
  BY DEF Asking
<1>7. Session!Answer
  BY <1>1, <1>3, <1>4, <1>5, <1>6 DEF Session!Answer, Asking
<1> QED
  BY <1>7 DEF Session!Next

LEMMA SessionAsk ==
  ASSUME Orderly, Types, ClientSend
  PROVE  Session!Next
<1> DEFINE M == CommandMessages \cup MailMessages
<1>1. /\ client = "open" /\ UNCHANGED <<client, replies, pc>>
      /\ Len(replies) = Len(sent) + 1
  BY DEF ClientSend, Orderly
<1>2. PICK msg \in M : sent' = Append(sent, msg)
  BY DEF ClientSend
<1>3. sent \in Seq(M)
  BY DEF Types
<1>4. Request(msg) \in Session!Questions
  BY <1>2, BeginsTyped DEF Request, Session!Questions, Session!Words, Commands
<1> HIDE DEF M
<1>5. Asking' = Append(Asking, Request(msg))
  <2>1. [i \in 1..Len(Append(sent, msg)) |-> Request(Append(sent, msg)[i])]
          = Append([i \in 1..Len(sent) |-> Request(sent[i])], Request(msg))
    BY <1>3, AskingAppend
  <2> QED
    BY <1>2, <2>1, Zenon DEF Asking
<1>6. Len(replies) = Len(Asking) + 1
  BY <1>1, AskingFacts
<1>7. Over' <=> Over
  BY <1>1 DEF Over
<1>8. Session!Ask
  BY <1>1, <1>4, <1>5, <1>6, <1>7 DEF Session!Ask, Asking
<1> QED
  BY <1>8 DEF Session!Next

LEMMA SessionServer ==
  ASSUME Orderly, IInv, WaitInv, NotHalfClosed, client # "closed", Server
  PROVE  [Session!Next]_(Session!vars)
<1>0. Types /\ client = "open" /\ ~ReadEnds
  BY DEF IInv, Types, NotHalfClosed, ReadEnds
<1>1. CASE Greet
  <2>1. pc = "greet" /\ Reply("220", "read") /\ UNCHANGED <<client, sent>>
    BY <1>1 DEF Greet
  <2>2. sent = <<>> /\ replies = <<>>
    BY <2>1 DEF WaitInv, Phase, Greeting, Idle, Arrived, Understood, Opening, NotOpened, Misread,
                Waiting, Receiving, Storing, Unsent, Over
  <2>3. Asking = <<>> /\ Asking' = Asking
    BY <1>0, <2>1, <2>2, AskingFacts DEF Asking
  <2>4. replies' = <<"220">> /\ pc' = "read"
    BY <1>0, <2>1, <2>2 DEF Reply
  <2>5. Session!Greet
    BY <2>1, <2>2, <2>3, <2>4 DEF Session!Greet, Asking, Over
  <2> QED
    BY <2>5 DEF Session!Next
<1>2. CASE ReadCommand
  <2>1. pc = "read" /\ pc' = "parse" /\ UNCHANGED <<client, sent, replies>>
    BY <1>0, <1>2 DEF ReadCommand
  <2> QED
    BY <2>1, SessionStutter DEF Over
<1>3. CASE Hello
  <2>1. /\ pc = "parse" /\ Parsed \in {"HELO", "MAIL FROM", "RCPT TO"}
        /\ Reply("250", "read") /\ UNCHANGED <<client, sent>>
    BY <1>3 DEF Hello
  <2>2. Pending /\ sent # <<>> /\ Request(Last(sent)).word = Parsed
    BY <2>1, Served DEF Request
  <2>3. "250" \in Session!Codes(Request(Last(sent))) \cap Codes
    BY <2>1, <2>2 DEF Session!Codes, Session!CodesOf, Codes
  <2> QED
    BY <1>0, <2>1, <2>2, <2>3, SessionAnswer DEF Over
<1>4. CASE DataCommand
  <2>1. /\ pc = "parse" /\ Parsed = "DATA" /\ UNCHANGED <<client, sent>>
        /\ IF ValidFilename THEN Reply("354", "open") ELSE Reply("501", "read")
    BY <1>4 DEF DataCommand
  <2>2. /\ Pending /\ sent # <<>> /\ Request(Last(sent)).word = "DATA"
        /\ ValidFilename => ~Request(Last(sent)).mail
    BY <2>1, Served DEF Request, CommandLast, MailLast
  <2>3. /\ "501" \in Session!Codes(Request(Last(sent))) \cap Codes
        /\ ValidFilename => "354" \in Session!Codes(Request(Last(sent))) \cap Codes
    BY <2>2 DEF Session!Codes, Session!CodesOf, Codes
  <2>4. CASE ValidFilename
    BY <1>0, <2>1, <2>2, <2>3, <2>4, SessionAnswer DEF Over
  <2>5. CASE ~ValidFilename
    BY <1>0, <2>1, <2>2, <2>3, <2>5, SessionAnswer DEF Over
  <2> QED
    BY <2>4, <2>5
<1>5. CASE OpenFile
  <2>1. pc = "open" /\ pc' \in {"data", "read"} /\ UNCHANGED <<client, sent, replies>>
    BY <1>5 DEF OpenFile
  <2> QED
    BY <2>1, SessionStutter DEF Over
<1>6. CASE ReadMail
  <2>1. pc = "data" /\ pc' \in {"data", "accept"} /\ UNCHANGED <<client, sent, replies>>
    BY <1>0, <1>6 DEF ReadMail
  <2> QED
    BY <2>1, SessionStutter DEF Over
<1>7. CASE Accept
  <2>1. pc = "accept" /\ Reply("accepted", "read") /\ UNCHANGED <<client, sent>>
    BY <1>7 DEF Accept
  <2>2. Storing
    BY <1>0, <2>1 DEF WaitInv, Phase, Greeting, Idle, Arrived, Understood, Opening, NotOpened, Misread,
                Waiting, Receiving, Unsent, Over
  <2>3. Pending /\ sent # <<>> /\ Last(sent).kind = "mail"
    BY <2>2 DEF Storing, MailLast
  <2>4. "accepted" \in Session!Codes(Request(Last(sent))) \cap Codes
    BY <2>3 DEF Session!Codes, Request, Codes
  <2> QED
    BY <1>0, <2>1, <2>3, <2>4, SessionAnswer DEF Over
<1>8. CASE Quit
  <2>1. /\ pc = "parse" /\ Parsed = "QUIT" /\ Reply("221", "ended")
        /\ UNCHANGED <<client, sent>>
    BY <1>8 DEF Quit
  <2>2. Pending /\ sent # <<>> /\ Request(Last(sent)).word = "QUIT"
    BY <2>1, Served DEF Request
  <2>3. "221" \in Session!Codes(Request(Last(sent))) \cap Codes
    BY <2>2 DEF Session!Codes, Session!CodesOf, Codes
  <2> QED
    BY <1>0, <2>1, <2>2, <2>3, SessionAnswer DEF Over
<1>9. CASE Unknown
  <2>1. /\ pc = "parse" /\ Parsed = "other" /\ pc' = "ended"
        /\ UNCHANGED <<client, sent, replies>>
    BY <1>9 DEF Unknown
  <2>2. Understood \/ Misread
    BY <1>0, <2>1 DEF WaitInv, Phase, Greeting, Idle, Arrived, Opening, NotOpened,
                Waiting, Receiving, Storing, Unsent, Over
  <2>3. Pending /\ sent # <<>> /\ Request(Last(sent)).word = "other"
    <3>1. CASE Understood
      BY <2>1, <3>1, Tags DEF Understood, CommandLast, Parsed, Request, Begins
    <3>2. CASE Misread
      BY <2>1, <3>2 DEF Misread, MailLast, Request
    <3> QED
      BY <2>2, <3>1, <3>2
  <2>4. Session!Pending /\ Asking[Len(Asking)].word = "other"
    BY <1>0, <2>3, AskingFacts DEF Session!Pending, Asking, Pending
  <2>5. Asking' = Asking /\ Over' /\ ~Over
    BY <2>1 DEF Asking, Over
  <2>6. Session!Close
    BY <1>0, <2>1, <2>4, <2>5 DEF Session!Close, Asking
  <2> QED
    BY <2>6 DEF Session!Next
<1> QED
  BY <1>1, <1>2, <1>3, <1>4, <1>5, <1>6, <1>7, <1>8, <1>9 DEF Server

LEMMA SessionStep ==
  ASSUME Orderly, IInv, WaitInv, NotHalfClosed, NotHalfClosed', [Next]_vars
  PROVE  [Session!Next]_(Session!vars)
<1>1. CASE ClientSend
  BY <1>1, SessionAsk DEF IInv
<1>2. CASE ClientClose
  <2>1. /\ UNCHANGED <<sent, replies, pc>> /\ client' = "closed" /\ client # "closed"
    BY <1>2 DEF ClientClose, NotHalfClosed
  <2>2. Asking' = Asking /\ (Over' <=> Over)
    BY <2>1 DEF Asking, Over
  <2>3. Session!Leave
    BY <2>1, <2>2 DEF Session!Leave, Asking
  <2> QED
    BY <2>3 DEF Session!Next
<1>3. CASE Server
  BY <1>3, SessionClosed, SessionServer
<1>4. CASE UNCHANGED vars
  BY <1>4, SessionStutter DEF vars, Over
<1> QED
  BY <1>1, <1>2, <1>3, <1>4 DEF Next, Client

(* To a client that waits and does not close one side alone, the server    *)
(* is the session of the protocol list (communication.c:28-33): one answer *)
(* of a fitting code to each request, in order; a mail whose file could    *)
(* not be opened gets the one of the command it begins with, if any.       *)
THEOREM ImplementsSession ==
  ASSUME Orderly, ~HalfCloses
  PROVE  Spec => SessionSpec
<1>1. IInv /\ WaitInv /\ [Next]_vars => WaitInv'
  BY PhaseStep
<1>2. Init => NotHalfClosed
  BY DEF Init, NotHalfClosed
<1>3. NotHalfClosed /\ [Next]_vars => NotHalfClosed'
  BY DEF NotHalfClosed, Next, Client, ClientSend, ClientClose, Server, Greet, ReadCommand, Hello,
         DataCommand, OpenFile, ReadMail, Accept, Quit, Unknown, vars
<1>4. IInv /\ WaitInv /\ NotHalfClosed /\ NotHalfClosed' /\ [Next]_vars
        => [Session!Next]_(Session!vars)
  BY SessionStep
<1> QED
  BY EwpInductive, InitPhase, SessionInit, <1>1, <1>2, <1>3, <1>4, PTL
  DEF Spec, SessionSpec, Session!Spec
=============================================================================
