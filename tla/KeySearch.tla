----------------------------- MODULE KeySearch -----------------------------
(***************************************************************************)
(* Task 6: the client receives an enciphered file until the server closes, *)
(* strips an HTTP header, and tries every key that is one byte repeated    *)
(* until the result looks like text and ends in a padding.                 *)
(*                                                                         *)
(* The server and the network are external: the server pads and enciphers  *)
(* a text with such a key, and sends as much of it as it likes.            *)
(***************************************************************************)
EXTENDS Tea, Padding, SequencesExt

CONSTANTS Pack(_), Unpack(_),   \* the bytes of a word in memory, to the word and back
          Printable,            \* the bytes isprint or isspace accept
          Texts, Keys,          \* what the server may encipher, and with which keys
          Headers,              \* what it may send in front
          Http, Terminator,     \* "HTTP" and the empty line that ends a header
          BufferSize,           \* BUFFER_SIZE: what one recv takes at most
          KeyLimit              \* KEY_LIMIT: 256

HalfBlock == BlockSize \div 2
WordBytes == [1..HalfBlock -> Byte]

ASSUME PackAssumption ==
  /\ BlockSize = 2 * HalfBlock
  /\ \A b \in WordBytes : Pack(b) \in Word /\ Unpack(Pack(b)) = b
  /\ \A w \in Word : Unpack(w) \in WordBytes /\ Pack(Unpack(w)) = w
(* A text has no byte that could be taken for padding. *)
ASSUME TextAssumption == \A t \in Texts : t \in Seq((BlockSize + 1)..(ByteSize - 1))
(* Nor does a padding look like text: its bytes are 1 to 8. *)
ASSUME PrintableAssumption == Printable \cap 1..BlockSize = {}
ASSUME HeaderAssumption == /\ Headers \subseteq Seq(Byte)
                           /\ Http \in Seq(Byte) /\ Terminator \in Seq(Byte)
ASSUME LimitAssumption == KeyLimit \in 1..ByteSize /\ Keys \subseteq 0..(KeyLimit - 1)
                          /\ BufferSize \in Nat \ {0}

VARIABLES text, skey, header, stream,   \* the server: what it sends, fixed from the start
          sent, open,                   \* how much of it left, and whether there may be more
          pc, file_data, decrypted,     \* the client
          key_byte,
          found_key, successful_key, status,
          saved                         \* decrypted.txt, if this run wrote it

server == <<text, skey, header, stream, sent, open>>
fixed  == <<text, skey, header, stream>>
vars == <<server, pc, file_data, decrypted, key_byte, found_key, successful_key, status, saved>>

NoFile == <<-1>>

-----------------------------------------------------------------------------
(* Blocks *)

(* The two words of block b (0, 1, ...) of the data, and their bytes again. *)
WordsAt(data, b) == <<Pack([j \in 1..HalfBlock |-> data[b * BlockSize + j]]),
                      Pack([j \in 1..HalfBlock |-> data[b * BlockSize + HalfBlock + j]])>>
ByteOf(w, j) == IF j <= HalfBlock THEN Unpack(w[1])[j] ELSE Unpack(w[2])[j - HalfBlock]

(* (total_bytes / 8) * 8 *)
Aligned(n) == (n \div BlockSize) * BlockSize

(* Whole blocks, each word by word; what is behind the last whole block is *)
(* left out.                                                               *)
Encrypted(data, k) ==
  LET w == [b \in 0..(Len(data) \div BlockSize - 1) |-> encipher(WordsAt(data, b), k)]
  IN [i \in 1..Aligned(Len(data)) |->
        ByteOf(w[(i - 1) \div BlockSize], ((i - 1) % BlockSize) + 1)]

Decrypted(data, k) ==
  LET w == [b \in 0..(Len(data) \div BlockSize - 1) |-> decipher(WordsAt(data, b), k)]
  IN [i \in 1..Aligned(Len(data)) |->
        ByteOf(w[(i - 1) \div BlockSize], ((i - 1) % BlockSize) + 1)]

(* All four words of the key are the key byte, repeated. *)
KeyOf(byte) == [i \in 0..3 |-> Pack([j \in 1..HalfBlock |-> byte])]

(* Bug: half of the window is enough. *)
is_likely_valid_text_Half(data) ==
  LET check_size == IF Len(data) < 4 * BlockSize THEN Len(data) ELSE 4 * BlockSize
  IN 2 * Cardinality({i \in 1..check_size : data[i] \in Printable}) >= check_size

(* Three quarters of the first 32 bytes (four blocks), or of what there is. *)
is_likely_valid_text(data) ==
  LET check_size == IF Len(data) < 4 * BlockSize THEN Len(data) ELSE 4 * BlockSize
  IN 4 * Cardinality({i \in 1..check_size : data[i] \in Printable}) >= 3 * check_size

-----------------------------------------------------------------------------
(* The server *)

Init == /\ text \in Texts /\ skey \in Keys /\ header \in Headers
        /\ stream = header \o Encrypted(pkcs5_pad(text), KeyOf(skey))
        /\ header = <<>> => ~IsPrefix(Http, stream)
        /\ sent = 0 /\ open = TRUE
        /\ pc = "connect" /\ file_data = <<>>
        /\ decrypted = <<>> /\ key_byte = 0
        /\ found_key = FALSE /\ successful_key = 0
        /\ status = "running" /\ saved = NoFile

ClientFrame == UNCHANGED <<pc, file_data, decrypted, key_byte, found_key, successful_key, status, saved>>

Send == /\ open /\ pc # "connect"
        /\ \E n \in (sent + 1)..Len(stream) : sent' = n
        /\ UNCHANGED <<fixed, open>> /\ ClientFrame

(* The server closes, after the whole stream or before, or the connection  *)
(* is reset, and what was on its way is lost.                              *)
Close == /\ open /\ pc # "connect"
         /\ open' = FALSE
         /\ sent' \in {sent, IF pc = "recv" THEN Len(file_data) ELSE sent}
         /\ UNCHANGED fixed /\ ClientFrame

-----------------------------------------------------------------------------
(* The client *)

Search == <<decrypted, key_byte, found_key, successful_key, saved>>

Goto(place) == pc' = place /\ UNCHANGED status

(* Bug: the program ends without an exit status. *)
Exit_NoStatus(how) == pc' = "done" /\ UNCHANGED status

Exit(how) == pc' = "done" /\ status' = how

(* Arguments, socket and connect: any of them may fail. *)
Connect == /\ pc = "connect"
           /\ Goto("recv") \/ Exit("exit 1")
           /\ UNCHANGED <<server, file_data, Search>>

(* One recv, appended to what is there, if realloc has memory for it. *)
Recv == /\ pc = "recv"
        /\ \E n \in 1..BufferSize :
             /\ Len(file_data) + n <= sent
             /\ \/ file_data' = file_data \o SubSeq(stream, Len(file_data) + 1, Len(file_data) + n)
                   /\ Goto("recv")
                \/ Exit("exit 1") /\ UNCHANGED file_data
        /\ UNCHANGED <<server, Search>>

(* Bug: only the whole stream ends the loop. *)
RecvEnds_Whole == /\ pc = "recv" /\ ~open /\ Len(file_data) = Len(stream)
                  /\ IF file_data = <<>> THEN Exit("exit 1") ELSE Goto("extract")
                  /\ UNCHANGED <<server, file_data, Search>>

(* recv returns 0 or -1: the loop ends, and the socket is closed. *)
RecvEnds == /\ pc = "recv" /\ ~open /\ Len(file_data) = sent
            /\ IF file_data = <<>> THEN Exit("exit 1") ELSE Goto("extract")
            /\ UNCHANGED <<server, file_data, Search>>

(* Bug: the body begins with the end of the header. *)
Bodies_KeepsTerminator(data) ==
  LET at == {i \in 1..(Len(data) - Len(Terminator) + 1) :
               /\ SubSeq(data, i, i + Len(Terminator) - 1) = Terminator
               /\ \A j \in 1..i : data[j] # 0}
  IN {SubSeq(data, i, Len(data)) : i \in {i \in at : \A j \in at : i <= j}}

(* strstr: what is behind the first terminator, if there is one before the *)
(* first zero byte; at most one element.                                   *)
Bodies(data) ==
  LET at == {i \in 1..(Len(data) - Len(Terminator) + 1) :
               /\ SubSeq(data, i, i + Len(Terminator) - 1) = Terminator
               /\ \A j \in 1..i : data[j] # 0}
  IN {SubSeq(data, i + Len(Terminator), Len(data)) : i \in {i \in at : \A j \in at : i <= j}}

HasHeader == Len(file_data) > Len(Http) /\ IsPrefix(Http, file_data)

(* A header is cut off if its end was received, and malloc has memory for  *)
(* the body.  If neither its end nor a zero byte was, strstr runs on       *)
(* behind the buffer: it finds a zero, or a terminator, after which the    *)
(* size of the body is negative and malloc refuses it, or memory that is   *)
(* not there.                                                              *)
Extract ==
  /\ pc = "extract"
  /\ IF ~HasHeader THEN Goto("prepare") /\ UNCHANGED file_data
     ELSE \/ \E body \in Bodies(file_data) : file_data' = body /\ Goto("prepare")
          \/ Bodies(file_data) # {} /\ Exit("exit 1") /\ UNCHANGED file_data
          \/ Bodies(file_data) = {} /\ Goto("prepare") /\ UNCHANGED file_data
          \/ /\ Bodies(file_data) = {} /\ \A i \in DOMAIN file_data : file_data[i] # 0
             /\ \E how \in {"exit 1", "crashed"} : Exit(how)
             /\ UNCHANGED file_data
  /\ UNCHANGED <<server, Search>>

(* malloc of the decrypted copy may fail as well. *)
Prepare == /\ pc = "prepare"
           /\ \/ Aligned(Len(file_data)) # 0 /\ Goto("decrypt")
              \/ Exit("exit 1")
           /\ UNCHANGED <<server, file_data, Search>>

(* The data is deciphered with the next key. *)
TryKey == /\ pc = "decrypt"
          /\ decrypted' = Decrypted(file_data, KeyOf(key_byte))
          /\ Goto("validate")
          /\ UNCHANGED <<server, file_data, key_byte, found_key, successful_key, saved>>

(* Bug: what looks like text is saved without a padding, too. *)
Validate_AnyEnd ==
  /\ pc = "validate"
  /\ IF is_likely_valid_text(decrypted)
     THEN /\ saved' \in {NoFile, SubSeq(decrypted, 1, remove_pkcs5_padding(decrypted))}
          /\ successful_key' = key_byte /\ found_key' = TRUE
          /\ Goto("report") /\ UNCHANGED key_byte
     ELSE /\ key_byte' = key_byte + 1
          /\ Goto(IF key_byte' = KeyLimit THEN "report" ELSE "decrypt")
          /\ UNCHANGED <<saved, found_key, successful_key>>
  /\ UNCHANGED <<server, file_data, decrypted>>

(* The result is tested and saved, or the search goes on.  The key counts  *)
(* as found even if decrypted.txt cannot be opened; a text without padding *)
(* sets successful_key, and the search goes on.                            *)
Validate ==
  LET likely      == is_likely_valid_text(decrypted)
      actual_size == remove_pkcs5_padding(decrypted)
  IN /\ pc = "validate"
     /\ successful_key' = IF likely THEN key_byte ELSE successful_key
     /\ IF likely /\ actual_size < Len(decrypted)
        THEN /\ saved' \in {NoFile, SubSeq(decrypted, 1, actual_size)}
             /\ found_key' = TRUE /\ Goto("report") /\ UNCHANGED key_byte
        ELSE /\ key_byte' = key_byte + 1
             /\ Goto(IF key_byte' = KeyLimit THEN "report" ELSE "decrypt")
             /\ UNCHANGED <<saved, found_key>>
     /\ UNCHANGED <<server, file_data, decrypted>>

(* The program ends with 0, found or not. *)
Report == /\ pc = "report" /\ Exit("exit 0")
          /\ UNCHANGED <<server, file_data, Search>>

Client == Connect \/ Recv \/ RecvEnds \/ Extract \/ Prepare \/ TryKey \/ Validate \/ Report

Next == Send \/ Close \/ Client

Spec == Init /\ [][Next]_vars
FairSpec == Spec /\ WF_vars(Client)

-----------------------------------------------------------------------------
(* The properties *)

Cipher == SubSeq(stream, Len(header) + 1, Len(stream))

TypeOK ==
  /\ text \in Texts /\ skey \in Keys /\ header \in Headers /\ stream \in Seq(Byte)
  /\ sent \in 0..Len(stream) /\ open \in BOOLEAN
  /\ pc \in {"connect", "recv", "extract", "prepare", "decrypt", "validate", "report", "done"}
  /\ status \in {"running", "exit 0", "exit 1", "crashed"}
  /\ status = "running" <=> pc # "done"
  /\ file_data \in Seq(Byte) /\ decrypted \in Seq(Byte)
  /\ key_byte \in 0..KeyLimit /\ successful_key \in 0..(KeyLimit - 1)
  /\ pc \in {"decrypt", "validate"} => key_byte < KeyLimit /\ ~found_key
  /\ found_key \in BOOLEAN /\ (saved = NoFile \/ saved \in Seq(Byte))

(* A transfer that was cut short leaves no part of the text behind: if the *)
(* server's key is taken, the client had the whole ciphertext, and what it *)
(* saved, if the file could be opened, is the whole text.  (A cut in a     *)
(* block is rounded down; a cut between blocks leaves a last byte that is  *)
(* no padding, main.c:212-239.)                                            *)
NoPartialText ==
  found_key /\ successful_key = skey /\ IsPrefix(file_data, Cipher)
    => file_data = Cipher /\ saved \in {NoFile, text}

(* The server's header never reaches the cipher: once its end has arrived, *)
(* what the keys are tried on is the rest of what was received, without a  *)
(* byte of the header and with every byte behind it (main.c:162-192).      *)
BodyOnly ==
  pc \in {"prepare", "decrypt", "validate", "report"} /\ sent >= Len(header)
    => file_data = SubSeq(stream, Len(header) + 1, sent)

AllReceived == status = "exit 0" /\ file_data = Cipher

(* The search finds a key for every text of printable characters that is   *)
(* three blocks or longer: the server's, unless a lower one passes the     *)
(* test first, which a wrong key may (main.c:14-26, 222-266).              *)
RightKeyFound ==
  AllReceived /\ Range(text) \subseteq Printable /\ Len(text) >= 3 * BlockSize
    => found_key /\ successful_key <= skey

(* The padding counts as unreadable: a text that fills less than three     *)
(* quarters of a block is never recognised under its own key, and the      *)
(* search runs past it (main.c:17-25).                                     *)
ShortRejected ==
  AllReceived /\ 4 * Len(text) < 3 * BlockSize => ~(found_key /\ successful_key = skey)

(* When the server has closed, the client ends. *)
ClientEnds == ~open ~> pc = "done"
=============================================================================
