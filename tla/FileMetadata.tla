---------------------------- MODULE FileMetadata ----------------------------
(***************************************************************************)
(* Task 2: three passes over one open file (its size and the sum of its    *)
(* bytes, a DJB2 hash, a count of each letter), then one record in         *)
(* pgexam25_output.bin.  One step reads one character: the file may grow   *)
(* between two of them, and each pass sees what is there when it comes by. *)
(***************************************************************************)
EXTENDS Integers, SequencesExt, FiniteSetsExt

CONSTANTS CharSize,        \* 2^8: a char holds -CharSize/2 .. CharSize/2 - 1
          HashSize,        \* 2^32
          UpperA, LowerA,  \* the codes of 'A' and 'a'
          Letters,         \* 26
          Contents,        \* what the file may hold at first
          Added,           \* the bytes others may append to it
          MaxSize          \* bound: the size up to which others append to it

Byte == 0..(CharSize - 1)

ASSUME CharAssumption == /\ CharSize \in Nat \ {0} /\ CharSize % 2 = 0 /\ HashSize \in Nat \ {0}
                         /\ {UpperA, LowerA} \subseteq 1..(CharSize \div 2 - Letters)
                         /\ Letters \in Nat \ {0} /\ UpperA + Letters <= LowerA
ASSUME ContentAssumption == Contents \subseteq Seq(Byte) /\ Added \subseteq Byte /\ MaxSize \in Nat

VARIABLES file,       \* pgexam25_test.txt, as it is on disk
          position,   \* of the stream
          pass,       \* what the program does
          metadata,   \* the record it fills in
          hash,       \* the local variable of Task2_SimpleDjb2Hash
          output,     \* pgexam25_output.bin, as it is on disk
          status      \* the exit status of main

vars == <<file, position, pass, metadata, hash, output, status>>

EOF == -1
Running == -1
Letter == 0..(Letters - 1)

(* What was there before, nothing or a piece of the record, the record. *)
Old      == [kind |-> "old"]
Piece    == [kind |-> "piece"]
Whole(r) == [kind |-> "record", record |-> r]

-----------------------------------------------------------------------------
(* Characters *)

(* Bug: the counters do not wrap. *)
Char_Wide(x) == x

(* Conversion to char: a value that does not fit wraps. *)
Char(x) == ((x + CharSize \div 2) % CharSize) - CharSize \div 2

(* fgetc: an unsigned byte, or EOF at the end of what is there now. *)
Fgetc == IF position < Len(file) THEN file[position + 1] ELSE EOF

HashStart == 5381 % HashSize

(* Bug: the character is added as the unsigned byte it was read as. *)
HashNext_Unsigned(h, c) == (h * 33 + c) % HashSize

(* hash * 33 + c, as an unsigned int, with c as a char. *)
HashNext(h, c) == (h * 33 + Char(c)) % HashSize

(* f, repeated along a text from a start value. *)
Along(f, start, text) ==
  LET at[n \in 0..Len(text)] == IF n = 0 THEN start ELSE f[<<at[n - 1], text[n]>>]
  IN at[Len(text)]

(* The part of a text in front of its first zero byte. *)
UpToZero(text) ==
  SubSeq(text, 1, CHOOSE n \in 0..Len(text) : /\ \A i \in 1..n : text[i] # 0
                                              /\ n < Len(text) => text[n + 1] = 0)

(* The copy of task 4 has an int: what does not fit wraps to a negative    *)
(* number.  (Signed overflow is undefined; the build wraps.)               *)
ToInt(x) == ((x + HashSize \div 2) % HashSize) - HashSize \div 2
IntHashNext == [p \in Int \X Int |-> ToInt(p[1] * 33 + Char(p[2]))]
dbj2(text) == Along(IntHashNext, ToInt(5381), UpToZero(text))

(* The letter a character stands for, in either case; -1 if it is none. *)
LetterOf(c) == IF c - LowerA \in Letter THEN c - LowerA
               ELSE IF c - UpperA \in Letter THEN c - UpperA ELSE -1

-----------------------------------------------------------------------------
(* The steps *)

Init == /\ file \in Contents /\ position = 0 /\ pass = "open"
        /\ metadata = [size |-> 0, sum |-> 0, hash |-> 0, count |-> [l \in Letter |-> 0]]
        /\ hash = 0 /\ output = Old /\ status = Running

(* Another program appends a byte. *)
Grow == /\ Len(file) < MaxSize
        /\ \E b \in Added : file' = Append(file, b)
        /\ UNCHANGED <<position, pass, metadata, hash, output, status>>

Exit(s) == pass' = "done" /\ status' = s
Rewind  == position' = 0

Open == /\ pass = "open"
        /\ \/ pass' = "size" /\ UNCHANGED status
           \/ Exit(1)
        /\ UNCHANGED <<file, position, metadata, hash, output>>

(* fseek to the end, ftell, and rewind. *)
Measure == /\ pass = "size"
           /\ metadata' = [metadata EXCEPT !.size = Len(file), !.sum = 0]
           /\ pass' = "sum" /\ Rewind
           /\ UNCHANGED <<file, hash, output, status>>

(* Bug: the sum runs to the end of the file as it is now. *)
SumChar_ToEnd ==
  /\ pass = "sum"
  /\ IF Fgetc # EOF
     THEN /\ metadata' = [metadata EXCEPT !.sum = @ + Fgetc]
          /\ position' = position + 1 /\ UNCHANGED <<pass, hash>>
     ELSE Rewind /\ pass' = "hash" /\ hash' = HashStart /\ UNCHANGED metadata
  /\ UNCHANGED <<file, output, status>>

(* As many characters as the size says; the file does not shrink, so none  *)
(* of them is EOF.                                                         *)
SumChar == /\ pass = "sum"
           /\ IF position < metadata.size
              THEN /\ metadata' = [metadata EXCEPT !.sum = @ + Fgetc]
                   /\ position' = position + 1 /\ UNCHANGED <<pass, hash>>
              ELSE Rewind /\ pass' = "hash" /\ hash' = HashStart /\ UNCHANGED metadata
           /\ UNCHANGED <<file, output, status>>

(* The hash ends at a zero byte, or at the end of the file. *)
HashChar == /\ pass = "hash"
            /\ IF Fgetc \in {0, EOF}
               THEN metadata' = [metadata EXCEPT !.hash = hash] /\ Rewind /\ pass' = "count" /\ UNCHANGED hash
               ELSE /\ hash' = HashNext(hash, Fgetc)
                    /\ position' = position + 1 /\ UNCHANGED <<pass, metadata>>
            /\ UNCHANGED <<file, output, status>>

(* Bug: the counting ends at a zero byte, too. *)
CountChar_ToZero ==
  /\ pass = "count"
  /\ IF Fgetc \in {0, EOF} THEN Rewind /\ pass' = "write" /\ UNCHANGED metadata
     ELSE /\ IF LetterOf(Fgetc) \in Letter
             THEN metadata' = [metadata EXCEPT !.count[LetterOf(Fgetc)] = Char(@ + 1)]
             ELSE UNCHANGED metadata
          /\ position' = position + 1 /\ UNCHANGED pass
  /\ UNCHANGED <<file, hash, output, status>>

(* Bug: only a zero byte ends the counting. *)
CountChar_ZeroOnly ==
  /\ pass = "count"
  /\ IF Fgetc = 0 THEN Rewind /\ pass' = "write" /\ UNCHANGED metadata
     ELSE /\ IF LetterOf(Fgetc) \in Letter
             THEN metadata' = [metadata EXCEPT !.count[LetterOf(Fgetc)] = Char(@ + 1)]
             ELSE UNCHANGED metadata
          /\ position' = IF Fgetc = EOF THEN position ELSE position + 1
          /\ UNCHANGED pass
  /\ UNCHANGED <<file, hash, output, status>>

(* The letters are counted in chars, over zero bytes, to the end. *)
CountChar ==
  /\ pass = "count"
  /\ IF Fgetc = EOF THEN Rewind /\ pass' = "write" /\ UNCHANGED metadata
     ELSE /\ IF LetterOf(Fgetc) \in Letter
             THEN metadata' = [metadata EXCEPT !.count[LetterOf(Fgetc)] = Char(@ + 1)]
             ELSE UNCHANGED metadata
          /\ position' = position + 1 /\ UNCHANGED pass
  /\ UNCHANGED <<file, hash, output, status>>

(* Bug: main returns 0 although the output could not be created. *)
OpenOutput_Status0 == /\ pass = "write"
                      /\ \/ output' = Piece /\ pass' = "fwrite" /\ UNCHANGED status
                         \/ Exit(0) /\ UNCHANGED output
                      /\ UNCHANGED <<file, position, metadata, hash>>

(* fopen empties the file it creates or finds, or fails and leaves it. *)
OpenOutput == /\ pass = "write"
              /\ \/ output' = Piece /\ pass' = "fwrite" /\ UNCHANGED status
                 \/ Exit(1) /\ UNCHANGED output
              /\ UNCHANGED <<file, position, metadata, hash>>

(* fwrite of the record to the stream's buffer, and fclose, which brings   *)
(* it to the disk: what fclose returns is not looked at.                   *)
WriteRecord == /\ pass = "fwrite"
               /\ \/ output' \in {Whole(metadata), Piece} /\ Exit(0)
                  \/ UNCHANGED output /\ Exit(1)
               /\ UNCHANGED <<file, position, metadata, hash>>

Program == Open \/ Measure \/ SumChar \/ HashChar \/ CountChar \/ OpenOutput \/ WriteRecord

Next == Program \/ Grow

Spec == Init /\ [][Next]_vars
FairSpec == Spec /\ WF_vars(Program)

-----------------------------------------------------------------------------
(* The properties *)

TypeOK ==
  /\ file \in Seq(Byte) /\ position \in 0..Len(file)
  /\ pass \in {"open", "size", "sum", "hash", "count", "write", "fwrite", "done"}
  /\ metadata \in [size : Nat, sum : Nat, hash : 0..(HashSize - 1),
                   count : [Letter -> -(CharSize \div 2)..(CharSize \div 2 - 1)]]
  /\ hash \in 0..(HashSize - 1)
  /\ output.kind \in {"old", "piece", "record"} /\ status \in {Running, 0, 1}

First(n) == SubSeq(file, 1, n)

Addition == [p \in Int \X Int |-> p[1] + p[2]]

(* The sum is the sum of exactly the bytes the size counts, however much   *)
(* the file grew while they were read (task2_sum.c:4-7).                   *)
SumOfSize ==
  pass \in {"hash", "count", "write", "fwrite", "done"}
    => metadata.sum = Along(Addition, 0, First(metadata.size))

(* 33^n modulo the size of the hash, and the hash of a text in closed      *)
(* form: each character times a power of 33 for what is behind it.         *)
Multiply == [p \in Int \X Int |-> (p[1] * p[2]) % HashSize]
PowerOf33(n) == Along(Multiply, 1 % HashSize, [i \in 1..n |-> 33])
Terms(text) == [i \in 1..Len(text) |-> PowerOf33(Len(text) - i) * Char(text[i])]
Djb2(text) == (HashStart * PowerOf33(Len(text)) + Along(Addition, 0, Terms(text))) % HashSize

Passed == pass \in {"write", "fwrite"} \/ output # Old

(* The three passes describe one file that may have grown between them:    *)
(* the hash is that of all the bytes up to some size not below the one in  *)
(* the record, or up to the first zero byte; the letters are those up to a *)
(* size not below that, zero bytes or not, modulo what a char holds        *)
(* (task2_hash.c:7-11, task2_count.c:5-13).                                *)
PassesAgree ==
  Passed => \E h \in metadata.size..Len(file) : \E c \in h..Len(file) :
              /\ metadata.hash = Djb2(UpToZero(First(h)))
              /\ \A l \in Letter :
                   metadata.count[l] = Char(Cardinality({i \in 1..c : LetterOf(file[i]) = l}))

(* Task 4 has the hash with an int: its bits are the same (dbj2.c:3-15).   *)
SameHash == pass = "hash" => hash = dbj2(First(position)) % HashSize

(* The program says 0 only if it opened the output, and a record on the    *)
(* disk is the one the passes filled in.  (Whether the disk took it is not *)
(* known to the program: source.c:61-62.)                                  *)
OutputOfThisRun ==
  /\ status = 0 => output # Old
  /\ output.kind = "record" => status = 0 /\ output.record = metadata

(* The program ends, if the file does not grow for ever. *)
Ends == <>(pass = "done")
=============================================================================
