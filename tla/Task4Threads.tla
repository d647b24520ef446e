---------------------------- MODULE Task4Threads ----------------------------
(***************************************************************************)
(* Task 4: main starts thread_A, which reads a file, and thread_B, which   *)
(* counts the bytes A leaves in a shared buffer and then hashes and        *)
(* encrypts the file.  The threads synchronise with three semaphores.      *)
(*                                                                         *)
(* One action is one call of a semaphore, file or thread function, or the  *)
(* code between two of them.  A byte is its position in the file (1, 2,    *)
(* ...); of its value only matters whether it is zero.  The file belongs   *)
(* to nobody: another process may append to it while the program runs.     *)
(***************************************************************************)
EXTENDS Integers, Sequences

CONSTANTS BufferSize,   \* BUFFER_SIZE: bytes in the buffer, and initial value of empty
          InitialSizes, \* the sizes the file may have when the program starts
          ZeroBytes,    \* where the file has a zero byte, if it gets that far
          MaxFileSize   \* bound: nobody appends to a file of this size or more

ASSUME BufferSizeAssumption == BufferSize \in Nat \ {0}
ASSUME FileSizeAssumption == InitialSizes \cup ZeroBytes \subseteq Nat /\ MaxFileSize \in Nat

VARIABLES
  file,                  \* size of the file on disk
  proc,                  \* the process: running, or how it ended
  pcM, pcA, pcB,         \* where main, thread_A and thread_B are
  mutex, empty, full,    \* values of the semaphores
  buffer,                \* the first bytes_in_buffer bytes of data->buffer
  counted,               \* the bytes counted in data->count, in order
  pos, eof,              \* thread_A's stream: position, and its sticky end-of-file flag
  read_bytes,            \* thread_A's local of that name
  file_size, contents,   \* data->file_size; how many bytes of file_contents are valid
  hashed,                \* how many bytes of the file thread_B computed hash_value of
  hash_file, enc_file    \* the same of the two output files, as they are on disk

sems    == <<mutex, empty, full>>
stream  == <<pos, eof, read_bytes>>
memory  == <<file_size, contents>>
outputs == <<hashed, hash_file, enc_file>>
vars == <<file, proc, pcM, pcA, pcB, sems, buffer, counted, stream, memory, outputs>>

(* No value yet: uninitialised memory, or an output file this run has not  *)
(* written (it may hold the output of an earlier run).                     *)
None == -1

(* The bytes of the file after position a, up to and including b. *)
Bytes(a, b) == [i \in 1..(b - a) |-> a + i]

SmallerOf(a, b) == IF a < b THEN a ELSE b

(* The start of main.  The shared variables have the values Prepare leaves *)
(* them, before which nobody looks at them.  Of the struct only            *)
(* bytes_in_buffer and the semaphores are initialised: data->count holds   *)
(* whatever malloc returned, either nothing or a byte of no file (0).      *)
Init == /\ file \in InitialSizes
        /\ proc = "running"
        /\ pcM = "prepare" /\ pcA = "none" /\ pcB = "none"
        /\ mutex = 1 /\ empty = BufferSize /\ full = 0
        /\ buffer = <<>>
        /\ counted \in {<<>>, <<0>>}
        /\ pos = 0 /\ eof = FALSE /\ read_bytes = 0
        /\ file_size = None /\ contents = None
        /\ hashed = None /\ hash_file = None /\ enc_file = None

(* exit(): every thread stops where it is. *)
Exit(status) == /\ proc' = status
                /\ UNCHANGED <<pcM, pcA, pcB, sems, buffer, counted, stream, memory, outputs>>

(* Another process appends one byte to the file. *)
Append1 == /\ file < MaxFileSize
           /\ file' = file + 1
           /\ UNCHANGED <<proc, pcM, pcA, pcB, sems, buffer, counted, stream, memory, outputs>>

-----------------------------------------------------------------------------
(* main: what it leaves alone, and its steps *)

MainFrame == UNCHANGED <<file, sems, buffer, counted, stream, memory, outputs>>

(* The arguments, the struct and the semaphores.  The struct is checked for *)
(* a failing malloc and each sem_init for its result; a semaphore that     *)
(* malloc refused is initialised all the same.                             *)
Prepare == /\ pcM = "prepare"
           /\ \/ pcM' = "create_A" /\ UNCHANGED <<proc, pcA, pcB>>
              \/ Exit("failure")
              \/ Exit("crashed")

CreateA == /\ pcM = "create_A"
           /\ \/ pcM' = "create_B" /\ pcA' = "open" /\ UNCHANGED <<proc, pcB>>
              \/ Exit("failure")

CreateB == /\ pcM = "create_B"
           /\ \/ pcM' = "join_A" /\ pcB' = "clear" /\ UNCHANGED <<proc, pcA>>
              \/ Exit("failure")

Join == /\ \/ pcM = "join_A" /\ pcA = "done" /\ pcM' = "join_B"
           \/ pcM = "join_B" /\ pcB = "done" /\ pcM' = "cleanup"
        /\ UNCHANGED <<proc, pcA, pcB>>

(* pthread_join returns an error instead of waiting.                       *)
JoinFails == pcM \in {"join_A", "join_B"} /\ Exit("failure")

(* The semaphores and the struct are released and main returns 0. *)
CleanUp == pcM = "cleanup" /\ Exit("success")

Main == MainFrame /\ (Prepare \/ CreateA \/ CreateB \/ Join \/ CleanUp)

-----------------------------------------------------------------------------
(* thread_A: what it leaves alone, and its steps *)

FrameA == UNCHANGED <<file, pcM, pcB, counted, outputs>>

OpenFile == /\ pcA = "open"
            /\ \/ pcA' = "size" /\ UNCHANGED <<proc, sems, buffer, stream, memory>>
               \/ Exit("failure")

(* fseek to the end, ftell, rewind. *)
MeasureFile == /\ pcA = "size"
               /\ file_size' = file
               /\ pcA' = "slurp"
               /\ UNCHANGED <<proc, sems, buffer, stream, contents>>

(* malloc and the fread of the whole file.  Exactly file_size bytes are    *)
(* asked for and the file never shrinks, so end-of-file is not noticed;    *)
(* the stream is not rewound.                                              *)
SlurpFile == /\ pcA = "slurp"
             /\ \/ /\ contents' = file_size
                   /\ pos' = file_size
                   /\ pcA' = "wait_empty"
                   /\ UNCHANGED <<proc, sems, buffer, eof, read_bytes, file_size>>
                \/ Exit("failure")

WaitEmpty == /\ pcA = "wait_empty" /\ empty > 0
             /\ empty' = empty - 1
             /\ pcA' = "wait_mutex"
             /\ UNCHANGED <<proc, mutex, full, buffer, stream, memory>>

LockA == /\ pcA = "wait_mutex" /\ mutex > 0
         /\ mutex' = mutex - 1
         /\ pcA' = "fill"
         /\ UNCHANGED <<proc, empty, full, buffer, stream, memory>>

(* Bug: the fread asks for a whole buffer behind the bytes already there.  *)
FillBuffer_WholeBuffer ==
  LET n == IF eof THEN 0 ELSE SmallerOf(BufferSize, file - pos)
  IN /\ pcA = "fill"
     /\ buffer' = buffer \o Bytes(pos, pos + n)
     /\ pos' = pos + n
     /\ eof' = (eof \/ n < BufferSize)
     /\ read_bytes' = n
     /\ pcA' = "post_mutex"
     /\ UNCHANGED <<proc, sems, memory>>

(* fread into the free part of the buffer.  A read that meets the end of   *)
(* the file sets the sticky end-of-file flag, after which fread returns 0  *)
(* even if the file grows.                                                 *)
FillBuffer ==
  LET room == BufferSize - Len(buffer)
      n    == IF eof THEN 0 ELSE SmallerOf(room, file - pos)
  IN /\ pcA = "fill"
     /\ buffer' = buffer \o Bytes(pos, pos + n)
     /\ pos' = pos + n
     /\ eof' = (eof \/ n < room)
     /\ read_bytes' = n
     /\ pcA' = "post_mutex"
     /\ UNCHANGED <<proc, sems, memory>>

(* Bug: the sem_post(mutex) is forgotten. *)
UnlockA_Forgotten == /\ pcA = "post_mutex"
                     /\ pcA' = "post_full"
                     /\ UNCHANGED <<proc, sems, buffer, stream, memory>>

UnlockA == /\ pcA = "post_mutex"
           /\ mutex' = mutex + 1
           /\ pcA' = "post_full"
           /\ UNCHANGED <<proc, empty, full, buffer, stream, memory>>

PostFull == /\ pcA = "post_full"
            /\ full' = full + 1
            /\ pcA' = "test"
            /\ UNCHANGED <<proc, mutex, empty, buffer, stream, memory>>

(* The loop test reads bytes_in_buffer without the mutex: thread_B may     *)
(* have reset it since, or may reset it next.  An int is read in one       *)
(* access, and the call of sem_post before it makes the compiler load it   *)
(* here, so the outcomes of the race are the values it has now or later.   *)
TestLast == /\ pcA = "test"
            /\ pcA' = IF read_bytes < BufferSize - Len(buffer) THEN "post_last" ELSE "wait_empty"
            /\ UNCHANGED <<proc, sems, buffer, stream, memory>>

(* The post after the loop, fclose and pthread_exit. *)
PostLast == /\ pcA = "post_last"
            /\ full' = full + 1
            /\ pcA' = "done"
            /\ UNCHANGED <<proc, mutex, empty, buffer, stream, memory>>

ThreadA == FrameA /\ \/ OpenFile \/ MeasureFile \/ SlurpFile \/ WaitEmpty \/ LockA
                     \/ FillBuffer \/ UnlockA \/ PostFull \/ TestLast \/ PostLast

-----------------------------------------------------------------------------
(* thread_B: what it leaves alone, and its steps *)

FrameB == UNCHANGED <<file, pcM, pcA, stream, memory>>

ClearCount == /\ pcB = "clear"
              /\ counted' = <<>>
              /\ pcB' = "wait_full"
              /\ UNCHANGED <<proc, sems, buffer, outputs>>

(* Bug: thread_B does not wait for full. *)
WaitFull_Skipped == /\ pcB = "wait_full"
                    /\ pcB' = "wait_mutex"
                    /\ UNCHANGED <<proc, sems, buffer, counted, outputs>>

WaitFull == /\ pcB = "wait_full" /\ full > 0
            /\ full' = full - 1
            /\ pcB' = "wait_mutex"
            /\ UNCHANGED <<proc, mutex, empty, buffer, counted, outputs>>

(* Bug: thread_B does not wait for the mutex. *)
LockB_Skipped == /\ pcB = "wait_mutex"
                 /\ pcB' = "check"
                 /\ UNCHANGED <<proc, sems, buffer, counted, outputs>>

LockB == /\ pcB = "wait_mutex" /\ mutex > 0
         /\ mutex' = mutex - 1
         /\ pcB' = "check"
         /\ UNCHANGED <<proc, empty, full, buffer, counted, outputs>>

(* Bug: bytes_in_buffer is not reset. *)
CountBuffer_KeepsBytes == /\ pcB = "check"
                          /\ counted' = counted \o buffer
                          /\ pcB' = IF buffer = <<>> THEN "post_break" ELSE "post_mutex"
                          /\ UNCHANGED <<proc, sems, buffer, outputs>>

(* An empty buffer ends the loop; otherwise its bytes are counted and      *)
(* bytes_in_buffer is reset.                                               *)
CountBuffer == /\ pcB = "check"
               /\ counted' = counted \o buffer
               /\ buffer' = <<>>
               /\ pcB' = IF buffer = <<>> THEN "post_break" ELSE "post_mutex"
               /\ UNCHANGED <<proc, sems, outputs>>

UnlockB == /\ \/ pcB = "post_break" /\ pcB' = "hash"
              \/ pcB = "post_mutex" /\ pcB' = "post_empty"
           /\ mutex' = mutex + 1
           /\ UNCHANGED <<proc, empty, full, buffer, counted, outputs>>

(* Bug: the slot is not given back. *)
PostEmpty_Forgotten == /\ pcB = "post_empty"
                       /\ pcB' = "wait_full"
                       /\ UNCHANGED <<proc, sems, buffer, counted, outputs>>

PostEmpty == /\ pcB = "post_empty"
             /\ empty' = empty + 1
             /\ pcB' = "wait_full"
             /\ UNCHANGED <<proc, mutex, full, buffer, counted, outputs>>

NoZeroUpTo(n) == \A i \in 1..n : i \notin ZeroBytes

(* fopen and Task2_SimpleDjb2Hash over the file as it is on disk now, up   *)
(* to its first zero byte; if the file cannot be opened the thread ends.   *)
HashFile == /\ pcB = "hash"
            /\ \/ /\ pcB' = "write_hash"
                  /\ \E n \in 0..file : /\ NoZeroUpTo(n) /\ (n = file \/ n + 1 \in ZeroBytes)
                                        /\ hashed' = n
               \/ pcB' = "done" /\ UNCHANGED hashed
            /\ UNCHANGED <<proc, sems, buffer, counted, hash_file, enc_file>>

(* Bug: without the hash file the encryption goes on. *)
WriteHash_GoesOn == /\ pcB = "write_hash"
                    /\ pcB' = "key"
                    /\ hash_file' \in {hashed, hash_file}
                    /\ UNCHANGED <<proc, sems, buffer, counted, hashed, enc_file>>

WriteHash == /\ pcB = "write_hash"
             /\ \/ pcB' = "key" /\ hash_file' = hashed
                \/ pcB' = "done" /\ UNCHANGED hash_file
             /\ UNCHANGED <<proc, sems, buffer, counted, hashed, enc_file>>

(* pkcs5_pad and the key file.  Without tea.key the process exits; if the  *)
(* padded copy cannot be allocated its NULL is used all the same.          *)
ReadKey == /\ pcB = "key"
           /\ \/ pcB' = "save" /\ UNCHANGED <<proc, sems, buffer, counted, outputs>>
              \/ Exit("failure")
              \/ Exit("crashed")

(* The padded contents, encrypted block by block, are written if the file  *)
(* can be created; the thread ends either way.                             *)
SaveEncrypted == /\ pcB = "save"
                 /\ enc_file' \in {contents, enc_file}
                 /\ pcB' = "done"
                 /\ UNCHANGED <<proc, sems, buffer, counted, hashed, hash_file>>

ThreadB == FrameB /\ \/ ClearCount \/ WaitFull \/ LockB \/ CountBuffer \/ UnlockB
                     \/ PostEmpty \/ HashFile \/ WriteHash \/ ReadKey \/ SaveEncrypted

-----------------------------------------------------------------------------
Next == /\ proc = "running"
        /\ Main \/ (MainFrame /\ JoinFails) \/ ThreadA \/ ThreadB \/ Append1

Spec == Init /\ [][Next]_vars

(* The scheduler runs every thread that can run; sem_wait returns once its *)
(* semaphore stays positive.  Nothing is assumed of the process that       *)
(* appends to the file, and no join needs to fail.                         *)
FairSpec == /\ Spec
            /\ WF_vars(proc = "running" /\ Main)
            /\ WF_vars(proc = "running" /\ ThreadA)
            /\ WF_vars(proc = "running" /\ ThreadB)

-----------------------------------------------------------------------------
(* The properties *)

(* Types: the buffer never holds more than BUFFER_SIZE bytes (the fread of *)
(* line 101 asks for the room that is left, not for a whole buffer).       *)
TypeOK ==
  /\ file \in Nat
  /\ proc \in {"running", "success", "failure", "crashed"}
  /\ pcM \in {"prepare", "create_A", "create_B", "join_A", "join_B", "cleanup"}
  /\ pcA \in {"none", "open", "size", "slurp", "wait_empty", "wait_mutex", "fill",
              "post_mutex", "post_full", "test", "post_last", "done"}
  /\ pcB \in {"none", "clear", "wait_full", "wait_mutex", "check", "post_break",
              "post_mutex", "post_empty", "hash", "write_hash", "key", "save", "done"}
  /\ mutex \in Nat /\ empty \in Nat /\ full \in Nat
  /\ buffer \in Seq(Nat) /\ Len(buffer) <= BufferSize
  /\ counted \in Seq(Nat)
  /\ pos \in Nat /\ eof \in BOOLEAN /\ read_bytes \in 0..BufferSize
  /\ {file_size, contents, hashed, hash_file, enc_file} \subseteq Nat \cup {None}

AInside == pcA \in {"fill", "post_mutex"}
BInside == pcB \in {"check", "post_break", "post_mutex"}

(* The two threads are never both between sem_wait(mutex) and the          *)
(* sem_post(mutex) that follows, on whichever way out of the loop.         *)
MutualExclusion == ~(AInside /\ BInside)

BCleared == pcB \notin {"none", "clear"}
CountedByB == IF BCleared THEN counted ELSE <<>>

(* Where the loop of thread_A starts to read: behind the bytes the fread   *)
(* of the whole file took.                                                 *)
LoopStart == IF contents = None THEN pos ELSE file_size

(* Every byte the loop of thread_A has read is counted exactly once or is  *)
(* still in the buffer, in the order of the file: none is overwritten by   *)
(* the next fill, counted twice or wiped by the memset of thread_B.        *)
BytesConserved == CountedByB \o buffer = Bytes(LoopStart, pos)

(* thread_B leaves its loop on the first empty buffer, and hashes and      *)
(* encrypts; by then file_contents and file_size, which it reads without   *)
(* the mutex, have been written by thread_A.                               *)
ContentsReady == pcB \in {"hash", "write_hash", "key", "save"}
                   => file_size # None /\ contents = file_size

(* The threads never wait for each other, A for an empty slot and B for a  *)
(* full one.                                                               *)
NoCircularWait == ~ /\ pcA = "wait_empty" /\ empty = 0
                    /\ pcB = "wait_full" /\ full = 0

(* A hash over n bytes covers what Task2_SimpleDjb2Hash would have read of  *)
(* the first size bytes of the file.                                       *)
Covers(n, size) == \A i \in 1..size : NoZeroUpTo(i) => i <= n

(* If this run wrote the encrypted file it has also written the hash file, *)
(* and the hash covers what was encrypted, as far as its first zero byte:  *)
(* the hash is of the file on disk, the encryption of the copy thread_A    *)
(* made in memory, and no interleaving hashes an earlier file than it      *)
(* encrypts.                                                               *)
OutputsConsistent == enc_file # None => hash_file # None /\ Covers(hash_file, enc_file)

(* The buffer and the count array implement a bounded pipe.                *)
Pipe == INSTANCE BytePipe WITH Capacity <- BufferSize, pipe <- buffer, counted <- CountedByB
PipeSpec == Pipe!Spec

(* The process ends, if less than one and a half buffers are appended to   *)
(* the file while it runs (task4_threads.c:98-118, 325-346).               *)
AppendsFew == \E n \in InitialSizes :
                [](file \in n..(n + BufferSize + (BufferSize - 1) \div 2))
Terminates == AppendsFew => <>(proc # "running")

(* Whatever is appended, thread_B is not left waiting: it ends, or the     *)
(* process does.                                                           *)
ThreadBEnds == <>(pcB = "done" \/ proc # "running")

-----------------------------------------------------------------------------
(* What two comments of the source say, and the code does not do *)

(* task4_threads.c:107 "Signal that buffer has data for thread B" (and     *)
(* line 304, full "counts filled slots in buffer"): a post of full by the  *)
(* loop of thread_A leaves data in the buffer for thread_B to find.        *)
FullSignalsData == pcB = "check" => buffer # <<>> \/ pcA \in {"post_last", "done"}

(* task4_threads.c:263 "cleans up resources at the end": main reaches its  *)
(* clean-up, unless the process exits before it.                           *)
CleansUp == <>(pcM = "cleanup" \/ proc # "running")
=============================================================================
