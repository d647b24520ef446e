# Verification of the PG3401 exam programs (tasks 2 to 6)

This directory holds TLA+ models of the C programs under
`pg3401_exam25/`, TLC runs that check them on small instances, and proofs that
TLAPS checks for every instance. Paths below are relative to `pg3401_exam25/`.

## 1. The system

The repository is five independent programs. They share code only by copying
(the DJB2 hash of task 2 is copied into task 4, the TEA cipher of task 4 is
the one task 6 inverts) and meet only through files and sockets.

| Part | State it keeps | Operations | How it interacts |
|---|---|---|---|
| **Task 2**, file metadata: `task2_174/source.c`, `task2_sum.c`, `task2_hash.c`, `task2_count.c` | the global `metadata` struct, the position of one `FILE` | three passes over the file (size and sum, DJB2 hash, letter counts), then one `fwrite` | each pass rewinds the stream for the next |
| **Task 3**, flight manager: `task3_174/source.c`, `flight_functions.c`, `flight_manager.c` | a doubly linked list of flights with head, tail and count; per flight a singly linked list of passengers sorted by seat | the menu: add, remove, change seat, sample data, displays and searches, exit | one thread; the menu functions call the list functions |
| **Task 4**, two threads: `task4_174/task4_threads.c`, `dbj2.c`, `tea.c` | a heap struct shared by `main`, `thread_A`, `thread_B`: buffer, `bytes_in_buffer`, `count`, `file_contents`, `file_size`, three semaphores | A reads the file into the buffer, B counts it, then hashes the file, pads and encrypts it | semaphores `mutex`, `empty`, `full`; files; `exit` and `pthread_exit` on errors |
| **Task 5**, EWP server: `task5_174/main.c`, `communication.c`, `include/ewpdef.h` | the connection, `buffer`, `email_buffer`, the open mail file | accept, greet, then a loop of read, parse, reply; DATA reads a mail and saves it | one TCP client, on the other side of a byte stream |
| **Task 6**, client and key search: `task6_174/main.c`, `TEA-2.c` | the received bytes, the candidate key, the decrypted copy | receive all, strip an HTTP header, try 256 keys, validate, remove the padding, save | a server that sends bytes and closes |

### What is hard here, and what makes each part correct

* **Task 4** is the concurrent one. `empty` starts at `BUFFER_SIZE` but is
  taken once per *round*, not per byte; the loop test of `thread_A` and all
  uses of `file_contents` by `thread_B` are outside the mutex; both threads may
  end the process from anywhere; the file may grow meanwhile. Correct means: no
  overflow, mutual exclusion, no byte lost or counted twice, no use of the
  contents before they are there, no circular wait, an encrypted file only
  together with its hash, and an end.
* **Task 5** takes each `read` of a stream for one message, searches for the
  end marker in one read at a time, and never clears its buffers. Correct
  means: one fitting answer to each request, nothing accepted that was not
  asked for, what was accepted is on disk, and an end when the client leaves;
  also when `fopen` fails after the 354 and the mail is taken for a command.
* **Task 3** is sequential; what is hard is any *sequence* of choices over two
  kinds of pointer lists, and `malloc` failing in the middle. Correct means:
  both directions of the list agree, nothing leaks, seats are unique and in
  order, a choice changes what it names and nothing else, and the searches show
  what is booked, at positions that later choices move as the user must expect.
  In front of all that, the menu reads with `fgets` into three bytes and
  the prompts with `scanf`: what one leaves of a line the other takes for the
  next answer.
* **Task 6** receives until the peer closes and cannot tell a whole transfer
  from a cut one. Correct means: no part of a text is saved as the text, only
  what is behind an HTTP header is deciphered, the server's key is found, the
  padding that comes off is the padding that went on, and the client ends.
  Under it lies TEA: deciphering must undo enciphering although all words wrap.
* **Task 2** reads one open file three times. Correct means: the size, the sum,
  the hash and the letter counts describe one file, even if it grows between
  two characters, with zero bytes, with bytes that are negative as a `char`,
  and with more letters than a `char` counts; and exit status 0 belongs to an
  output of this run. Task 4 has a copy of the hash with another type.

The full list of hazards, each at its line and with the properties that cover
it, is `hazards` in `PROJECT.json`.

## 2. The modules

| Module | Role |
|---|---|
| `BytePipe` | abstract: a bounded pipe between a reader of a file and a counter |
| `Task4Threads` | task 4 in detail; refines `BytePipe` |
| `Task4Proofs` | theorems about `Task4Threads` |
| `MCTask4` | constants for TLC |
| `EwpSession` | abstract: the question-and-answer session the protocol list in `communication.c:28-33` promises |
| `EwpServer` | task 5 in detail; refines `EwpSession` for a client that waits |
| `EwpProofs` | theorems about `EwpServer` |
| `MCEwp` | constants for TLC |
| `FlightRegistry` | abstract: flights and their booked seats, without pointers |
| `FlightManager` | task 3's lists, node by node; refines `FlightRegistry` |
| `FlightLookups` | task 3's displays and searches, as operators of the memory of `FlightManager` |
| `FlightProofs` | theorems about `FlightManager` and `FlightLookups` |
| `MCFlight` | constants for TLC |
| `MenuInput` | task 3's reading of choices and answers from the terminal |
| `MenuProofs` | theorems about `MenuInput` |
| `MCMenuInput` | constants for TLC |
| `Tea` | the cipher, both directions |
| `Padding` | PKCS#5 padding, on and off |
| `KeySearch` | task 6 in detail, over `Tea` and `Padding`, with a server that breaks off |
| `TeaProofs`, `KeySearchProofs` | theorems about them |
| `MCKeySearch` | constants for TLC |
| `FileMetadata` | task 2 in detail, and the hash of task 4 beside it |
| `FileMetadataProofs` | theorems about `FileMetadata` |
| `MCFileMetadata` | constants for TLC |
| `SetInduction` | induction over a set of numbers, for the proofs about loops |

Definitions named `X_Something` are plausible bugs in `X` (a dropped reset, a
forgotten post); none is part of a specification. They are there to show that
the properties would notice.

### `Task4Threads`

One action is one call of a semaphore, file or thread function or the code
between two such calls; the program counters `pcM`, `pcA`, `pcB` name the next
one. Within the loop of A: `WaitEmpty`, `LockA`, `FillBuffer`, `UnlockA`,
`PostFull`, `TestLast` (lines 98-111); of B: `WaitFull`, `LockB`,
`CountBuffer`, `UnlockB`, `PostEmpty` (lines 133-152). The body of B between
lock and unlock is one action: it touches nothing another thread touches
without the mutex except `bytes_in_buffer`, whose single racing read
(`TestLast`) sees either the old or the new value.

A byte is its position in the file, so `buffer` and `counted` say which bytes
are where; of its value only matters whether it is zero (`ZeroBytes`), since
the hash of `dbj2.c:9` stops there. The stdio stream is a position and the sticky end-of-file flag.
`data->count` is uninitialised until B clears it: it holds nothing or a byte
of no file. Every `exit`, every early `pthread_exit` and the NULL that
`pkcs5_pad` may return is an alternative of the action that makes the call.
`Prepare` is all that main does before the threads, with its checked failures and
the semaphores whose `malloc` is not checked (`task4_threads.c:268-311`);
`JoinFails` the `exit` behind a failing `pthread_join` (`325-334`). `hashed`, `hash_file` and `enc_file` record which state of the file
an output was made from; the hash, the padding and the cipher themselves are
in `FileMetadata`, `Padding` and `Tea`. `OutputsConsistent` says that the hash covers
(`Covers`) what the function would have read of the encrypted copy.

### `EwpServer`

`pc` is the place in `main`: `greet`, `read`, `parse`, then `open`, `data`,
`accept` for a mail. The connection is a queue of *cells*, a cell being what
one read may deliver or not: header, command word, argument with its zero, a
stretch of text with the command it begins with (`Texts`), each half of the end marker, the closing zero of a mail. Both
buffers keep what an earlier, longer read left, because the code declares them
inside a loop, without an initialiser, in the same stack slot every time.
`Parsed` looks behind the header only, as `ewp_parse_message` does, and takes what
stands there for a command, be it a command or a text: after a failed `fopen`
(`main.c:261-265`) a mail that begins with `HELO` gets a 250, one with `QUIT` a 221,
and one with no command ends the session. `EwpSession` promises no more: its
requests are commands and mails with the word they begin with. A mail that does not
fit one read is taken for a command once per read. An unwritten cell holds neither a command nor a zero. What lies behind
`email_buffer` in memory, where `strstr` runs on when the array holds no zero,
is taken to hold a zero and no end marker.

`Reply` has the outcomes of an unchecked `send`: delivered, lost because the
client closed, or death by SIGPIPE. `ReadEnds` covers `read` returning 0 or -1.

Three constants say what the client and the network may do: `LockStep` (the
client waits for each answer), `Fragmenting` (a read may return less than has
arrived), `HalfCloses` (the client may shut down its sending side). With
`LockStep` and without `Fragmenting` the stream behaves the way the code
expects; the other setting is what TCP allows.

### `FlightManager`

The memory is one record `m`: two arrays of nodes, head, tail and count. The
functions of `flight_manager.c` are operators from a memory to the memory they
leave; one action is one menu choice. A loop over a list is a function
`Repeat`ed: `Walk` collects the nodes, `Find` stops at the first that is wanted;
a list with a cycle gives a walk longer than there are nodes. `malloc` hands out the lowest free node
and fails, which ends the process, when there is none. `InvalidChoice` is
`source.c:140-144`, after which the program walks freed memory: the state
`dangling` is final, since nothing after it is defined.

A person is a name and an age, which the code compares together
(`flight_functions.c:235, 257`).

### `FlightLookups`

The choices 3, 4, 7 and 8 change nothing, so each is an operator: the sequence
of lines it prints in a given memory. The properties quantify over what the
user may type and are evaluated in every memory the other choices reach.
`PositionsMove` spans a step: a position that a search printed is typed at choice 3
after one more choice was made. The flight is shown there, unless it was
removed; every removal in front of it has moved it one up, so that the printed
position is stale (`flight_functions.c:182`, `flight_manager.c:250-267`).
`MultipleShown` speaks of those with at most one seat per flight, for whom the
number of seats the code counts is the number of flights it prints; of the others it
says only that they are shown if they are on two flights. Comparison without regard to case is the parameter `SamePlace` (`strcmp` of
both in lower case) and `PartOfName` (`strstr`).

### `MenuInput`

Characters are digits, the end of the line, a blank and a letter. The user
types one line when the program waits for one; which line depends on the
prompt, because only some prompts are followed by `clear_input_buffer`.
`Scripts` is what each choice reads; where the lists decide whether it reads on
(no flights, unknown id) the module takes both. `get_user_selection` is one
round of the loop of `source.c:20-44`, `Scanf` one call of `scanf` with the
clearing behind it. The names `Word` and `Number` stand for `%s` and `%d`.

### `Tea`, `Padding`, `KeySearch`

`Tea` has the body of both loops as a function of the state `<<y, z, sum>>`
and both ciphers as that function repeated. Word size, rounds, delta and shifts
are constants, and so is the exclusive or: the proofs need no more of it than
that it yields a word, and TLC gets the real one from a table.

`KeySearch` goes through `main` of task 6 call by call: `Connect`, `Recv` (as
much as `recv` likes to return, up to the buffer), `RecvEnds`, `Extract`,
`Prepare`, then `TryKey` and `Validate` for each key, `Report`. The server is
external: it may send any more of its stream at any time and close anywhere;
`Close` also covers a reset that loses what was on its way. Every `malloc` and
`realloc` may fail. `Extract` has what `strstr` does when a cut header holds
neither the empty line nor a zero byte: it runs on behind the buffer, finds
nothing, or finds something and computes a negative size, or touches memory
that is not there. `Init` leaves out a ciphertext that itself begins with `HTTP` when
the server sends no header: `main.c:168` would take it for one, and what follows
then depends on the bytes of the cipher. `saved` is what `decrypted.txt` holds if it could be opened.

### `FileMetadata`

One action is one `fgetc` or one library call; `Grow` lets another program
append a byte between any two. `Char` is the conversion to a signed `char` that
wraps the counters and the characters of the hash, `ToInt` the one to the `int`
of task 4's copy `dbj2`, which is in this module so that the two can be
compared. `WriteRecord` has the outcomes of an `fwrite` into a stream whose
`fclose` nobody looks at: the record is on disk, or a piece of it is. It is one
step with the return behind it (`source.c:61-71`), so a crash between the two is left out.

## 3. The runs

| Run | Question | Result |
|---|---|---|
| `threads_growing` | all interleavings while another process appends: `TypeOK`, `MutualExclusion`, `BytesConserved`, `ContentsReady`, `NoCircularWait`, `OutputsConsistent`, refinement of the pipe (`PipeSpec`), `ThreadBEnds`; and the process ends if less than one and a half buffers are appended (`Terminates`) | hold |
| `threads_signal` | does a post of `full` mean data (`FullSignalsData`)? | **violated** |
| `threads_stuck` | does main always get to clean up (`CleansUp`)? | **violated** |
| `ewp_lockstep` | waiting client: `TypeOK`, `AcceptedSaved`, refinement of the session (`SessionSpec`), `Answered` | hold |
| `ewp_any` | any client, any splitting: `AcceptedAfterReady`, `NothingAfterBye`, `ServerEnds` | hold |
| `ewp_straddle` | is a mail that was sent to its end received (`EndMarkerSeen`)? | **violated** |
| `ewp_leftover` | is what was accepted still on disk (`AcceptedSaved`)? | **violated** |
| `flight_registry` | any sequence of choices: `TypeOK`, `Linked`, `NoLeak`, `Sorted`, refinement of the registry (`RegistrySpec`); what is displayed (`SearchComplete`, `MultipleShown`), and where after the next choice (`PositionsMove`) | hold |
| `flight_again` | can the user choose again (`ChoiceAgain`)? | **violated** |
| `menu_input` | is every answer what was typed for its own prompt: `TypeOK`, `TakenAsTyped` | hold |
| `key_search` | texts around every boundary, whole or cut: `TypeOK`, `NoPartialText`, `BodyOnly`, `RightKeyFound`, `ShortRejected`, `ClientEnds` | hold |
| `file_metadata` | files that grow while they are read: `TypeOK`, `SumOfSize`, `PassesAgree`, `SameHash`, `OutputOfThisRun`, `Ends` | hold |

**Bounds.** *Task 4*: a buffer of 2 bytes is the smallest that can be empty,
partly full and full; files of 0 to 3 bytes are empty, shorter than, equal to
and longer than the buffer, with a zero as third byte if they get that far; growth up to 6 bytes lets a whole buffer and more
be appended at each point. *Task 5*: buffers of 5 cells hold a command or a
short mail; text lengths 0, 1 and 4 give mails of one and of two reads whose
end marker is whole, the texts of one cell begin with each of the commands and with none, and the two remaining positions of the boundary are the
runs `ewp_straddle` and `ewp_leftover`. Five messages allow two mails, under
the same or different names, with a command between or a QUIT after. `ewp_any`
makes the buffer 3 cells, so that every message fills or overflows it and a
stale buffer matters, with three messages split in every way and mails that begin with `DATA`, `QUIT` or neither. *Task 3*: three
flight nodes and three passenger nodes allow a removal and an insertion at
the head, the tail and between; the fourth allocation fails, in the middle of
the sample data too; seats 0, 1, 3 typed by the user and 2, 3 in the sample
data are below, at both ends of, and above a flight's range; the sample data has
two persons of one name and different ages, and the user books one of them
again, so that a person is on one flight, on two, or twice on one; the names typed for a search match none, one and several. *Menu*: choices of one and two digits,
blank lines and letters; words and numbers alone and with a blank; where a
clearing follows, also two words, letters for a number, and a number in front
of letters; the input may end at any prompt. *Task 6*: bytes of 3 bits, blocks
of 4, words of 64, three rounds and eight keys keep every relation of the code
(a block is two words, a word's bytes are half a block, paddings are bytes that
no text holds) and are small enough to try each key on each cut. The texts are
empty, shorter than three quarters of a block, between that and a block, one
block, up to and past three blocks, and one whose last byte is unreadable; the
server uses the first key and a late one, with a header and without; a `recv`
of at most 9 bytes splits every stream. *Task 2*: chars of 4 bits and hashes of
8, two letters; all files of at most three bytes out of a zero byte, letters of
either case and a byte that is negative, and one of nine letters, more than a
counter holds; three of the bytes may be appended, up to a size of four, at any
point.

**Fairness.** *Task 4*: weak fairness of each of the three threads. The
scheduler runs a thread that stays runnable. Weak fairness is enough for
`sem_wait`: the rounds of both loops are finite in number (they use up the file
and the slots), so neither thread can take the mutex again and again past the
other. Nothing is assumed of the process that appends.
*Task 5*: weak fairness of the server as a whole (it is one thread that runs
whenever a `read` can return); none of the client, which may stay silent for
ever — then `Answered` asks nothing and `ServerEnds` applies only once it left.
*Task 6*: weak fairness of the client; none of the server, so `ClientEnds` says
that the client ends once the server has closed or broken off. *Task 2*: weak
fairness of the program; the growth is bounded, as `Ends` needs, since a file
that is appended to faster than it is read keeps the passes going.
*Task 3*: only safety; the user need not choose anything.

**Deadlock checking** is off in every run because every program may really
stop: the process has exited, the server has shut down, the user left.

### What the violated runs show

1. `threads_signal` (`task4_threads.c:93,101,107`): `thread_A` reads the whole
   file into `file_contents` and does not rewind the stream, so its loop reads
   0 bytes. It posts `full` with an empty buffer; B leaves its loop at once,
   and all counts stay zero.
2. `threads_stuck` (`task4_threads.c:98,140,263`): if one and a half buffers
   are appended after the slurp (3 bytes for the buffer of 2, 6144 for
   `BUFFER_SIZE` 4096), A fills the buffer, finds it full in the next round and
   posts all the same; B empties it on the first post, finds it empty on the
   second and leaves; half a buffer later the loop test of A holds for no read, A
   exhausts `empty` and waits for ever, and main with it. B itself always ends
   (`ThreadBEnds`), and with less appended the whole process does (`Terminates`:
   up to a buffer and `(BufferSize - 1) \div 2` bytes; that one byte more is enough
   to get stuck was also checked for buffers of 3 and 4 bytes).
3. `ewp_straddle` (`main.c:284`): an end marker across two reads is never
   found; server and client wait for each other.
4. `ewp_leftover` (`main.c:284`, `communication.c:211`): the zero behind the
   marker is read as a command; the parser looks at the stale DATA command in
   the buffer, replies 354 a second time and truncates the accepted mail.
5. `flight_again` (`source.c:141-143`): a wrong number frees the list and shows
   the menu again. The end of the input does the same through the -1 of
   `source.c:27`, although `source.c:26` says "Exiting.".

Also seen and left without a run of their own:
* The saved mail begins with the header of the message that carried it
  (`AcceptedSaved` states it that way).
* `task2_174/source.c:61-71`: a full disk shows at `fclose`, which is not looked
  at; the program then says 0 with a piece of the record on disk.
* `flight_functions.c:250-272`: seats are counted, and printed as flights: two seats
  on one flight make somebody "booked on 2 flights", on two lines, although
  `flight_functions.c:205` speaks of passengers "booked on multiple flights".
  `MultipleShown` leaves these persons out.
* `flight_functions.c:403-404`: "Passenger ... added" is printed without asking
  `add_passenger`, also for a seat that is taken or that the flight does not have.
  The lists stay as they were (`RegistrySpec`); the message is false.
* `task5_174/main.c:252, 260`: the 354 is sent before `fopen` is tried. If that
  fails, the mail is parsed as a command, and the 250, 501 or 221 it may get
  answers a mail that is saved nowhere, although `ewpdef.h:44-46` has the 354 for a
  server that "is ready". `SessionSpec` allows these answers, `AcceptedSaved` is
  about "Message accepted for delivery" alone.
* `task6_174/main.c:17-25`: the padding counts as unreadable, so the key search
  loses texts of less than three quarters of a block (`ShortRejected`), and a
  wrong key may pass the test before the right one (`RightKeyFound` says no
  more than that the key found is not above the server's).
* `task3_174/source.c:24`: a choice of three digits is read as two choices, and
  a second word behind an answer to choice 1 as the next answer. `TakenAsTyped`
  holds within `DisciplineAssumption`, which names exactly these lines.

## 4. The proofs

The theorems are of the form `Spec => []P`, a refinement, or a fact about an
algorithm, for every value of the constants that the assumptions allow. They
hold of `Spec`, hence of `FairSpec`. Three have a hypothesis besides, because
without it the statement is false:
* `AcceptedIsSaved` and `ImplementsSession` assume `Orderly`: the client waits for
  each answer, a read takes all that has arrived and fits, and no mail has a
  length that parts the end marker, or the marker and the zero behind it,
  between two reads, and a mail that begins with a command fits one read (a longer
  one would be answered once for each read if its file cannot be opened). The
  lengths it leaves out are those of the runs `ewp_straddle` and `ewp_leftover`,
  where the code fails; the constants of `ewp_lockstep` meet it.
  `ImplementsSession` also assumes that the client does not shut down only its
  sending side: after a 354 such a client gets a 250 for a mail it never sent or
  sent in part (`main.c:279`).
* `HeaderNeverSearched` assumes `HttpServer`: a header begins with `HTTP`, holds no
  zero byte, and its first empty line is its end. This is what an HTTP server
  sends, and the headers of `key_search` are of this kind. The assumptions are what the code fixes:

| Assumption | Says |
|---|---|
| `BufferSizeAssumption`, `FileSizeAssumption` | `BUFFER_SIZE` is positive, sizes and places in a file are naturals |
| `EwpAssumption` | the buffers hold at least a command; the other constants are of their types |
| `SizeAssumption`, `ExclusiveAssumption`, `StartSumAssumption` | words wrap at some size, the exclusive or of words is a word, `decipher` starts at `Rounds` deltas (`StartSumOfTheCode` shows this of the numbers in the code) |
| `BlockAssumption` | a byte holds the length of a padding |
| `PackAssumption` | a block is two words; bytes to words and back is the identity (the cast of `TEA-2.c`) |
| `TextAssumption`, `PrintableAssumption` | a text does not hold the bytes 1 to 8, nor are they printable |
| `HeaderAssumption`, `LimitAssumption` | headers are bytes, keys are bytes below `KEY_LIMIT` |
| `CharAssumption`, `ContentAssumption` | a `char` has two halves and the alphabets lie apart in the positive one; files hold bytes |
| `HeapAssumption` | `malloc` has some number of nodes |
| `InputAssumption` | an id that `scanf` read is not empty; seats and ages are integers |
| `SampleAssumption` | the sample passengers are on sample flights |
| `LinesAssumption`, `DisciplineAssumption` | what the user types, and what keeps the reads in step |

**`Task4Proofs`.** The properties are not inductive one by one. The invariant
`IInv` strengthens them with
* `MutexAccount`: `mutex` is 1 minus the number of threads inside; this gives
  `MutualExclusion`;
* `SlotAccount`: `empty`, `full` and the slots the two threads carry add up to
  `BUFFER_SIZE` (one more after A's post behind its loop), which rules out that
  both wait (`NoCircularWait`);
* `StreamInFile`: the stream is within the file, which only grows, and behind
  the bytes the slurp took;
* `SlurpFirst`: until the slurp is done nothing is posted, read or counted;
  after it the contents are complete (`ContentsReady`);
* `StartOrder`: a thread does not run before main has created it;
* `OutputOrder`: the hash file comes before the encrypted file, both after the
  slurp, and the hash covers the copy as far as its first zero byte;
* `BytesConserved` itself.

`Inductive` proves `IInv` by `Init => IInv` and one lemma per thread with one
step per action. From it follow `TypeCorrect`, `Exclusion`, `Conservation`,
`ReadyBeforeUse`, `NoDeadlyEmbrace`, `ConsistentOutputs`; `ImplementsPipe` shows
that each step is a step of `BytePipe` or none.

**`EwpProofs`.** `AcceptedAfterReady` needs to know what the last reply was
while a mail is being received: `Asked` says that, as long as the client is
there, it is the 354. With it and the types (`IInv`), `EwpInductive` is proved with
one step per action; a lemma on `Reply` says that a reply is appended or lost.
`EwpTypes`, `AcceptedOnlyWhenAsked` and `ByeIsLast` follow. They hold for any
client and any network, since these proofs never look at `wire`.

`AcceptedSaved` does depend on what is in the stream. `WaitInv` lists the phases
of a session with an orderly client, as pairs of a place in `main` and what is
pending: nothing asked and nothing in the stream (`Idle`), a command in the stream
(`Arrived`), a command in the buffer (`Understood`), a 354 given and the mail not
yet sent (`Waiting`), the mail partly in the file and the rest in the stream
(`Receiving`), all of it in the file (`Storing`), and those of the failures, among
them a mail in the buffer that is taken for a command (`Misread`). It is
inductive only with all of them: that the file holds the whole mail at
the 250 follows from the file and the stream making up the mail at every read
before. The lemmas in front of it are about one read of a mail: that it delivers the
next cells, and that the marker is in the last read and no other.
`ImplementsSession` adds that each phase is a state of `EwpSession`.

**`TeaProofs`.** `UnroundUndoesRound`: a round of `decipher` takes back a
round of `encipher`, from modular arithmetic alone. `DecipherUndoesEncipher`
follows by induction on the rounds: after n rounds back the state is the one
after all but n rounds forth, which needs the sums to meet, hence
`StartSumAssumption`.

**`KeySearchProofs`.** `PaddingRemoved` and `CutTransfer` are about the data:
the padding is whole blocks and comes off again; a ciphertext cut anywhere
deciphers to the text up to the last whole block. `SearchInv` is the invariant:
the stream is the header and the ciphertext (`Sent`), no more was received than
was sent (`Received`), the copy is what the key makes of the file (`Tried`), what
was saved is the copy under the key that was taken, without its padding
(`Taken`), and nothing was found before the search (`BeforeSearch`). `NothingPartialSaved` then follows: the end of a cut
text is a byte of the text, which is no padding. For `LongTextsFound` the
invariant `NotPast` says that the search never gets past the server's key with
a readable text; its step counts the padding against the window of four blocks.
For `ShortTextsLost` `Readable` says that what was taken passed the test.
`HeaderNeverSearched` needs `BodyInv`: what was received is a beginning of the stream
(`FromStream`), and all that was sent when the receiving ends (`AllTaken`). The
lemma `FirstTerminator` shows that `strstr` then stops at the end of the
header if that is whole, and finds nothing if it is not.

**`FileMetadataProofs`.** `MetaInv` says of each pass that its accumulator is
the fold over the bytes read so far (`SumSoFar`, `HashSoFar`), and what the exit
status says of the output (`OutputSoFar`). The fold is a recursive function, so
one step of it is a lemma from `SetInduction`. `HashesAgree` compares the
unsigned hash with the `int` hash by induction on the text: reducing before or
after the multiplication makes no difference, although one is centred on zero.

`PassesAgree` says what the hash is by a closed form, the sum of the
characters times powers of 33. `ClosedStep` shows that one step of the loop takes
the form for n characters to that for n + 1 (all powers move up by one), and
`RecordInv` carries this, and the letter counts as cardinalities of sets of
positions, from pass to pass: which size each pass reached, and that the file
only grew since.

**`MenuProofs`.** `TakenAsTyped` needs the state between two reads: `OneLine`
(a line that waits is all there is to read, and was typed for the prompt that is
shown) and `NoRemainder` (what is left of earlier lines is no answer: no digit at
the menu, nothing but white space within a choice). `LinesApart` proves `MenuInv` with a lemma per action; the lemmas
before them say what `strspn`, and the two cuts made with it, leave of a line.

**`FlightProofs`.** That a list of pointers is well formed is not a statement
about its nodes one by one. `Shape(h, L, G)` says it with witnesses: the sequence
`L` of the flights and, for each flight, the sequence `G[f]` of its passengers.
`Chain` ties them to the pointers, `FlightList` adds the pointers
back, the tail, the count, and that exactly the nodes of `L` are
allocated; `SeatLists` the order of the seats, that no passenger is in two lists,
and that exactly those in a list (and the `loose` one, between unlinking and
inserting) are allocated. `MemoryInv` says that there are such `L` and `G`. It needs the ids of the list not
to be the empty string: a node with all its fields zero would otherwise pass for a free one.

`WalkIs` and `FindIs` show, by induction on the steps, that `Walk` and `Find` give
the sequence, and its first wanted element. Then there is a lemma for each operation
that says which `L` and `G` describe the memory it leaves: `AddFlightKeeps`
(appended), `PutKeeps` and `InsertKeeps` (inserted in the order of the seats, also the search
for the place), `TakenKeeps` (removed), `ChangeSeatCases` (removed and
inserted), `GoneKeeps` (a flight and its passengers gone), `FreeKeeps`; the sample data are
an induction on the two loops. `FlightTypes`, `ListsLinked`, `NothingLeaks`,
`SeatsSorted` read the properties off `Shape`.

`ImplementsRegistry` reads the registry off the same witnesses. `Books(h, s, b)` says
that `b` is who sits where among the passengers `s`; it determines `b`
(`BooksUnique`), so the entry of a flight whose passengers did not change stays
(`EntrySame`). One lemma per operation compares what it leaves with the operation
of `FlightRegistry`: `PutFlightIs`, `PutPassengerIs`, `ReseatIs`, `TakeFlightIs`, and
for the two loops of the sample data `SampleFlightsPut` and `SamplePassengersPut`.
`FlightRegistry` changes every entry of an id, the lists only the first flight that is
found; `MenuInv` therefore carries that an id names one flight (`Unique`), and
that `malloc` has not failed while the menu is shown.

The displays of `FlightLookups` print pages of lines, of which they take the hits
(`Printed`) and which they put one behind the other (`FlattenSeq`). `Spread` says of
such an output where each element of the pages went: a bijection from places to
lines. `FlattenIs` finds one by induction on the pages, `PrintedIs` and `ReportIs`
for the hits. `NameSearchIs` and `ManySearchIs` say which places of the lists the
two searches show; `BookingsAre` pairs the same places with the bookings of the
registry. `SearchIsComplete` needs that the two pairings agree, and `ManyAreShown`,
which counts, that paired sets have the same size (`SameSize`): the seats the code
counts, node by node, are the bookings of that person (`SeatsOfIs`), and they are as
many as the flights if no flight has two (`SeatsAreShown`).

`PositionsShown` compares the memory before a choice with the one after it. `Moves`
says that every flight is where it was but for the flights removed in front of it;
`GoesOn`, that none was removed and new ones are behind the others. `MenuMoves`
proves `Moves` of every action, from what `ImplementsRegistry` shows of it: a removal
closes the gap (`TakenMoves`), all else goes on (`GoesOnMoves`); `FoundIs` and `ShownAtIs` say what was found
before, and what choice 3 shows after, in terms of the registry (`PositionIs`: the
`n`-th step from the head is `L[n]`).

**Model-checked only.** Liveness (`Terminates`, `ThreadBEnds`, `Answered`,
`ServerEnds`, `ClientEnds`, `Ends`): TLAPS does not reach fairness and ENABLED.
Every invariant, action property and refinement of a passing run is proved.

## 5. Not modelled

* Task 2: the overflow of `size` and `sum` as `int` (files of megabytes); a crash
  between writing the record and returning. A file that grows between the passes
  is modelled, and `PassesAgree` permits what the code then does: each pass
  describes the file as it met it, so one record may describe three sizes.
* Task 3: names longer than their arrays; the value of a variable after a
  `scanf` that found no number (the model takes none); colours and layout. The
  reading of the terminal and the lists are two specifications: `MenuInput`
  takes either outcome where a list decides, `FlightManager` takes any answer.
* Task 4: of the threads only the logging; appending is all that happens to
  the file meanwhile.
* Task 5: argument parsing, socket creation, the texts of the replies (the
  codes are kept), display of the received data. So `ewp_init_helo_response`
  always answers: the copies of the argument of a HELO into arrays of 50 bytes
  (`communication.c:90-112`), which overflow if it is longer or has no zero, are left
  out. What the model takes for a read of a text that begins with a command has at
  least the command in its first cell.
* Task 6: the arguments and the socket calls beyond their failing; a disk that
  takes a part of `decrypted.txt` (a short `fwrite` or a failing `fclose`,
  `main.c:277-278`); a ciphertext without a header that begins with `HTTP`; the hex dumps and progress messages.
* Makefiles, sample data, screenshots, binaries, colour and logging macros: no
  behaviour of the programs.

## 6. Plan

Done, in order of importance: task 4 (`BytePipe`, `Task4Threads`, `Task4Proofs`),
task 5 (`EwpSession`, `EwpServer`, `EwpProofs`), task 3's lists (`FlightRegistry`,
`FlightManager`), task 6 with the cipher and the padding (`Tea`, `Padding`,
`KeySearch` and their proofs), task 2 (`FileMetadata`, `FileMetadataProofs`), task
3's displays (`FlightLookups`) and input (`MenuInput`, `MenuProofs`).

Also done: the proofs of `AcceptedSaved` and `SessionSpec` of task 5, of the lists of
task 3, their refinement of the registry and the displays (`FlightProofs`), of `BodyOnly` and `PassesAgree`.

Left: composing `MenuInput` with `FlightManager`, so that the answers read are the
ones the choices use.
