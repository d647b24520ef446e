---------------------------- MODULE Task4Proofs ----------------------------
(***************************************************************************)
(* Theorems about Task4Threads, for every buffer size, every initial file  *)
(* and whatever is appended to it.                                         *)
(***************************************************************************)
EXTENDS Task4Threads, SequenceTheorems, TLAPS

USE DEF None

Bit(b) == IF b THEN 1 ELSE 0

(* thread_A carries the slot it took from empty until it posts full, and   *)
(* thread_B from full until it posts empty: for ever, once it left its     *)
(* loop.  The post after the loop of thread_A creates a slot.              *)
ACarries == pcA \in {"wait_mutex", "fill", "post_mutex", "post_full"}
BCarries == pcB \notin {"none", "clear", "wait_full"}

(* A thread that has not been created has done nothing. *)
StartOrder == /\ pcM \in {"prepare", "create_A"} => pcA = "none" /\ pcB = "none"
              /\ pcM = "create_B" => pcB = "none"

MutexAccount == mutex + Bit(AInside) + Bit(BInside) = 1
SlotAccount == empty + Bit(ACarries) + full + Bit(BCarries) = BufferSize + Bit(pcA = "done")

BeforeSlurp == pcA \in {"none", "open", "size", "slurp"}

(* What thread_A has read of the file, which only grows. *)
StreamInFile == /\ pos <= file
                /\ file_size # None => file_size <= pos \/ BeforeSlurp
                /\ file_size # None => file_size <= file
                /\ (file_size = None) = (pcA \in {"none", "open", "size"})

(* Until the slurp nothing is posted, read or counted. *)
SlurpFirst == /\ (contents = None) = BeforeSlurp
              /\ contents # None => contents = file_size
              /\ BeforeSlurp => full = 0 /\ ~BCarries /\ pos = 0 /\ buffer = <<>>

OutputOrder == /\ pcB \in {"write_hash", "key", "save"} => hashed # None
               /\ pcB \in {"key", "save"} => hash_file = hashed
               /\ hash_file # None => hash_file = hashed
               /\ hashed # None => /\ file_size # None
                                   /\ contents # None
                                   /\ Covers(hashed, file_size)
               /\ pcB \in {"none", "clear", "wait_full", "wait_mutex", "check", "post_break",
                           "post_mutex", "post_empty", "hash"}
                    => hashed = None /\ hash_file = None
               /\ enc_file # None => pcB = "done"
               /\ enc_file # None => enc_file = contents /\ hash_file # None

ControlInv == StartOrder /\ MutexAccount /\ SlotAccount /\ StreamInFile /\ SlurpFirst
IInv == TypeOK /\ ControlInv /\ BytesConserved /\ OutputOrder
-----------------------------------------------------------------------------
(* Facts about stretches of the file *)

LEMMA BytesTyped ==
  ASSUME NEW a \in Nat, NEW b \in Nat, a <= b
  PROVE  /\ Bytes(a, b) \in Seq(Nat)
         /\ Len(Bytes(a, b)) = b - a
<1> DEFINE s == Bytes(a, b)
<1>1. b - a \in Nat
  OBVIOUS
<1>2. s = [i \in 1..(b - a) |-> a + i]
  BY DEF Bytes
<1>3. \A i \in 1..(b - a) : a + i \in Nat
  OBVIOUS
<1>4. s \in [1..(b - a) -> Nat]
  BY <1>2, <1>3
<1>5. QED
  BY <1>1, <1>4

LEMMA BytesEmpty == \A a \in Nat : Bytes(a, a) = <<>>
<1> TAKE a \in Nat
<1>1. Bytes(a, a) \in Seq(Nat) /\ Len(Bytes(a, a)) = 0
  BY BytesTyped
<1>2. QED
  BY <1>1

LEMMA JoinElements ==
  ASSUME NEW s \in Seq(Nat), NEW t \in Seq(Nat), NEW i \in 1..(Len(s) + Len(t))
  PROVE  (s \o t)[i] = IF i <= Len(s) THEN s[i] ELSE t[i - Len(s)]
OBVIOUS

LEMMA SameElements ==
  ASSUME NEW s \in Seq(Nat), NEW t \in Seq(Nat), Len(s) = Len(t),
         \A i \in 1..Len(s) : s[i] = t[i]
  PROVE  s = t
BY SeqEqual

LEMMA BytesJoin ==
  ASSUME NEW a \in Nat, NEW b \in Nat, NEW c \in Nat, a <= b, b <= c
  PROVE  Bytes(a, b) \o Bytes(b, c) = Bytes(a, c)
<1> DEFINE s == Bytes(a, b)
           t == Bytes(b, c)
           u == Bytes(a, c)
<1>1. s \in Seq(Nat) /\ Len(s) = b - a /\ t \in Seq(Nat) /\ Len(t) = c - b
  BY BytesTyped
<1>2. u \in Seq(Nat) /\ Len(u) = c - a
  BY BytesTyped
<1>3. s \o t \in Seq(Nat) /\ Len(s \o t) = c - a
  BY <1>1
<1>4. \A i \in 1..(c - a) : (s \o t)[i] = u[i]
  <2> TAKE i \in 1..(c - a)
  <2>1. u[i] = a + i
    BY DEF Bytes
  <2>2. CASE i <= b - a
    <3>1. s[i] = a + i
      BY <2>2 DEF Bytes
    <3>2. (s \o t)[i] = s[i]
      BY <1>1, <2>2, JoinElements
    <3>3. QED
      BY <2>1, <3>1, <3>2
  <2>3. CASE ~(i <= b - a)
    <3>1. i - (b - a) \in 1..(c - b)
      BY <2>3
    <3>2. t[i - (b - a)] = b + (i - (b - a))
      BY <3>1 DEF Bytes
    <3>3. (s \o t)[i] = t[i - (b - a)]
      <4> i \in 1..(Len(s) + Len(t)) /\ ~(i <= Len(s))
        BY <1>1, <2>3
      <4> HIDE DEF s, t
      <4> QED
        BY <1>1, JoinElements
    <3>4. QED
      BY <2>1, <3>2, <3>3
  <2>4. QED
    BY <2>2, <2>3
<1>5. QED
  <2> DEFINE st == s \o t
  <2> st \in Seq(Nat) /\ Len(st) = Len(u) /\ u \in Seq(Nat)
    BY <1>2, <1>3
  <2> \A i \in 1..Len(st) : st[i] = u[i]
    BY <1>2, <1>3, <1>4
  <2> HIDE DEF st, u
  <2>1. st = u
    BY SameElements
  <2> QED
    BY <2>1 DEF st, u
-----------------------------------------------------------------------------
(* The invariant *)

(* Every step keeps the types. *)
LEMMA TypeStep == TypeOK /\ StreamInFile /\ [Next]_vars => TypeOK'
<1> SUFFICES ASSUME TypeOK /\ StreamInFile, [Next]_vars PROVE TypeOK'
  OBVIOUS
<1> USE BufferSizeAssumption, FileSizeAssumption DEF sems, stream, memory, outputs, TypeOK, StreamInFile
<1>0. CASE MainFrame /\ Prepare
  BY <1>0 DEF MainFrame, Prepare, Exit
<1>1. CASE MainFrame /\ CreateA
  BY <1>1 DEF MainFrame, CreateA, Exit
<1>2. CASE MainFrame /\ CreateB
  BY <1>2 DEF MainFrame, CreateB, Exit
<1>3. CASE MainFrame /\ Join
  BY <1>3 DEF MainFrame, Join
<1>4. CASE MainFrame /\ CleanUp
  BY <1>4 DEF MainFrame, CleanUp, Exit
<1>4a. CASE MainFrame /\ JoinFails
  BY <1>4a DEF MainFrame, JoinFails, Exit
<1>5. CASE FrameA /\ OpenFile
  <2>1. CASE Exit("failure")
    BY <1>5, <2>1 DEF FrameA, OpenFile, Exit
  <2>2. CASE ~Exit("failure")
    BY <1>5, <2>2 DEF FrameA, OpenFile
  <2>3. QED
    BY <2>1, <2>2
<1>6. CASE FrameA /\ MeasureFile
  BY <1>6 DEF FrameA, MeasureFile
<1>7. CASE FrameA /\ SlurpFile
  <2>1. CASE Exit("failure")
    BY <1>7, <2>1 DEF FrameA, SlurpFile, Exit
  <2>2. CASE ~Exit("failure")
    BY <1>7, <2>2 DEF FrameA, SlurpFile
  <2>3. QED
    BY <2>1, <2>2
<1>8. CASE FrameA /\ WaitEmpty
  BY <1>8 DEF FrameA, WaitEmpty
<1>9. CASE FrameA /\ LockA
  BY <1>9 DEF FrameA, LockA
<1>10. CASE FrameA /\ FillBuffer
  <2> DEFINE room == BufferSize - Len(buffer)
             n    == IF eof THEN 0 ELSE SmallerOf(room, file - pos)
  <2>1. room \in 0..BufferSize /\ n \in 0..room
    BY DEF SmallerOf
  <2>2. Bytes(pos, pos + n) \in Seq(Nat) /\ Len(Bytes(pos, pos + n)) = n
    <3>1. pos \in Nat
      OBVIOUS
    <3> HIDE DEF TypeOK, StreamInFile, n
    <3>2. n \in Nat
      BY <2>1
    <3>3. pos + n \in Nat /\ pos <= pos + n /\ (pos + n) - pos = n
      BY <3>1, <3>2
    <3> QED
      BY <3>1, <3>3, BytesTyped
  <2> HIDE DEF n
  <2>3. buffer' = buffer \o Bytes(pos, pos + n) /\ pos' = pos + n /\ read_bytes' = n
    BY <1>10 DEF FillBuffer, n
  <2>4. buffer' \in Seq(Nat) /\ Len(buffer') <= BufferSize
    BY <2>1, <2>2, <2>3
  <2>5. pos' \in Nat /\ read_bytes' \in 0..BufferSize
    BY <2>1, <2>3
  <2>6. eof' \in BOOLEAN
    BY <1>10, Zenon DEF FillBuffer
  <2>7. QED
    BY <1>10, <2>4, <2>5, <2>6 DEF FrameA, FillBuffer
<1>11. CASE FrameA /\ UnlockA
  BY <1>11 DEF FrameA, UnlockA
<1>12. CASE FrameA /\ PostFull
  BY <1>12 DEF FrameA, PostFull
<1>13. CASE FrameA /\ TestLast
  BY <1>13 DEF FrameA, TestLast
<1>14. CASE FrameA /\ PostLast
  BY <1>14 DEF FrameA, PostLast
<1>15. CASE FrameB /\ ClearCount
  BY <1>15 DEF FrameB, ClearCount
<1>16. CASE FrameB /\ WaitFull
  BY <1>16 DEF FrameB, WaitFull
<1>17. CASE FrameB /\ LockB
  BY <1>17 DEF FrameB, LockB
<1>18. CASE FrameB /\ CountBuffer
  BY <1>18 DEF FrameB, CountBuffer
<1>19. CASE FrameB /\ UnlockB
  BY <1>19 DEF FrameB, UnlockB
<1>20. CASE FrameB /\ PostEmpty
  BY <1>20 DEF FrameB, PostEmpty
<1>21. CASE FrameB /\ HashFile
  BY <1>21 DEF FrameB, HashFile
<1>22. CASE FrameB /\ WriteHash
  BY <1>22 DEF FrameB, WriteHash
<1>23. CASE FrameB /\ ReadKey
  <2>1. CASE \E status \in {"failure", "crashed"} : Exit(status)
    BY <1>23, <2>1 DEF FrameB, Exit
  <2>2. CASE pcB' = "save" /\ UNCHANGED <<proc, sems, buffer, counted, outputs>>
    BY <1>23, <2>2 DEF FrameB
  <2>3. QED
    BY <1>23, <2>1, <2>2 DEF ReadKey
<1>24. CASE FrameB /\ SaveEncrypted
  BY <1>24 DEF FrameB, SaveEncrypted
<1>25. CASE Append1
  BY <1>25 DEF Append1
<1>26. CASE UNCHANGED vars
  BY <1>26 DEF vars
<1>27. QED
  BY <1>0, <1>1, <1>2, <1>3, <1>4, <1>4a, <1>5, <1>6, <1>7, <1>8, <1>9, <1>10, <1>11, 
     <1>12, <1>13, <1>14, <1>15, <1>16, <1>17, <1>18, <1>19, <1>20, <1>21, 
     <1>22, <1>23, <1>24, <1>25, <1>26
     DEF Next, Main, ThreadA, ThreadB

(* Every step keeps the order of the creations. *)
LEMMA StartStep == StartOrder /\ [Next]_vars => StartOrder'
<1> SUFFICES ASSUME StartOrder, [Next]_vars PROVE StartOrder'
  OBVIOUS
<1> USE BufferSizeAssumption, FileSizeAssumption DEF StartOrder, sems, stream, memory, outputs
<1>0. CASE MainFrame /\ Prepare
  BY <1>0 DEF MainFrame, Prepare, Exit
<1>1. CASE MainFrame /\ CreateA
  BY <1>1 DEF MainFrame, CreateA, Exit
<1>2. CASE MainFrame /\ CreateB
  BY <1>2 DEF MainFrame, CreateB, Exit
<1>3. CASE MainFrame /\ Join
  BY <1>3 DEF MainFrame, Join
<1>4. CASE MainFrame /\ CleanUp
  BY <1>4 DEF MainFrame, CleanUp, Exit
<1>4a. CASE MainFrame /\ JoinFails
  BY <1>4a DEF MainFrame, JoinFails, Exit
<1>5. CASE FrameA /\ OpenFile
  BY <1>5 DEF FrameA, OpenFile, Exit
<1>6. CASE FrameA /\ MeasureFile
  BY <1>6 DEF FrameA, MeasureFile
<1>7. CASE FrameA /\ SlurpFile
  BY <1>7 DEF FrameA, SlurpFile, Exit
<1>8. CASE FrameA /\ WaitEmpty
  BY <1>8 DEF FrameA, WaitEmpty
<1>9. CASE FrameA /\ LockA
  BY <1>9 DEF FrameA, LockA
<1>10. CASE FrameA /\ FillBuffer
  BY <1>10 DEF FrameA, FillBuffer
<1>11. CASE FrameA /\ UnlockA
  BY <1>11 DEF FrameA, UnlockA
<1>12. CASE FrameA /\ PostFull
  BY <1>12 DEF FrameA, PostFull
<1>13. CASE FrameA /\ TestLast
  BY <1>13 DEF FrameA, TestLast
<1>14. CASE FrameA /\ PostLast
  BY <1>14 DEF FrameA, PostLast
<1>15. CASE FrameB /\ ClearCount
  BY <1>15 DEF FrameB, ClearCount
<1>16. CASE FrameB /\ WaitFull
  BY <1>16 DEF FrameB, WaitFull
<1>17. CASE FrameB /\ LockB
  BY <1>17 DEF FrameB, LockB
<1>18. CASE FrameB /\ CountBuffer
  BY <1>18 DEF FrameB, CountBuffer
<1>19. CASE FrameB /\ UnlockB
  BY <1>19 DEF FrameB, UnlockB
<1>20. CASE FrameB /\ PostEmpty
  BY <1>20 DEF FrameB, PostEmpty
<1>21. CASE FrameB /\ HashFile
  BY <1>21 DEF FrameB, HashFile
<1>22. CASE FrameB /\ WriteHash
  BY <1>22 DEF FrameB, WriteHash
<1>23. CASE FrameB /\ ReadKey
  BY <1>23 DEF FrameB, ReadKey, Exit
<1>24. CASE FrameB /\ SaveEncrypted
  BY <1>24 DEF FrameB, SaveEncrypted
<1>25. CASE Append1
  BY <1>25 DEF Append1
<1>26. CASE UNCHANGED vars
  BY <1>26 DEF vars
<1>27. QED
  BY <1>0, <1>1, <1>2, <1>3, <1>4, <1>4a, <1>5, <1>6, <1>7, <1>8, <1>9, <1>10, <1>11, 
     <1>12, <1>13, <1>14, <1>15, <1>16, <1>17, <1>18, <1>19, <1>20, <1>21, 
     <1>22, <1>23, <1>24, <1>25, <1>26
     DEF Next, Main, ThreadA, ThreadB

(* Every step keeps the account of the mutex. *)
LEMMA MutexStep == TypeOK /\ StartOrder /\ MutexAccount /\ [Next]_vars => MutexAccount'
<1> SUFFICES ASSUME TypeOK /\ StartOrder /\ MutexAccount, [Next]_vars PROVE MutexAccount'
  OBVIOUS
<1> USE BufferSizeAssumption, FileSizeAssumption DEF TypeOK, sems, stream, memory, outputs, StartOrder, MutexAccount, AInside, BInside, Bit
<1>0. CASE MainFrame /\ Prepare
  BY <1>0 DEF MainFrame, Prepare, Exit
<1>1. CASE MainFrame /\ CreateA
  BY <1>1 DEF MainFrame, CreateA, Exit
<1>2. CASE MainFrame /\ CreateB
  BY <1>2 DEF MainFrame, CreateB, Exit
<1>3. CASE MainFrame /\ Join
  BY <1>3 DEF MainFrame, Join
<1>4. CASE MainFrame /\ CleanUp
  BY <1>4 DEF MainFrame, CleanUp, Exit
<1>4a. CASE MainFrame /\ JoinFails
  BY <1>4a DEF MainFrame, JoinFails, Exit
<1>5. CASE FrameA /\ OpenFile
  BY <1>5 DEF FrameA, OpenFile, Exit
<1>6. CASE FrameA /\ MeasureFile
  BY <1>6 DEF FrameA, MeasureFile
<1>7. CASE FrameA /\ SlurpFile
  BY <1>7 DEF FrameA, SlurpFile, Exit
<1>8. CASE FrameA /\ WaitEmpty
  BY <1>8 DEF FrameA, WaitEmpty
<1>9. CASE FrameA /\ LockA
  BY <1>9 DEF FrameA, LockA
<1>10. CASE FrameA /\ FillBuffer
  BY <1>10 DEF FrameA, FillBuffer
<1>11. CASE FrameA /\ UnlockA
  BY <1>11 DEF FrameA, UnlockA
<1>12. CASE FrameA /\ PostFull
  BY <1>12 DEF FrameA, PostFull
<1>13. CASE FrameA /\ TestLast
  BY <1>13 DEF FrameA, TestLast
<1>14. CASE FrameA /\ PostLast
  BY <1>14 DEF FrameA, PostLast
<1>15. CASE FrameB /\ ClearCount
  BY <1>15 DEF FrameB, ClearCount
<1>16. CASE FrameB /\ WaitFull
  BY <1>16 DEF FrameB, WaitFull
<1>17. CASE FrameB /\ LockB
  BY <1>17 DEF FrameB, LockB
<1>18. CASE FrameB /\ CountBuffer
  BY <1>18 DEF FrameB, CountBuffer
<1>19. CASE FrameB /\ UnlockB
  BY <1>19 DEF FrameB, UnlockB
<1>20. CASE FrameB /\ PostEmpty
  BY <1>20 DEF FrameB, PostEmpty
<1>21. CASE FrameB /\ HashFile
  BY <1>21 DEF FrameB, HashFile
<1>22. CASE FrameB /\ WriteHash
  BY <1>22 DEF FrameB, WriteHash
<1>23. CASE FrameB /\ ReadKey
  BY <1>23 DEF FrameB, ReadKey, Exit
<1>24. CASE FrameB /\ SaveEncrypted
  BY <1>24 DEF FrameB, SaveEncrypted
<1>25. CASE Append1
  BY <1>25 DEF Append1
<1>26. CASE UNCHANGED vars
  BY <1>26 DEF vars
<1>27. QED
  BY <1>0, <1>1, <1>2, <1>3, <1>4, <1>4a, <1>5, <1>6, <1>7, <1>8, <1>9, <1>10, <1>11, 
     <1>12, <1>13, <1>14, <1>15, <1>16, <1>17, <1>18, <1>19, <1>20, <1>21, 
     <1>22, <1>23, <1>24, <1>25, <1>26
     DEF Next, Main, ThreadA, ThreadB

(* Every step keeps the account of the slots. *)
LEMMA SlotStep == TypeOK /\ StartOrder /\ SlotAccount /\ [Next]_vars => SlotAccount'
<1> SUFFICES ASSUME TypeOK /\ StartOrder /\ SlotAccount, [Next]_vars PROVE SlotAccount'
  OBVIOUS
<1> USE BufferSizeAssumption, FileSizeAssumption DEF TypeOK, sems, stream, memory, outputs, StartOrder, SlotAccount, ACarries, BCarries, Bit
<1>0. CASE MainFrame /\ Prepare
  BY <1>0 DEF MainFrame, Prepare, Exit
<1>1. CASE MainFrame /\ CreateA
  BY <1>1 DEF MainFrame, CreateA, Exit
<1>2. CASE MainFrame /\ CreateB
  BY <1>2 DEF MainFrame, CreateB, Exit
<1>3. CASE MainFrame /\ Join
  BY <1>3 DEF MainFrame, Join
<1>4. CASE MainFrame /\ CleanUp
  BY <1>4 DEF MainFrame, CleanUp, Exit
<1>4a. CASE MainFrame /\ JoinFails
  BY <1>4a DEF MainFrame, JoinFails, Exit
<1>5. CASE FrameA /\ OpenFile
  BY <1>5 DEF FrameA, OpenFile, Exit
<1>6. CASE FrameA /\ MeasureFile
  BY <1>6 DEF FrameA, MeasureFile
<1>7. CASE FrameA /\ SlurpFile
  BY <1>7 DEF FrameA, SlurpFile, Exit
<1>8. CASE FrameA /\ WaitEmpty
  BY <1>8 DEF FrameA, WaitEmpty
<1>9. CASE FrameA /\ LockA
  BY <1>9 DEF FrameA, LockA
<1>10. CASE FrameA /\ FillBuffer
  BY <1>10 DEF FrameA, FillBuffer
<1>11. CASE FrameA /\ UnlockA
  BY <1>11 DEF FrameA, UnlockA
<1>12. CASE FrameA /\ PostFull
  BY <1>12 DEF FrameA, PostFull
<1>13. CASE FrameA /\ TestLast
  BY <1>13 DEF FrameA, TestLast
<1>14. CASE FrameA /\ PostLast
  BY <1>14 DEF FrameA, PostLast
<1>15. CASE FrameB /\ ClearCount
  BY <1>15 DEF FrameB, ClearCount
<1>16. CASE FrameB /\ WaitFull
  BY <1>16 DEF FrameB, WaitFull
<1>17. CASE FrameB /\ LockB
  BY <1>17 DEF FrameB, LockB
<1>18. CASE FrameB /\ CountBuffer
  BY <1>18 DEF FrameB, CountBuffer
<1>19. CASE FrameB /\ UnlockB
  BY <1>19 DEF FrameB, UnlockB
<1>20. CASE FrameB /\ PostEmpty
  BY <1>20 DEF FrameB, PostEmpty
<1>21. CASE FrameB /\ HashFile
  BY <1>21 DEF FrameB, HashFile
<1>22. CASE FrameB /\ WriteHash
  BY <1>22 DEF FrameB, WriteHash
<1>23. CASE FrameB /\ ReadKey
  BY <1>23 DEF FrameB, ReadKey, Exit
<1>24. CASE FrameB /\ SaveEncrypted
  BY <1>24 DEF FrameB, SaveEncrypted
<1>25. CASE Append1
  BY <1>25 DEF Append1
<1>26. CASE UNCHANGED vars
  BY <1>26 DEF vars
<1>27. QED
  BY <1>0, <1>1, <1>2, <1>3, <1>4, <1>4a, <1>5, <1>6, <1>7, <1>8, <1>9, <1>10, <1>11, 
     <1>12, <1>13, <1>14, <1>15, <1>16, <1>17, <1>18, <1>19, <1>20, <1>21, 
     <1>22, <1>23, <1>24, <1>25, <1>26
     DEF Next, Main, ThreadA, ThreadB

(* Every step keeps the stream within the file. *)
LEMMA StreamStep == TypeOK /\ StartOrder /\ StreamInFile /\ SlurpFirst /\ [Next]_vars => StreamInFile'
<1> SUFFICES ASSUME TypeOK /\ StartOrder /\ StreamInFile /\ SlurpFirst, [Next]_vars PROVE StreamInFile'
  OBVIOUS
<1> USE BufferSizeAssumption, FileSizeAssumption DEF TypeOK, sems, stream, memory, outputs, StartOrder, StreamInFile, SlurpFirst, BeforeSlurp
<1>0. CASE MainFrame /\ Prepare
  BY <1>0 DEF MainFrame, Prepare, Exit
<1>1. CASE MainFrame /\ CreateA
  BY <1>1 DEF MainFrame, CreateA, Exit
<1>2. CASE MainFrame /\ CreateB
  BY <1>2 DEF MainFrame, CreateB, Exit
<1>3. CASE MainFrame /\ Join
  BY <1>3 DEF MainFrame, Join
<1>4. CASE MainFrame /\ CleanUp
  BY <1>4 DEF MainFrame, CleanUp, Exit
<1>4a. CASE MainFrame /\ JoinFails
  BY <1>4a DEF MainFrame, JoinFails, Exit
<1>5. CASE FrameA /\ OpenFile
  BY <1>5 DEF FrameA, OpenFile, Exit
<1>6. CASE FrameA /\ MeasureFile
  BY <1>6 DEF FrameA, MeasureFile
<1>7. CASE FrameA /\ SlurpFile
  BY <1>7 DEF FrameA, SlurpFile, Exit
<1>8. CASE FrameA /\ WaitEmpty
  BY <1>8 DEF FrameA, WaitEmpty
<1>9. CASE FrameA /\ LockA
  BY <1>9 DEF FrameA, LockA
<1>10. CASE FrameA /\ FillBuffer
  <2> DEFINE n == IF eof THEN 0 ELSE SmallerOf(BufferSize - Len(buffer), file - pos)
  <2>1. n \in Nat /\ pos + n <= file
    BY DEF SmallerOf
  <2> HIDE DEF n
  <2>2. pos' = pos + n
    BY <1>10 DEF FillBuffer, n
  <2>3. QED
    BY <1>10, <2>1, <2>2 DEF FrameA, FillBuffer
<1>11. CASE FrameA /\ UnlockA
  BY <1>11 DEF FrameA, UnlockA
<1>12. CASE FrameA /\ PostFull
  BY <1>12 DEF FrameA, PostFull
<1>13. CASE FrameA /\ TestLast
  BY <1>13 DEF FrameA, TestLast
<1>14. CASE FrameA /\ PostLast
  BY <1>14 DEF FrameA, PostLast
<1>15. CASE FrameB /\ ClearCount
  BY <1>15 DEF FrameB, ClearCount
<1>16. CASE FrameB /\ WaitFull
  BY <1>16 DEF FrameB, WaitFull
<1>17. CASE FrameB /\ LockB
  BY <1>17 DEF FrameB, LockB
<1>18. CASE FrameB /\ CountBuffer
  BY <1>18 DEF FrameB, CountBuffer
<1>19. CASE FrameB /\ UnlockB
  BY <1>19 DEF FrameB, UnlockB
<1>20. CASE FrameB /\ PostEmpty
  BY <1>20 DEF FrameB, PostEmpty
<1>21. CASE FrameB /\ HashFile
  BY <1>21 DEF FrameB, HashFile
<1>22. CASE FrameB /\ WriteHash
  BY <1>22 DEF FrameB, WriteHash
<1>23. CASE FrameB /\ ReadKey
  BY <1>23 DEF FrameB, ReadKey, Exit
<1>24. CASE FrameB /\ SaveEncrypted
  BY <1>24 DEF FrameB, SaveEncrypted
<1>25. CASE Append1
  BY <1>25 DEF Append1
<1>26. CASE UNCHANGED vars
  BY <1>26 DEF vars
<1>27. QED
  BY <1>0, <1>1, <1>2, <1>3, <1>4, <1>4a, <1>5, <1>6, <1>7, <1>8, <1>9, <1>10, <1>11, 
     <1>12, <1>13, <1>14, <1>15, <1>16, <1>17, <1>18, <1>19, <1>20, <1>21, 
     <1>22, <1>23, <1>24, <1>25, <1>26
     DEF Next, Main, ThreadA, ThreadB

(* Nothing is posted before the slurp. *)
LEMMA SlurpStep == TypeOK /\ StartOrder /\ StreamInFile /\ SlurpFirst /\ [Next]_vars => SlurpFirst'
<1> SUFFICES ASSUME TypeOK /\ StartOrder /\ StreamInFile /\ SlurpFirst, [Next]_vars PROVE SlurpFirst'
  OBVIOUS
<1> USE BufferSizeAssumption, FileSizeAssumption DEF TypeOK, sems, stream, memory, outputs, StartOrder, StreamInFile, SlurpFirst, BeforeSlurp, BCarries
<1>0. CASE MainFrame /\ Prepare
  BY <1>0 DEF MainFrame, Prepare, Exit
<1>1. CASE MainFrame /\ CreateA
  BY <1>1 DEF MainFrame, CreateA, Exit
<1>2. CASE MainFrame /\ CreateB
  BY <1>2 DEF MainFrame, CreateB, Exit
<1>3. CASE MainFrame /\ Join
  BY <1>3 DEF MainFrame, Join
<1>4. CASE MainFrame /\ CleanUp
  BY <1>4 DEF MainFrame, CleanUp, Exit
<1>4a. CASE MainFrame /\ JoinFails
  BY <1>4a DEF MainFrame, JoinFails, Exit
<1>5. CASE FrameA /\ OpenFile
  BY <1>5 DEF FrameA, OpenFile, Exit
<1>6. CASE FrameA /\ MeasureFile
  BY <1>6 DEF FrameA, MeasureFile
<1>7. CASE FrameA /\ SlurpFile
  BY <1>7 DEF FrameA, SlurpFile, Exit
<1>8. CASE FrameA /\ WaitEmpty
  BY <1>8 DEF FrameA, WaitEmpty
<1>9. CASE FrameA /\ LockA
  BY <1>9 DEF FrameA, LockA
<1>10. CASE FrameA /\ FillBuffer
  BY <1>10 DEF FrameA, FillBuffer
<1>11. CASE FrameA /\ UnlockA
  BY <1>11 DEF FrameA, UnlockA
<1>12. CASE FrameA /\ PostFull
  BY <1>12 DEF FrameA, PostFull
<1>13. CASE FrameA /\ TestLast
  BY <1>13 DEF FrameA, TestLast
<1>14. CASE FrameA /\ PostLast
  BY <1>14 DEF FrameA, PostLast
<1>15. CASE FrameB /\ ClearCount
  BY <1>15 DEF FrameB, ClearCount
<1>16. CASE FrameB /\ WaitFull
  BY <1>16 DEF FrameB, WaitFull
<1>17. CASE FrameB /\ LockB
  BY <1>17 DEF FrameB, LockB
<1>18. CASE FrameB /\ CountBuffer
  BY <1>18 DEF FrameB, CountBuffer
<1>19. CASE FrameB /\ UnlockB
  BY <1>19 DEF FrameB, UnlockB
<1>20. CASE FrameB /\ PostEmpty
  BY <1>20 DEF FrameB, PostEmpty
<1>21. CASE FrameB /\ HashFile
  BY <1>21 DEF FrameB, HashFile
<1>22. CASE FrameB /\ WriteHash
  BY <1>22 DEF FrameB, WriteHash
<1>23. CASE FrameB /\ ReadKey
  BY <1>23 DEF FrameB, ReadKey, Exit
<1>24. CASE FrameB /\ SaveEncrypted
  BY <1>24 DEF FrameB, SaveEncrypted
<1>25. CASE Append1
  BY <1>25 DEF Append1
<1>26. CASE UNCHANGED vars
  BY <1>26 DEF vars
<1>27. QED
  BY <1>0, <1>1, <1>2, <1>3, <1>4, <1>4a, <1>5, <1>6, <1>7, <1>8, <1>9, <1>10, <1>11, 
     <1>12, <1>13, <1>14, <1>15, <1>16, <1>17, <1>18, <1>19, <1>20, <1>21, 
     <1>22, <1>23, <1>24, <1>25, <1>26
     DEF Next, Main, ThreadA, ThreadB

(* A hash of the file on disk covers every earlier size of it. *)
LEMMA HashCovers ==
  ASSUME NEW size \in Nat, NEW later \in Nat, size <= later,
         NEW n \in 0..later, n = later \/ n + 1 \in ZeroBytes
  PROVE  Covers(n, size)
<1> SUFFICES ASSUME NEW i \in 1..size, NoZeroUpTo(i), ~(i <= n) PROVE FALSE
  BY DEF Covers
<1>1. n + 1 \in 1..i
  OBVIOUS
<1>2. QED
  BY <1>1 DEF NoZeroUpTo

(* The outputs are written in order. *)
LEMMA OutputStep == TypeOK /\ StartOrder /\ StreamInFile /\ SlurpFirst /\ OutputOrder /\ [Next]_vars => OutputOrder'
<1> SUFFICES ASSUME TypeOK /\ StartOrder /\ StreamInFile /\ SlurpFirst /\ OutputOrder, [Next]_vars PROVE OutputOrder'
  OBVIOUS
<1> USE BufferSizeAssumption, FileSizeAssumption DEF TypeOK, sems, stream, memory, outputs, StartOrder, StreamInFile, SlurpFirst, OutputOrder, BCarries, BeforeSlurp
<1>0. CASE MainFrame /\ Prepare
  BY <1>0 DEF MainFrame, Prepare, Exit
<1>1. CASE MainFrame /\ CreateA
  BY <1>1 DEF MainFrame, CreateA, Exit
<1>2. CASE MainFrame /\ CreateB
  BY <1>2 DEF MainFrame, CreateB, Exit
<1>3. CASE MainFrame /\ Join
  BY <1>3 DEF MainFrame, Join
<1>4. CASE MainFrame /\ CleanUp
  BY <1>4 DEF MainFrame, CleanUp, Exit
<1>4a. CASE MainFrame /\ JoinFails
  BY <1>4a DEF MainFrame, JoinFails, Exit
<1>5. CASE FrameA /\ OpenFile
  BY <1>5 DEF FrameA, OpenFile, Exit
<1>6. CASE FrameA /\ MeasureFile
  BY <1>6 DEF FrameA, MeasureFile
<1>7. CASE FrameA /\ SlurpFile
  BY <1>7 DEF FrameA, SlurpFile, Exit
<1>8. CASE FrameA /\ WaitEmpty
  BY <1>8 DEF FrameA, WaitEmpty
<1>9. CASE FrameA /\ LockA
  BY <1>9 DEF FrameA, LockA
<1>10. CASE FrameA /\ FillBuffer
  BY <1>10 DEF FrameA, FillBuffer
<1>11. CASE FrameA /\ UnlockA
  BY <1>11 DEF FrameA, UnlockA
<1>12. CASE FrameA /\ PostFull
  BY <1>12 DEF FrameA, PostFull
<1>13. CASE FrameA /\ TestLast
  BY <1>13 DEF FrameA, TestLast
<1>14. CASE FrameA /\ PostLast
  BY <1>14 DEF FrameA, PostLast
<1>15. CASE FrameB /\ ClearCount
  BY <1>15 DEF FrameB, ClearCount
<1>16. CASE FrameB /\ WaitFull
  BY <1>16 DEF FrameB, WaitFull
<1>17. CASE FrameB /\ LockB
  BY <1>17 DEF FrameB, LockB
<1>18. CASE FrameB /\ CountBuffer
  BY <1>18 DEF FrameB, CountBuffer
<1>19. CASE FrameB /\ UnlockB
  BY <1>19 DEF FrameB, UnlockB
<1>20. CASE FrameB /\ PostEmpty
  BY <1>20 DEF FrameB, PostEmpty
<1>21. CASE FrameB /\ HashFile
  <2>1. file_size \in Nat /\ contents # None /\ file_size <= file /\ file \in Nat
    BY <1>21 DEF HashFile
  <2>2. CASE pcB' = "done" /\ UNCHANGED hashed
    BY <1>21, <2>2 DEF FrameB, HashFile
  <2>3. CASE \E n \in 0..file : /\ NoZeroUpTo(n) /\ (n = file \/ n + 1 \in ZeroBytes)
                              /\ hashed' = n
    <3>1. Covers(hashed', file_size)
      BY <2>1, <2>3, HashCovers
    <3>2. hashed' # None
      BY <2>3
    <3>3. QED
      BY <1>21, <2>1, <3>1, <3>2 DEF FrameB, HashFile
  <2>4. QED
    BY <1>21, <2>2, <2>3 DEF HashFile
<1>22. CASE FrameB /\ WriteHash
  BY <1>22 DEF FrameB, WriteHash
<1>23. CASE FrameB /\ ReadKey
  BY <1>23 DEF FrameB, ReadKey, Exit
<1>24. CASE FrameB /\ SaveEncrypted
  BY <1>24 DEF FrameB, SaveEncrypted
<1>25. CASE Append1
  BY <1>25 DEF Append1
<1>26. CASE UNCHANGED vars
  BY <1>26 DEF vars
<1>27. QED
  BY <1>0, <1>1, <1>2, <1>3, <1>4, <1>4a, <1>5, <1>6, <1>7, <1>8, <1>9, <1>10, <1>11, 
     <1>12, <1>13, <1>14, <1>15, <1>16, <1>17, <1>18, <1>19, <1>20, <1>21, 
     <1>22, <1>23, <1>24, <1>25, <1>26
     DEF Next, Main, ThreadA, ThreadB

LEMMA JoinTyped ==
  ASSUME NEW s \in Seq(Nat), NEW t \in Seq(Nat)
  PROVE  s \o t \in Seq(Nat) /\ s \o <<>> = s /\ (s \o t = <<>> => s = <<>> /\ t = <<>>)
<1>1. s \o t \in Seq(Nat) /\ Len(s \o t) = Len(s) + Len(t)
  OBVIOUS
<1>2. s \o <<>> = s
  OBVIOUS
<1>3. s \o t = <<>> => s = <<>> /\ t = <<>>
  <2> HAVE s \o t = <<>>
  <2>1. Len(s) = 0 /\ Len(t) = 0
    BY <1>1
  <2>2. QED
    BY <2>1
<1>4. QED
  BY <1>1, <1>2, <1>3

LEMMA JoinAssociative ==
  ASSUME NEW s \in Seq(Nat), NEW t \in Seq(Nat), NEW u \in Seq(Nat)
  PROVE  (s \o t) \o u = s \o (t \o u)
<1> DEFINE l == (s \o t) \o u
           r == s \o (t \o u)
<1>1. s \o t \in Seq(Nat) /\ t \o u \in Seq(Nat)
  BY JoinTyped
<1>2. l \in Seq(Nat) /\ r \in Seq(Nat) /\ Len(l) = Len(r)
  BY <1>1
<1>3. \A i \in 1..Len(l) : l[i] = r[i]
  BY <1>1
<1> HIDE DEF l, r
<1>4. l = r
  BY <1>2, <1>3, SameElements
<1>5. QED
  BY <1>4 DEF l, r

(* What thread_B has counted and the buffer are sequences of positions.    *)
LEMMA CountedTyped == TypeOK => CountedByB \in Seq(Nat) /\ buffer \in Seq(Nat)
<1> HAVE TypeOK
<1>1. counted \in Seq(Nat) /\ buffer \in Seq(Nat) /\ <<>> \in Seq(Nat)
  BY DEF TypeOK
<1>2. QED
  BY <1>1 DEF CountedByB

(* FillBuffer moves the next n bytes of the file, n at most the room left. *)
LEMMA FillTakes ==
  ASSUME TypeOK, StreamInFile, FillBuffer
  PROVE  \E n \in 0..(BufferSize - Len(buffer)) :
           buffer' = buffer \o Bytes(pos, pos + n) /\ pos' = pos + n
<1> DEFINE room == BufferSize - Len(buffer)
           n    == IF eof THEN 0 ELSE SmallerOf(room, file - pos)
<1>1. n \in 0..room
  BY BufferSizeAssumption DEF TypeOK, StreamInFile, SmallerOf
<1>2. buffer' = buffer \o Bytes(pos, pos + n) /\ pos' = pos + n
  BY DEF FillBuffer
<1> HIDE DEF n
<1>3. QED
  BY <1>1, <1>2

(* No step loses or repeats a byte. *)
LEMMA BytesStep == TypeOK /\ StartOrder /\ StreamInFile /\ SlurpFirst /\ BytesConserved /\ [Next]_vars => BytesConserved'
<1> SUFFICES ASSUME TypeOK /\ StartOrder /\ StreamInFile /\ SlurpFirst /\ BytesConserved, [Next]_vars PROVE BytesConserved'
  OBVIOUS
<1> USE BufferSizeAssumption, FileSizeAssumption DEF sems, stream, memory, outputs, BytesConserved, CountedByB, BCleared, LoopStart
<1>0. CASE MainFrame /\ Prepare
  BY <1>0 DEF MainFrame, Prepare, Exit
<1>1. CASE MainFrame /\ CreateA
  BY <1>1 DEF MainFrame, CreateA, Exit
<1>2. CASE MainFrame /\ CreateB
  BY <1>2 DEF MainFrame, CreateB, Exit, StartOrder
<1>3. CASE MainFrame /\ Join
  BY <1>3 DEF MainFrame, Join
<1>4. CASE MainFrame /\ CleanUp
  BY <1>4 DEF MainFrame, CleanUp, Exit
<1>4a. CASE MainFrame /\ JoinFails
  BY <1>4a DEF MainFrame, JoinFails, Exit
<1>5. CASE FrameA /\ OpenFile
  BY <1>5 DEF FrameA, OpenFile, Exit
<1>6. CASE FrameA /\ MeasureFile
  <2>1. contents = None
    BY <1>6 DEF MeasureFile, SlurpFirst, BeforeSlurp
  <2>2. QED
    BY <1>6, <2>1 DEF MeasureFile, FrameA, BCleared
<1>7. CASE FrameA /\ SlurpFile
  <2>1. CASE Exit("failure")
    BY <1>7, <2>1 DEF FrameA, Exit
  <2>2. CASE ~Exit("failure")
    <3>1. CountedByB \o buffer = <<>> /\ Bytes(pos', pos') = <<>>
      BY <1>7, <2>2, BytesEmpty DEF SlurpFile, SlurpFirst, BeforeSlurp, StreamInFile, TypeOK
    <3>2. LoopStart' = pos'
      BY <1>7, <2>2 DEF SlurpFile
    <3>3. CountedByB' = CountedByB /\ buffer' = buffer
      BY <1>7, <2>2 DEF SlurpFile, FrameA, BCleared
    <3>4. QED
      BY <3>1, <3>2, <3>3
  <2>3. QED
    BY <2>1, <2>2
<1>8. CASE FrameA /\ WaitEmpty
  BY <1>8 DEF FrameA, WaitEmpty
<1>9. CASE FrameA /\ LockA
  BY <1>9 DEF FrameA, LockA
<1>10. CASE FrameA /\ FillBuffer
  <2>1. PICK n \in 0..(BufferSize - Len(buffer)) :
               buffer' = buffer \o Bytes(pos, pos + n) /\ pos' = pos + n
    BY <1>10, FillTakes
  <2>2. n \in Nat /\ pos \in Nat /\ pos + n \in Nat /\ pos <= pos + n
    BY DEF TypeOK
  <2>3. LoopStart \in Nat /\ LoopStart <= pos /\ LoopStart' = LoopStart
    <3>1. LoopStart \in Nat /\ LoopStart <= pos
      <4>1. pos \in Nat /\ file_size \in Nat \cup {None}
        BY DEF TypeOK
      <4>2. contents # None => file_size # None /\ file_size <= pos
        BY DEF StreamInFile, SlurpFirst
      <4>3. QED
        BY <4>1, <4>2
    <3>2. LoopStart' = LoopStart
      BY <1>10 DEF FillBuffer, SlurpFirst, BeforeSlurp
    <3>3. QED
      BY <3>1, <3>2
  <2>4. CountedByB' = CountedByB
    BY <1>10 DEF FrameA, BCleared
  <2>5. Bytes(pos, pos + n) \in Seq(Nat)
    BY <2>2, BytesTyped
  <2> HIDE DEF CountedByB, LoopStart
  <2>6. Bytes(LoopStart, pos) \o Bytes(pos, pos + n) = Bytes(LoopStart, pos + n)
    BY <2>2, <2>3, BytesJoin
  <2>7. CountedByB \o (buffer \o Bytes(pos, pos + n))
          = (CountedByB \o buffer) \o Bytes(pos, pos + n)
    BY <2>5, CountedTyped, JoinAssociative
  <2>8. QED
    BY <2>1, <2>3, <2>4, <2>6, <2>7
<1>11. CASE FrameA /\ UnlockA
  BY <1>11 DEF FrameA, UnlockA
<1>12. CASE FrameA /\ PostFull
  BY <1>12 DEF FrameA, PostFull
<1>13. CASE FrameA /\ TestLast
  BY <1>13 DEF FrameA, TestLast
<1>14. CASE FrameA /\ PostLast
  BY <1>14 DEF FrameA, PostLast
<1>15. CASE FrameB /\ ClearCount
  BY <1>15 DEF FrameB, ClearCount
<1>16. CASE FrameB /\ WaitFull
  BY <1>16 DEF FrameB, WaitFull
<1>17. CASE FrameB /\ LockB
  BY <1>17 DEF FrameB, LockB
<1>18. CASE FrameB /\ CountBuffer
  <2>1. CountedByB = counted /\ CountedByB' = counted' /\ counted' = counted \o buffer
    BY <1>18 DEF CountBuffer, BCleared
  <2>2. buffer' = <<>> /\ LoopStart' = LoopStart /\ pos' = pos
    BY <1>18 DEF CountBuffer, FrameB
  <2>3. (counted \o buffer) \o <<>> = counted \o buffer
    <3>1. counted \o buffer \in Seq(Nat)
      BY DEF TypeOK
    <3>2. QED
      BY <3>1, JoinTyped
  <2>4. QED
    BY <2>1, <2>2, <2>3
<1>19. CASE FrameB /\ UnlockB
  BY <1>19 DEF FrameB, UnlockB
<1>20. CASE FrameB /\ PostEmpty
  BY <1>20 DEF FrameB, PostEmpty
<1>21. CASE FrameB /\ HashFile
  BY <1>21 DEF FrameB, HashFile
<1>22. CASE FrameB /\ WriteHash
  BY <1>22 DEF FrameB, WriteHash
<1>23. CASE FrameB /\ ReadKey
  BY <1>23 DEF FrameB, ReadKey, Exit
<1>24. CASE FrameB /\ SaveEncrypted
  BY <1>24 DEF FrameB, SaveEncrypted
<1>25. CASE Append1
  BY <1>25 DEF Append1
<1>26. CASE UNCHANGED vars
  BY <1>26 DEF vars
<1>27. QED
  BY <1>0, <1>1, <1>2, <1>3, <1>4, <1>4a, <1>5, <1>6, <1>7, <1>8, <1>9, <1>10, <1>11, 
     <1>12, <1>13, <1>14, <1>15, <1>16, <1>17, <1>18, <1>19, <1>20, <1>21, 
     <1>22, <1>23, <1>24, <1>25, <1>26
     DEF Next, Main, ThreadA, ThreadB

-----------------------------------------------------------------------------
(* The theorems *)

LEMMA InitInv == Init => IInv
<1> SUFFICES ASSUME Init PROVE IInv
  OBVIOUS
<1> USE BufferSizeAssumption, FileSizeAssumption DEF Init
<1>1. TypeOK
  <2>1. <<>> \in Seq(Nat) /\ Len(<<>>) = 0 /\ <<0>> \in Seq(Nat)
    OBVIOUS
  <2>2. counted \in Seq(Nat) /\ buffer \in Seq(Nat)
    BY <2>1, Zenon
  <2>3. buffer = <<>> /\ Len(buffer) = 0 /\ 0 <= BufferSize /\ 0 \in 0..BufferSize
    BY <2>1
  <2>4. file \in Nat /\ eof \in BOOLEAN /\ proc = "running" /\ mutex = 1 /\ empty = BufferSize
        /\ full = 0 /\ pos = 0 /\ read_bytes = 0
        /\ pcM = "prepare" /\ pcA = "none" /\ pcB = "none"
    BY Zenon
  <2>5. {file_size, contents, hashed, hash_file, enc_file} \subseteq Nat \cup {None}
    OBVIOUS
  <2> HIDE DEF Init
  <2>6. QED
    BY <2>2, <2>3, <2>4, <2>5 DEF TypeOK
<1>2. ControlInv
  BY DEF ControlInv, StartOrder, MutexAccount, SlotAccount, StreamInFile, SlurpFirst,
         BeforeSlurp, AInside, BInside, ACarries, BCarries, Bit
<1>3. BytesConserved
  <2>1. <<>> \o <<>> = <<>> /\ Bytes(0, 0) = <<>>
    BY BytesEmpty
  <2>2. QED
    BY <2>1 DEF BytesConserved, CountedByB, BCleared, LoopStart
<1>4. OutputOrder
  BY DEF OutputOrder
<1>5. QED
  BY <1>1, <1>2, <1>3, <1>4 DEF IInv

LEMMA NextInv == IInv /\ [Next]_vars => IInv'
<1> SUFFICES ASSUME IInv, [Next]_vars PROVE IInv'
  OBVIOUS
<1>1. /\ TypeOK /\ StartOrder /\ MutexAccount /\ SlotAccount /\ StreamInFile /\ SlurpFirst
      /\ BytesConserved /\ OutputOrder
  BY DEF IInv, ControlInv
<1>2. TypeOK' /\ StartOrder' /\ MutexAccount' /\ SlotAccount' /\ StreamInFile' /\ SlurpFirst'
  BY <1>1, TypeStep, StartStep, MutexStep, SlotStep, StreamStep, SlurpStep
<1>3. BytesConserved' /\ OutputOrder'
  BY <1>1, BytesStep, OutputStep
<1>4. QED
  BY <1>2, <1>3 DEF IInv, ControlInv

(* The inductive invariant: the accounts of the three semaphores, what is  *)
(* known of the stream and of the outputs at each point of the threads,    *)
(* and the conservation of bytes.                                          *)
THEOREM Inductive == Spec => []IInv
BY InitInv, NextInv, PTL DEF Spec

(* The types; the buffer never holds more than BUFFER_SIZE bytes, however  *)
(* often thread_A gets ahead of thread_B.                                  *)
THEOREM TypeCorrect == Spec => []TypeOK
<1>1. IInv => TypeOK
  BY DEF IInv
<1>2. QED
  BY <1>1, Inductive, PTL

(* The two threads are never both in the section the mutex guards.         *)
THEOREM Exclusion == Spec => []MutualExclusion
<1>1. IInv => MutualExclusion
  BY DEF IInv, ControlInv, TypeOK, MutexAccount, MutualExclusion, Bit
<1>2. QED
  BY <1>1, Inductive, PTL

(* Every byte the loop of thread_A reads is counted once, in order, or is  *)
(* still in the buffer.                                                    *)
THEOREM Conservation == Spec => []BytesConserved
<1>1. IInv => BytesConserved
  BY DEF IInv
<1>2. QED
  BY <1>1, Inductive, PTL

(* thread_B uses file_contents and file_size only after thread_A wrote     *)
(* them, though no lock orders the two.                                    *)
THEOREM ReadyBeforeUse == Spec => []ContentsReady
<1>1. IInv => ContentsReady
  BY DEF IInv, ControlInv, SlurpFirst, StreamInFile, BeforeSlurp, BCarries, ContentsReady
<1>2. QED
  BY <1>1, Inductive, PTL

(* A never waits for an empty slot while B waits for a full one.           *)
THEOREM NoDeadlyEmbrace == Spec => []NoCircularWait
<1>1. IInv => NoCircularWait
  BY BufferSizeAssumption
  DEF IInv, ControlInv, SlotAccount, ACarries, BCarries, Bit, NoCircularWait
<1>2. QED
  BY <1>1, Inductive, PTL

(* No encrypted file without a hash file that covers at least its bytes.   *)
THEOREM ConsistentOutputs == Spec => []OutputsConsistent
<1>1. IInv => OutputsConsistent
  BY DEF IInv, ControlInv, SlurpFirst, OutputOrder, OutputsConsistent
<1>2. QED
  BY <1>1, Inductive, PTL

-----------------------------------------------------------------------------
(* Refinement *)

LEMMA PipeBytes == \A a, b : Pipe!Bytes(a, b) = Bytes(a, b)
BY DEF Pipe!Bytes, Bytes

LEMMA InitPipe == Init => Pipe!Init
BY DEF Init, Pipe!Init, CountedByB, BCleared

(* The slurp of the whole file moves the stream of an untouched pipe.      *)
LEMMA SlurpSeeks == IInv /\ FrameA /\ SlurpFile => [Pipe!Next]_Pipe!vars
<1> SUFFICES ASSUME IInv, FrameA, SlurpFile PROVE [Pipe!Next]_Pipe!vars
  OBVIOUS
<1>1. CountedByB' = CountedByB
  BY DEF SlurpFile, FrameA, Exit, CountedByB, BCleared
<1>2. CASE Exit("failure")
  BY <1>1, <1>2 DEF Exit, stream, Pipe!vars
<1>3. CASE ~Exit("failure")
  <2>1. CountedByB \o buffer = <<>>
    BY BytesEmpty
    DEF IInv, ControlInv, SlurpFile, SlurpFirst, BeforeSlurp, TypeOK, BytesConserved, LoopStart
  <2>2. CountedByB = <<>> /\ buffer = <<>>
    BY <2>1, CountedTyped, JoinTyped DEF IInv
  <2>3. pos' \in Nat /\ buffer' = buffer
    BY <1>3 DEF SlurpFile, IInv, ControlInv, StreamInFile, TypeOK
  <2>4. Pipe!Seek
    BY <1>1, <2>2, <2>3 DEF Pipe!Seek
  <2>5. QED
    BY <2>4 DEF Pipe!Next
<1>4. QED
  BY <1>2, <1>3

(* A fill takes bytes into the pipe, or changes nothing. *)
LEMMA FillEnters == IInv /\ FrameA /\ FillBuffer => [Pipe!Next]_Pipe!vars
<1> SUFFICES ASSUME IInv, FrameA, FillBuffer PROVE [Pipe!Next]_Pipe!vars
  OBVIOUS
<1> TypeOK /\ StreamInFile
  BY DEF IInv, ControlInv
<1>1. PICK n \in 0..(BufferSize - Len(buffer)) :
             buffer' = buffer \o Bytes(pos, pos + n) /\ pos' = pos + n
  BY FillTakes
<1>2. CountedByB' = CountedByB
  BY DEF FrameA, CountedByB, BCleared
<1>3. buffer \in Seq(Nat) /\ Len(buffer) \in Nat /\ pos \in Nat
  BY DEF TypeOK
<1> HIDE DEF CountedByB
<1>4. CASE n = 0
  <2>1. pos' = pos /\ Bytes(pos, pos + n) = <<>>
    BY <1>1, <1>3, <1>4, BytesEmpty
  <2>2. buffer' = buffer
    BY <1>1, <1>3, <2>1, JoinTyped
  <2>3. QED
    BY <1>2, <2>1, <2>2 DEF Pipe!vars
<1>5. CASE n # 0
  <2>1. n \in 1..BufferSize /\ Len(buffer) + n <= BufferSize
    BY <1>3, <1>5, BufferSizeAssumption
  <2>2. Pipe!Take(n)
    BY <1>1, <1>2, <2>1, PipeBytes DEF Pipe!Take
  <2>3. QED
    BY <2>1, <2>2 DEF Pipe!Next
<1>6. QED
  BY <1>4, <1>5

(* A round of counting empties the pipe, or found it empty. *)
LEMMA CountDrains == IInv /\ FrameB /\ CountBuffer => [Pipe!Next]_Pipe!vars
<1> SUFFICES ASSUME IInv, FrameB, CountBuffer PROVE [Pipe!Next]_Pipe!vars
  OBVIOUS
<1>1. /\ CountedByB = counted /\ CountedByB' = counted \o buffer
      /\ buffer' = <<>> /\ pos' = pos
  BY DEF CountBuffer, FrameB, stream, CountedByB, BCleared
<1> HIDE DEF CountedByB
<1>2. CASE buffer = <<>>
  <2>1. counted \o <<>> = counted
    BY JoinTyped DEF IInv, TypeOK
  <2>2. QED
    BY <1>1, <1>2, <2>1 DEF Pipe!vars
<1>3. CASE buffer # <<>>
  BY <1>1, <1>3 DEF Pipe!Next, Pipe!Drain
<1>4. QED
  BY <1>2, <1>3

LEMMA StepPipe == IInv /\ [Next]_vars => [Pipe!Next]_Pipe!vars
<1> SUFFICES ASSUME IInv, [Next]_vars PROVE [Pipe!Next]_Pipe!vars
  OBVIOUS
<1> USE DEF CountedByB, BCleared, Pipe!vars, sems, stream, memory, outputs
<1>1. CASE MainFrame /\ (Prepare \/ CreateA \/ CreateB \/ Join \/ JoinFails \/ CleanUp)
  BY <1>1 DEF MainFrame, Prepare, CreateA, CreateB, Join, JoinFails, CleanUp, Exit,
            IInv, ControlInv, StartOrder
<1>2. CASE FrameA /\ (OpenFile \/ MeasureFile \/ WaitEmpty \/ LockA \/ UnlockA)
  BY <1>2 DEF FrameA, OpenFile, MeasureFile, WaitEmpty, LockA, UnlockA, Exit
<1>3. CASE FrameA /\ (PostFull \/ TestLast \/ PostLast)
  BY <1>3 DEF FrameA, PostFull, TestLast, PostLast
<1>4. CASE FrameB /\ (ClearCount \/ WaitFull \/ LockB \/ UnlockB \/ PostEmpty)
  BY <1>4 DEF FrameB, ClearCount, WaitFull, LockB, UnlockB, PostEmpty
<1>5. CASE FrameB /\ (HashFile \/ WriteHash \/ ReadKey \/ SaveEncrypted)
  BY <1>5 DEF FrameB, HashFile, WriteHash, ReadKey, SaveEncrypted, Exit
<1>6. CASE Append1
  BY <1>6 DEF Append1
<1>7. CASE UNCHANGED vars
  BY <1>7 DEF vars
<1>8. QED
  BY <1>1, <1>2, <1>3, <1>4, <1>5, <1>6, <1>7, SlurpSeeks, FillEnters, CountDrains
  DEF Next, Main, ThreadA, ThreadB

(* The buffer, the semaphores and the count array implement a bounded pipe *)
(* that counts every byte once.                                            *)
THEOREM ImplementsPipe == Spec => PipeSpec
<1>1. Init => Pipe!Init
  BY InitPipe
<1>2. IInv /\ [Next]_vars => [Pipe!Next]_Pipe!vars
  BY StepPipe
<1>3. QED
  BY <1>1, <1>2, Inductive, PTL DEF Spec, PipeSpec, Pipe!Spec
=============================================================================
