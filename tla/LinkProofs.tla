----------------------------- MODULE LinkProofs -----------------------------
(***************************************************************************)
(* The characters on their way between controller and firmware.            *)
(*                                                                         *)
(* Serial, for every size of the two rings: the driver keeps its variables *)
(* in range, its counters and its interrupt enable agree with what the     *)
(* rings hold, and both rings implement a bounded FIFO.                    *)
(*                                                                         *)
(* Streamer, for every drawing, window and ring that holds a window: the   *)
(* application's window covers what it has streamed and the firmware has   *)
(* not answered, so nothing it streams is lost at the ring.                *)
(***************************************************************************)
EXTENDS Serial, Streamer, SequenceTheorems, FiniteSetTheorems, TLAPS

-----------------------------------------------------------------------------
(* Lemmas about the contents of a ring of R slots.                         *)

\* A ring of R slots holds at most R - 1 bytes, ...
LEMMA UsedRange ==
    ASSUME NEW R \in Nat, R > 1, NEW head \in 0..R-1, NEW tail \in 0..R-1
    PROVE  Used(head, tail, R) \in 0..R-1
BY DEF Used

LEMMA ContentsLen ==
    ASSUME NEW R \in Nat, R > 1, NEW buffer,
           NEW head \in 0..R-1, NEW tail \in 0..R-1
    PROVE  Len(Contents(buffer, head, tail, R)) = Used(head, tail, R)
BY UsedRange DEF Contents

\* ... numbered from the tail, ...
LEMMA ContentsElement ==
    ASSUME NEW R \in Nat, R > 1, NEW buffer,
           NEW head \in 0..R-1, NEW tail \in 0..R-1,
           NEW i \in 1..Used(head, tail, R)
    PROVE  Contents(buffer, head, tail, R)[i] = buffer[Slot(tail + i - 1, R)]
BY DEF Contents

\* ... and they form a sequence of bytes.
LEMMA ContentsType ==
    ASSUME NEW R \in Nat, R > 1, NEW S, NEW buffer \in [0..R-1 -> S],
           NEW head \in 0..R-1, NEW tail \in 0..R-1
    PROVE  Contents(buffer, head, tail, R) \in Seq(S)
<1> DEFINE u == Used(head, tail, R)
<1>1. u \in Nat
  BY DEF Used
<1>2. \A i \in 1..u : Slot(tail + i - 1, R) \in 0..R-1
  BY DEF Slot, Used
<1>3. Contents(buffer, head, tail, R) \in [1..u -> S]
  BY <1>1, <1>2 DEF Contents
<1> HIDE DEF u
<1> QED
  BY <1>1, <1>3

\* Storing a byte at the head and advancing the head appends it, if that
\* leaves the ring a free slot.
LEMMA ContentsPut ==
    ASSUME NEW R \in Nat, R > 1, NEW S, NEW buffer \in [0..R-1 -> S],
           NEW head \in 0..R-1, NEW tail \in 0..R-1, NEW b \in S,
           NextSlot(head, R) # tail
    PROVE  /\ Contents([buffer EXCEPT ![head] = b], NextSlot(head, R), tail, R)
                = Append(Contents(buffer, head, tail, R), b)
           /\ Used(head, tail, R) < R - 1
<1>1. PICK h2 \in 0..R-1 : h2 = NextSlot(head, R)
  BY DEF NextSlot
<1>2. PICK buffer2 \in [0..R-1 -> S] : buffer2 = [buffer EXCEPT ![head] = b]
  OBVIOUS
<1>3. PICK u \in 0..R-1 : u = Used(head, tail, R)
  BY UsedRange
<1>4. u < R - 1 /\ Used(h2, tail, R) = u + 1
  BY <1>1, <1>3 DEF NextSlot, Used
<1>5. PICK old \in Seq(S) : old = Contents(buffer, head, tail, R)
  BY ContentsType
<1>6. PICK new \in Seq(S) : new = Contents(buffer2, h2, tail, R)
  BY ContentsType
<1>7. Len(old) = u /\ Len(new) = u + 1
  BY <1>3, <1>4, <1>5, <1>6, ContentsLen
<1>8. ASSUME NEW i \in 1..u PROVE new[i] = old[i]
  <2>1. old[i] = buffer[Slot(tail + i - 1, R)]
    BY <1>3, <1>5, ContentsElement
  <2>2. new[i] = buffer2[Slot(tail + i - 1, R)]
    <3>1. i \in 1..Used(h2, tail, R)
      BY <1>4
    <3>2. QED
      BY <1>6, <3>1, ContentsElement
  <2>3. Slot(tail + i - 1, R) \in 0..R-1 /\ Slot(tail + i - 1, R) # head
    BY <1>3, <1>4 DEF Slot, Used
  <2>4. QED
    BY <1>2, <2>1, <2>2, <2>3
<1>9. new[u + 1] = b
  <2>1. new[u + 1] = buffer2[Slot(tail + (u + 1) - 1, R)]
    <3>1. u + 1 \in 1..Used(h2, tail, R)
      BY <1>4
    <3>2. \A i \in 1..Used(h2, tail, R) :
            Contents(buffer2, h2, tail, R)[i] = buffer2[Slot(tail + i - 1, R)]
      BY ContentsElement
    <3> QED
      BY <1>6, <3>1, <3>2
  <2>2. Slot(tail + (u + 1) - 1, R) = head
    BY <1>3, <1>4 DEF Slot, Used
  <2>3. QED
    BY <1>2, <2>1, <2>2
<1>10. new = Append(old, b)
  BY <1>7, <1>8, <1>9
<1> QED
  BY <1>1, <1>2, <1>3, <1>4, <1>5, <1>6, <1>10

\* Moving the tail forward, not past the head, drops the oldest bytes.
LEMMA ContentsDrop ==
    ASSUME NEW R \in Nat, R > 1, NEW S, NEW buffer \in [0..R-1 -> S],
           NEW head \in 0..R-1, NEW tail \in 0..R-1, NEW tail2 \in 0..R-1,
           Used(tail2, tail, R) <= Used(head, tail, R)
    PROVE  Contents(buffer, head, tail2, R)
             = SubSeq(Contents(buffer, head, tail, R),
                      Used(tail2, tail, R) + 1, Used(head, tail, R))
<1>1. PICK u \in 0..R-1, n \in 0..R-1 :
           u = Used(head, tail, R) /\ n = Used(tail2, tail, R)
  BY UsedRange
<1>2. n <= u /\ Used(head, tail2, R) = u - n
  BY <1>1 DEF Used
<1>3. PICK old \in Seq(S) : old = Contents(buffer, head, tail, R)
  BY ContentsType
<1>4. PICK new \in Seq(S) : new = Contents(buffer, head, tail2, R)
  BY ContentsType
<1>5. Len(old) = u /\ Len(new) = u - n
  BY <1>1, <1>2, <1>3, <1>4, ContentsLen
<1>6. PICK sub : sub = SubSeq(old, n + 1, u)
  OBVIOUS
<1>7. /\ sub \in Seq(S) /\ Len(sub) = u - n
      /\ \A i \in 1..(u - n) : sub[i] = old[n + i]
  <2>1. \A i \in (n + 1)..u : old[i] \in S
    BY <1>2, <1>5
  <2>2. QED
    BY <1>2, <1>6, <2>1, SubSeqProperties
<1>8. ASSUME NEW i \in 1..(u - n) PROVE new[i] = sub[i]
  <2>1. new[i] = buffer[Slot(tail2 + i - 1, R)]
    <3>1. i \in 1..Used(head, tail2, R)
      BY <1>2
    <3>2. QED
      BY <1>4, <3>1, ContentsElement
  <2>2. PICK k \in 1..u : k = n + i
    BY <1>2
  <2>3. old[n + i] = buffer[Slot(tail + (n + i) - 1, R)]
    <3>1. k \in 1..Used(head, tail, R)
      BY <1>1
    <3>2. old[k] = buffer[Slot(tail + k - 1, R)]
      BY <1>3, <3>1, ContentsElement
    <3>3. QED
      BY <2>2, <3>2
  <2>4. Slot(tail2 + i - 1, R) = Slot(tail + (n + i) - 1, R)
    BY <1>1, <1>2 DEF Slot, Used
  <2>5. QED
    BY <1>7, <2>1, <2>3, <2>4
<1>9. new = sub
  BY <1>5, <1>7, <1>8, SeqEqual
<1> QED
  BY <1>1, <1>3, <1>4, <1>6, <1>9

\* Advancing the tail of a ring that is not empty takes the oldest byte.
LEMMA ContentsTake ==
    ASSUME NEW R \in Nat, R > 1, NEW S, NEW buffer \in [0..R-1 -> S],
           NEW head \in 0..R-1, NEW tail \in 0..R-1, head # tail
    PROVE  /\ Contents(buffer, head, tail, R) # <<>>
           /\ Contents(buffer, head, tail, R)[1] = buffer[tail]
           /\ Contents(buffer, head, NextSlot(tail, R), R)
                = Tail(Contents(buffer, head, tail, R))
<1>1. PICK t2 \in 0..R-1 : t2 = NextSlot(tail, R)
  BY DEF NextSlot
<1>2. PICK u \in 0..R-1 : u = Used(head, tail, R)
  BY UsedRange
<1>3. u >= 1 /\ Used(t2, tail, R) = 1
  BY <1>1, <1>2 DEF NextSlot, Used
<1>4. PICK old \in Seq(S) : old = Contents(buffer, head, tail, R)
  BY ContentsType
<1>5. Len(old) = u
  BY <1>2, <1>4, ContentsLen
<1>6. old[1] = buffer[tail]
  <2>1. 1 \in 1..Used(head, tail, R)
    BY <1>2, <1>3
  <2>2. old[1] = buffer[Slot(tail + 1 - 1, R)]
    BY <1>4, <2>1, ContentsElement
  <2>3. Slot(tail + 1 - 1, R) = tail
    BY DEF Slot
  <2>4. QED
    BY <2>2, <2>3
<1>7. Contents(buffer, head, t2, R) = SubSeq(old, 2, u)
  <2>1. Used(t2, tail, R) <= Used(head, tail, R)
    BY <1>2, <1>3
  <2>2. Contents(buffer, head, t2, R)
          = SubSeq(Contents(buffer, head, tail, R),
                   Used(t2, tail, R) + 1, Used(head, tail, R))
    BY <2>1, ContentsDrop
  <2>3. QED
    BY <1>2, <1>3, <1>4, <2>2
<1>8. old # <<>> /\ SubSeq(old, 2, u) = Tail(old)
  BY <1>3, <1>5, TailIsSubSeq
<1> QED
  BY <1>1, <1>4, <1>6, <1>7, <1>8

-----------------------------------------------------------------------------
(* Type correctness.                                                       *)

\* The variables keep their types: indices stay inside their ring.
THEOREM TypeCorrect == Spec => []TypeOK
<1> USE SizeAssumption
<1>1. Init => TypeOK
  <2> SUFFICES ASSUME Init PROVE TypeOK
    OBVIOUS
  <2>1. rxBuffer \in [0..RX_BUFFER_SIZE -> Byte \cup {NoByte}]
    BY DEF Init
  <2>2. txBuffer \in [0..TX_BUFFER_SIZE -> Byte \cup {NoByte}]
    BY DEF Init
  <2>3. /\ rxHead \in 0..RX_BUFFER_SIZE /\ rxTail \in 0..RX_BUFFER_SIZE
        /\ txHead \in 0..TX_BUFFER_SIZE /\ txTail \in 0..TX_BUFFER_SIZE
        /\ headCopy \in 0..RX_BUFFER_SIZE /\ drained \in 0..1
    BY DEF Init
  <2>4. udrie \in BOOLEAN /\ resetFlag \in BOOLEAN /\ rxLost \in BOOLEAN
    BY DEF Init
  <2>5. QED
    BY <2>1, <2>2, <2>3, <2>4 DEF Init, TypeOK
<1>2. TypeOK /\ [Next]_vars => TypeOK'
  <2> SUFFICES ASSUME TypeOK, [Next]_vars PROVE TypeOK'
    OBVIOUS
  <2> USE DEF TypeOK, rxVars, txVars
  <2>1. CASE Read
    <3>1. CASE ReadCheck
      BY <3>1 DEF ReadCheck
    <3>2. CASE ReadData
      BY <3>2 DEF ReadData
    <3>3. CASE ReadTail
      <4>1. rxTail' \in 0..RX_BUFFER_SIZE
        BY <3>3 DEF ReadTail, NextSlot, RX_RING_BUFFER
      <4>2. rxLost' \in BOOLEAN
        BY <3>3 DEF ReadTail
      <4>3. QED
        BY <3>3, <4>1, <4>2 DEF ReadTail
    <3>4. QED
      BY <2>1, <3>1, <3>2, <3>3 DEF Read
  <2>2. CASE Reinit
    <3>1. 0 \in 0..RX_BUFFER_SIZE
      BY SizeAssumption
    <3> QED
      BY <2>2, <3>1 DEF Reinit, FlushCopy, FlushStore
  <2>3. CASE \E b \in Byte : WriteCall(b)
    BY <2>3 DEF WriteCall
  <2>4. CASE FinishWrite
    <3>1. CASE WriteAbort
      BY <3>1 DEF WriteAbort
    <3>2. CASE WriteStore
      BY <3>2 DEF WriteStore, TxFull, NextSlot, TX_RING_BUFFER
    <3>3. CASE WriteEnable
      BY <3>3 DEF WriteEnable
    <3>4. QED
      BY <2>4, <3>1, <3>2, <3>3 DEF FinishWrite
  <2>5. CASE \E b \in Byte : RxData(b)
    BY <2>5 DEF RxData, RxFull, NextSlot, RX_RING_BUFFER
  <2>6. CASE RxReset
    BY <2>6 DEF RxReset
  <2>7. CASE Udre
    BY <2>7 DEF Udre, InWindow, TxConcluded, NextSlot, TX_RING_BUFFER
  <2>8. CASE UNCHANGED vars
    BY <2>8 DEF vars
  <2>9. QED
    BY <2>1, <2>2, <2>3, <2>4, <2>5, <2>6, <2>7, <2>8 DEF Next, Main, Interrupts
<1>3. QED
  BY <1>1, <1>2, PTL DEF Spec

-----------------------------------------------------------------------------
(* The receive ring is a bounded FIFO.                                     *)

\* What must hold between the steps of the main program: while serial_read
\* is under way the ring is not empty and the byte read is still in its slot;
\* the head copied by serial_reset_read_buffer lies between tail and head.
RxInv ==
    /\ pc \in {"readData", "readTail"} => rxHead # rxTail
    /\ pc = "readTail" => data = rxBuffer[rxTail]
    /\ pc = "flush" => Used(headCopy, rxTail, RX_RING_BUFFER)
                          <= Used(rxHead, rxTail, RX_RING_BUFFER)

\* SERIAL_RX moves the head of a ring that is not full: the head does not
\* reach the tail, and whatever lay between tail and head still does.
LEMMA HeadAdvances ==
    ASSUME NEW R \in Nat, R > 1, NEW head \in 0..R-1, NEW tail \in 0..R-1,
           NextSlot(head, R) # tail
    PROVE  /\ NextSlot(head, R) \in 0..R-1
           /\ Used(NextSlot(head, R), tail, R) = Used(head, tail, R) + 1
BY DEF NextSlot, Used

THEOREM RxInvariant == Spec => []RxInv
<1> USE SizeAssumption
<1> DEFINE R == RX_RING_BUFFER
<1>1. Init => RxInv
  BY DEF Init, RxInv
<1>2. TypeOK /\ RxInv /\ [Next]_vars => RxInv'
  <2> SUFFICES ASSUME TypeOK, RxInv, [Next]_vars PROVE RxInv'
    OBVIOUS
  <2> USE DEF TypeOK, RxInv, rxVars, txVars
  <2>1. CASE Read
    BY <2>1 DEF Read, ReadCheck, ReadData, ReadTail
  <2>2. CASE Reinit
    <3>1. CASE FlushCopy
      BY <3>1 DEF FlushCopy, RX_RING_BUFFER, Used
    <3>2. CASE FlushStore
      BY <3>2 DEF FlushStore
    <3>3. QED
      BY <2>2, <3>1, <3>2 DEF Reinit
  <2>3. CASE \E b \in Byte : WriteCall(b)
    BY <2>3 DEF WriteCall
  <2>4. CASE FinishWrite
    BY <2>4 DEF FinishWrite, WriteAbort, WriteStore, WriteEnable
  <2>5. ASSUME NEW b \in Byte, RxData(b) PROVE RxInv'
    <3>1. CASE NextSlot(rxHead, R) = rxTail
      BY <2>5, <3>1 DEF RxData, RxFull
    <3>2. CASE NextSlot(rxHead, R) # rxTail
      <4>1. /\ rxHead' = NextSlot(rxHead, R)
            /\ rxBuffer' = [rxBuffer EXCEPT ![rxHead] = b]
            /\ UNCHANGED <<rxTail, headCopy, pc, data>>
        BY <2>5, <3>2 DEF RxData, RxFull
      <4>2. R \in Nat /\ R > 1 /\ rxHead \in 0..R-1 /\ rxTail \in 0..R-1
        BY DEF RX_RING_BUFFER
      <4>3. Used(rxHead', rxTail, R) = Used(rxHead, rxTail, R) + 1
        BY <3>2, <4>1, <4>2, HeadAdvances
      <4>4. (pc \in {"readData", "readTail"} => rxHead # rxTail)'
        BY <3>2, <4>1
      <4>5. (pc = "readTail" => data = rxBuffer[rxTail])'
        BY <4>1
      <4>6. (pc = "flush" => Used(headCopy, rxTail, R) <= Used(rxHead, rxTail, R))'
        <5>1. Used(rxHead, rxTail, R) \in 0..R-1
          BY <4>2, UsedRange
        <5>2. Used(headCopy, rxTail, R) \in 0..R-1
          <6>1. headCopy \in 0..R-1
            BY DEF RX_RING_BUFFER
          <6>2. QED
            BY <4>2, <6>1, UsedRange
        <5>3. QED
          BY <4>1, <4>3, <5>1, <5>2
      <4>7. QED
        BY <4>4, <4>5, <4>6
    <3>3. QED
      BY <3>1, <3>2
  <2>6. CASE RxReset
    BY <2>6 DEF RxReset
  <2>7. CASE Udre
    BY <2>7 DEF Udre
  <2>8. CASE UNCHANGED vars
    BY <2>8 DEF vars
  <2>9. QED
    BY <2>1, <2>2, <2>3, <2>4, <2>5, <2>6, <2>7, <2>8 DEF Next, Main, Interrupts
<1>3. QED
  BY <1>1, <1>2, TypeCorrect, PTL DEF Spec

-----------------------------------------------------------------------------
(* Every step of the driver is a step of the queue it implements, or none. *)

\* While a character is neither stored nor taken, the queue does not change.
LEMMA RxQuiet ==
    UNCHANGED <<rxBuffer, rxHead, rxTail, delivered>>
      => UNCHANGED RxFifo!queueVars
BY DEF RxFifo!queueVars, RxQueue

LEMMA RxStep ==
    TypeOK /\ RxInv /\ [Next]_vars => [RxFifo!Resettable]_(RxFifo!queueVars)
<1> SUFFICES ASSUME TypeOK, RxInv, [Next]_vars
             PROVE  RxFifo!Resettable \/ UNCHANGED RxFifo!queueVars
  OBVIOUS
<1> DEFINE R == RX_RING_BUFFER
           S == Byte \cup {NoByte}
<1>1. /\ R \in Nat /\ R > 1 /\ R - 1 = RX_BUFFER_SIZE
      /\ rxBuffer \in [0..R-1 -> S]
      /\ rxHead \in 0..R-1 /\ rxTail \in 0..R-1 /\ headCopy \in 0..R-1
  BY SizeAssumption DEF TypeOK, RX_RING_BUFFER
<1>2. /\ Used(rxHead, rxTail, R) \in 0..R-1
      /\ Len(RxQueue) = Used(rxHead, rxTail, R)
      /\ RxQueue \in Seq(S)
  BY <1>1, UsedRange, ContentsLen, ContentsType DEF RxQueue
<1>3. ASSUME NEW b \in Byte, RxData(b)
      PROVE  RxFifo!Resettable \/ UNCHANGED RxFifo!queueVars
  <2>1. CASE NextSlot(rxHead, R) = rxTail
    BY <1>3, <2>1, RxQuiet DEF RxData, RxFull, rxVars
  <2>2. CASE NextSlot(rxHead, R) # rxTail
    <3>1. /\ rxBuffer' = [rxBuffer EXCEPT ![rxHead] = b]
          /\ rxHead' = NextSlot(rxHead, R)
          /\ rxTail' = rxTail /\ delivered' = delivered
      BY <1>3, <2>2 DEF RxData, RxFull
    <3>2. b \in S
      OBVIOUS
    <3>3. /\ Contents([rxBuffer EXCEPT ![rxHead] = b], NextSlot(rxHead, R), rxTail, R)
               = Append(Contents(rxBuffer, rxHead, rxTail, R), b)
          /\ Used(rxHead, rxTail, R) < R - 1
      <4> HIDE DEF R, S
      <4> QED
        BY <1>1, <2>2, <3>2, ContentsPut
    <3>4. RxQueue' = Append(RxQueue, b) /\ Len(RxQueue) < RX_BUFFER_SIZE
      BY <1>1, <1>2, <3>1, <3>3 DEF RxQueue
    <3>5. RxFifo!Put(b)
      BY <3>1, <3>4 DEF RxFifo!Put
    <3>6. QED
      BY <3>5 DEF RxFifo!Resettable, RxFifo!Lossless
  <2>3. QED
    BY <2>1, <2>2
<1>4. CASE ReadTail
  <2>1. /\ rxTail' = NextSlot(rxTail, R) /\ delivered' = rxBuffer[rxTail]
        /\ rxBuffer' = rxBuffer /\ rxHead' = rxHead
        /\ rxHead # rxTail
    BY <1>4 DEF ReadTail, RxInv
  <2>2. /\ Contents(rxBuffer, rxHead, rxTail, R) # <<>>
        /\ Contents(rxBuffer, rxHead, rxTail, R)[1] = rxBuffer[rxTail]
        /\ Contents(rxBuffer, rxHead, NextSlot(rxTail, R), R)
             = Tail(Contents(rxBuffer, rxHead, rxTail, R))
    BY <1>1, <2>1, ContentsTake
  <2>3. RxFifo!Take
    BY <2>1, <2>2 DEF RxFifo!Take, RxQueue
  <2>4. QED
    BY <2>3 DEF RxFifo!Resettable, RxFifo!Lossless
<1>5. CASE FlushStore
  <2>1. /\ rxTail' = headCopy /\ delivered' = delivered
        /\ rxBuffer' = rxBuffer /\ rxHead' = rxHead
        /\ Used(headCopy, rxTail, R) <= Used(rxHead, rxTail, R)
    BY <1>5 DEF FlushStore, RxInv
  <2>2. PICK n \in 0..R-1 : n = Used(headCopy, rxTail, R)
    BY <1>1, UsedRange
  <2>3. RxQueue' = SubSeq(RxQueue, n + 1, Len(RxQueue))
    <3>1. Contents(rxBuffer, rxHead, headCopy, R)
            = SubSeq(Contents(rxBuffer, rxHead, rxTail, R),
                     Used(headCopy, rxTail, R) + 1, Used(rxHead, rxTail, R))
      BY <1>1, <2>1, ContentsDrop
    <3>2. QED
      BY <1>2, <2>1, <2>2, <3>1 DEF RxQueue
  <2>4. CASE n = 0
    <3>1. headCopy = rxTail
      BY <1>1, <2>2, <2>4 DEF Used
    <3>2. QED
      BY <2>1, <3>1, RxQuiet
  <2>5. CASE n # 0
    <3>1. n \in 1..RX_BUFFER_SIZE /\ n \in 1..Len(RxQueue)
      BY <1>1, <1>2, <2>1, <2>2, <2>5
    <3>2. RxFifo!Flush(n)
      BY <2>1, <2>3, <3>1 DEF RxFifo!Flush
    <3>3. QED
      BY <3>1, <3>2 DEF RxFifo!Resettable
  <2>6. QED
    BY <2>4, <2>5
<1>6. CASE ReadCheck \/ ReadData \/ FlushCopy \/ FinishWrite \/ RxReset \/ Udre
             \/ \E b \in Byte : WriteCall(b)
  BY <1>6, RxQuiet DEF ReadCheck, ReadData, FlushCopy, FinishWrite, WriteAbort,
     WriteStore, WriteEnable, RxReset, Udre, WriteCall, rxVars
<1>7. CASE UNCHANGED vars
  BY <1>7, RxQuiet DEF vars, rxVars
<1>8. QED
  BY <1>3, <1>4, <1>5, <1>6, <1>7 DEF Next, Main, Interrupts, Read, Reinit

\* The ring of serial_rx_buffer implements the bounded FIFO of ByteQueue, for
\* every RX_BUFFER_SIZE and every interleaving of SERIAL_RX with serial_read
\* and serial_reset_read_buffer.
THEOREM RxImplementsFifo == Spec => RxIsFifo
<1>1. Init => RxFifo!QueueInit
  <2> SUFFICES ASSUME Init PROVE RxQueue = <<>> /\ delivered = NoByte
    BY DEF RxFifo!QueueInit
  <2>1. Used(rxHead, rxTail, RX_RING_BUFFER) = 0
    BY DEF Init, Used
  <2>2. RxQueue = <<>>
    BY <2>1 DEF RxQueue, Contents
  <2>3. QED
    BY <2>2 DEF Init
<1>2. QED
  BY <1>1, RxStep, TypeCorrect, RxInvariant, PTL
     DEF Spec, RxIsFifo, RxFifo!ResettableSpec

-----------------------------------------------------------------------------
(* What the driver reports, drops and sends is what the rings hold.        *)

\* The counters agree with the contents, and a dropped character found the
\* ring full: rxLost is kept while nothing is read or emptied.
RxFullWhenLost == rxLost => Used(rxHead, rxTail, RX_RING_BUFFER) = RX_BUFFER_SIZE

LEMMA RxCounted ==
    TypeOK => /\ Len(RxQueue) = Used(rxHead, rxTail, RX_RING_BUFFER)
              /\ RxAvailableExact
              /\ RxFullWhenLost => RxDropsOnlyWhenFull
<1> SUFFICES ASSUME TypeOK
             PROVE  /\ Len(RxQueue) = Used(rxHead, rxTail, RX_RING_BUFFER)
                    /\ RxAvailableExact
                    /\ RxFullWhenLost => RxDropsOnlyWhenFull
  OBVIOUS
<1> DEFINE R == RX_RING_BUFFER
<1>1. /\ R \in Nat /\ R > 1 /\ R - 1 = RX_BUFFER_SIZE
      /\ rxHead \in 0..R-1 /\ rxTail \in 0..R-1
  BY SizeAssumption DEF TypeOK, RX_RING_BUFFER
<1>2. Len(RxQueue) = Used(rxHead, rxTail, R)
  BY <1>1, ContentsLen DEF RxQueue
<1>3. RxAvailable = RX_BUFFER_SIZE - Used(rxHead, rxTail, R)
  BY <1>1 DEF RxAvailable, Used
<1> QED
  BY <1>2, <1>3 DEF RxAvailableExact, RxFullWhenLost, RxDropsOnlyWhenFull

LEMMA TxCounted ==
    TypeOK => /\ Used(txHead, txTail, TX_RING_BUFFER) \in 0..TX_BUFFER_SIZE
              /\ Len(TxQueue) = Used(txHead, txTail, TX_RING_BUFFER)
              /\ TxQueue # <<>> <=> Used(txHead, txTail, TX_RING_BUFFER) > 0
              /\ TxCountExact
<1> SUFFICES ASSUME TypeOK
             PROVE  /\ Used(txHead, txTail, TX_RING_BUFFER) \in 0..TX_BUFFER_SIZE
                    /\ Len(TxQueue) = Used(txHead, txTail, TX_RING_BUFFER)
                    /\ TxQueue # <<>> <=> Used(txHead, txTail, TX_RING_BUFFER) > 0
                    /\ TxCountExact
  OBVIOUS
<1> DEFINE R == TX_RING_BUFFER
           S == Byte \cup {NoByte}
<1>1. /\ R \in Nat /\ R > 1 /\ R - 1 = TX_BUFFER_SIZE
      /\ txHead \in 0..R-1 /\ txTail \in 0..R-1 /\ txBuffer \in [0..R-1 -> S]
  BY SizeAssumption DEF TypeOK, TX_RING_BUFFER
<1>2. /\ Used(txHead, txTail, R) \in 0..R-1
      /\ Len(TxQueue) = Used(txHead, txTail, R)
      /\ TxQueue \in Seq(S)
  BY <1>1, UsedRange, ContentsLen, ContentsType DEF TxQueue
<1>3. TxCount = Used(txHead, txTail, R)
  BY <1>1 DEF TxCount, Used
<1>4. TxQueue # <<>> <=> Len(TxQueue) > 0
  BY <1>2, EmptySeq
<1> QED
  BY <1>1, <1>2, <1>3, <1>4 DEF TxCountExact

\* The transmit interrupt: whoever finds it enabled finds a byte to send.  In
\* the stretch between storing a byte and enabling the interrupt the byte is
\* still there, and a handler that may yet be served there leaves one behind.
TxInv ==
    LET used == Used(txHead, txTail, TX_RING_BUFFER)
    IN  /\ used > 0 /\ ~InWindow => udrie
        /\ udrie => used > 0
        /\ InWindow => used > 0
        /\ InWindow /\ udrie /\ drained = 0 => used > 1
        /\ pc = "writeWait" => data \in Byte

\* SERIAL_UDRE takes one byte out of a ring that has one, and enables itself
\* as long as there is another.
LEMMA TailAdvances ==
    ASSUME NEW R \in Nat, R > 1, NEW head \in 0..R-1, NEW tail \in 0..R-1,
           Used(head, tail, R) > 0
    PROVE  /\ NextSlot(tail, R) \in 0..R-1
           /\ Used(head, NextSlot(tail, R), R) = Used(head, tail, R) - 1
           /\ NextSlot(tail, R) = head <=> Used(head, tail, R) = 1
           /\ head # tail
BY DEF NextSlot, Used

\* One fact about RxFullWhenLost and TxInv per action; TxInv on the assumption
\* that interrupts do not stop the main program for longer than a character
\* takes.
LEMMA LostStep == TypeOK /\ RxFullWhenLost /\ [Next]_vars => RxFullWhenLost'
<1> SUFFICES ASSUME TypeOK, RxFullWhenLost, [Next]_vars PROVE RxFullWhenLost'
  OBVIOUS
<1> USE SizeAssumption DEF TypeOK, RxFullWhenLost, rxVars
<1>1. ASSUME NEW b \in Byte, RxData(b) PROVE RxFullWhenLost'
  <2>1. CASE RxFull
    <3>1. UNCHANGED <<rxHead, rxTail>>
      BY <1>1, <2>1 DEF RxData
    <3>2. Used(rxHead, rxTail, RX_RING_BUFFER) = RX_BUFFER_SIZE
      BY <2>1 DEF RxFull, NextSlot, Used, RX_RING_BUFFER
    <3> QED
      BY <3>1, <3>2
  <2>2. CASE ~RxFull
    BY <1>1, <2>2 DEF RxData
  <2> QED
    BY <2>1, <2>2
<1>2. CASE ReadTail \/ FlushStore
  BY <1>2 DEF ReadTail, FlushStore
<1>3. CASE ReadCheck \/ ReadData \/ FlushCopy \/ FinishWrite \/ RxReset \/ Udre
             \/ \E b \in Byte : WriteCall(b)
  BY <1>3 DEF ReadCheck, ReadData, FlushCopy, FinishWrite, WriteAbort,
     WriteStore, WriteEnable, RxReset, Udre, WriteCall
<1>4. CASE UNCHANGED vars
  BY <1>4 DEF vars
<1> QED
  BY <1>1, <1>2, <1>3, <1>4 DEF Next, Main, Interrupts, Read, Reinit

LEMMA TxStep == ~LongInterrupt /\ TypeOK /\ TxInv /\ [Next]_vars => TxInv'
<1> SUFFICES ASSUME ~LongInterrupt, TypeOK, TxInv, [Next]_vars PROVE TxInv'
  OBVIOUS
<1> DEFINE R == TX_RING_BUFFER
           used == Used(txHead, txTail, R)
<1>1. /\ R \in Nat /\ R > 1 /\ R - 1 = TX_BUFFER_SIZE
      /\ txHead \in 0..R-1 /\ txTail \in 0..R-1 /\ used \in 0..R-1
  BY SizeAssumption, UsedRange DEF TypeOK, TX_RING_BUFFER
<1> USE DEF TxInv, txVars
<1>2. CASE WriteStore
  <2>1. NextSlot(txHead, R) # txTail
    BY <1>2 DEF WriteStore, TxFull
  <2>2. Used(NextSlot(txHead, R), txTail, R) = used + 1
    <3> HIDE DEF R
    <3> QED
      BY <1>1, <2>1, HeadAdvances
  <2>3. used' = used + 1
    BY <1>2, <2>2 DEF WriteStore, TX_RING_BUFFER
  <2> HIDE DEF used, R
  <2>4. pc' = "writeEnable" /\ pc = "writeWait" /\ drained' = 0 /\ udrie' = udrie
    BY <1>2 DEF WriteStore
  <2>5. udrie => used > 0
    BY DEF used, R
  <2>6. (used > 0)' /\ (udrie => used > 1)'
    BY <1>1, <2>3, <2>4, <2>5
  <2> QED
    BY <2>4, <2>6 DEF InWindow, used, R
<1>3. CASE WriteEnable
  BY <1>3 DEF WriteEnable, InWindow
<1>4. CASE Udre
  <2>1. used > 0 /\ udrie
    BY <1>4 DEF Udre
  <2>2. /\ Used(txHead, NextSlot(txTail, R), R) = used - 1
        /\ NextSlot(txTail, R) = txHead <=> used = 1
    <3> HIDE DEF R
    <3> QED
      BY <1>1, <2>1, TailAdvances
  <2>3. used' = used - 1
    BY <1>4, <2>2 DEF Udre, TX_RING_BUFFER
  <2>4. udrie' <=> used # 1
    BY <1>4, <2>2 DEF Udre, TxConcluded
  <2>5. /\ pc' = pc /\ data' = data
        /\ InWindow => drained = 0 /\ drained' = 1
    BY <1>4 DEF Udre, InWindow
  <2>6. InWindow => used > 1
    BY <2>1, <2>5
  <2> HIDE DEF used, R
  <2>7. used' > 0 <=> udrie'
    BY <1>1, <2>1, <2>3, <2>4
  <2>8. InWindow' => used' > 0
    BY <1>1, <2>3, <2>5, <2>6 DEF InWindow
  <2>9. InWindow' => drained' # 0
    BY <2>5 DEF InWindow
  <2> QED
    BY <2>5, <2>7, <2>8, <2>9 DEF used, R
<1>5. CASE ReadCheck \/ ReadData \/ ReadTail \/ Reinit \/ WriteAbort
  BY <1>5 DEF ReadCheck, ReadData, ReadTail, Reinit, FlushCopy, FlushStore,
     WriteAbort, InWindow
<1>6. CASE RxReset \/ (\E b \in Byte : WriteCall(b) \/ RxData(b)) \/ UNCHANGED vars
  BY <1>6 DEF RxReset, WriteCall, RxData, InWindow, vars
<1> QED
  BY <1>2, <1>3, <1>4, <1>5, <1>6 DEF Next, Main, Interrupts, Read, FinishWrite

LEMMA TxInvariant == ASSUME ~LongInterrupt PROVE Spec => []TxInv
<1>1. Init => TxInv
  BY DEF Init, TxInv, Used, InWindow
<1> QED
  BY <1>1, TxStep, TypeCorrect, PTL DEF Spec

\* However long the handlers take, a character is dropped only by a full ring
\* and the counts are what the rings hold (the parts of RingsSound that need
\* no assumption about the handlers).
THEOREM CountsAlwaysExact ==
    Spec => [](RxDropsOnlyWhenFull /\ RxAvailableExact /\ TxCountExact)
<1>1. Init => RxFullWhenLost
  BY DEF Init, RxFullWhenLost
<1>2. TypeOK /\ RxFullWhenLost => RxDropsOnlyWhenFull /\ RxAvailableExact /\ TxCountExact
  BY RxCounted, TxCounted
<1> QED
  BY <1>1, <1>2, LostStep, TypeCorrect, PTL DEF Spec

\* What is dropped, reported and sent is what the rings hold (RingsSound), for
\* every size of the rings, provided that no handler keeps the main program
\* stopped for longer than a character takes to be sent.
THEOREM RingsAlwaysSound == ASSUME ~LongInterrupt PROVE Spec => []RingsSound
<1>1. Init => RxFullWhenLost
  BY DEF Init, RxFullWhenLost
<1>2. TypeOK /\ RxFullWhenLost /\ TxInv => RingsSound
  BY RxCounted, TxCounted
     DEF RingsSound, TxInv, TxArmed, TxNeverSendsStale
<1> QED
  BY <1>1, <1>2, LostStep, TxInvariant, TypeCorrect, PTL DEF Spec

-----------------------------------------------------------------------------
(* The transmit ring is a bounded FIFO.                                    *)

LEMMA TxQuiet ==
    UNCHANGED <<txBuffer, txHead, txTail, sent>> => UNCHANGED TxFifo!queueVars
BY DEF TxFifo!queueVars, TxQueue

LEMMA TxQueueStep ==
    TypeOK /\ TxInv /\ [Next]_vars => [TxFifo!Lossless]_(TxFifo!queueVars)
<1> SUFFICES ASSUME TypeOK, TxInv, [Next]_vars
             PROVE  TxFifo!Lossless \/ UNCHANGED TxFifo!queueVars
  OBVIOUS
<1> DEFINE R == TX_RING_BUFFER
           S == Byte \cup {NoByte}
<1>1. /\ R \in Nat /\ R > 1 /\ R - 1 = TX_BUFFER_SIZE
      /\ txBuffer \in [0..R-1 -> S]
      /\ txHead \in 0..R-1 /\ txTail \in 0..R-1
      /\ Used(txHead, txTail, R) \in 0..R-1
      /\ Len(TxQueue) = Used(txHead, txTail, R)
  BY SizeAssumption, TxCounted DEF TypeOK, TX_RING_BUFFER
<1>2. CASE WriteStore
  <2>1. /\ txBuffer' = [txBuffer EXCEPT ![txHead] = data]
        /\ txHead' = NextSlot(txHead, R) /\ txTail' = txTail /\ sent' = sent
        /\ NextSlot(txHead, R) # txTail /\ data \in Byte /\ data \in S
    BY <1>2 DEF WriteStore, TxFull, TxInv
  <2>2. /\ Contents([txBuffer EXCEPT ![txHead] = data], NextSlot(txHead, R), txTail, R)
             = Append(Contents(txBuffer, txHead, txTail, R), data)
        /\ Used(txHead, txTail, R) < R - 1
    <3> HIDE DEF R, S
    <3> QED
      BY <1>1, <2>1, ContentsPut
  <2>3. TxFifo!Put(data)
    BY <1>1, <2>1, <2>2 DEF TxFifo!Put, TxQueue
  <2> QED
    BY <2>1, <2>3 DEF TxFifo!Lossless
<1>3. CASE Udre
  <2>1. /\ txTail' = NextSlot(txTail, R) /\ sent' = txBuffer[txTail]
        /\ txBuffer' = txBuffer /\ txHead' = txHead
        /\ Used(txHead, txTail, R) > 0
    BY <1>3 DEF Udre, TxInv
  <2>2. txHead # txTail
    <3> HIDE DEF R
    <3> QED
      BY <1>1, <2>1, TailAdvances
  <2>3. /\ Contents(txBuffer, txHead, txTail, R) # <<>>
        /\ Contents(txBuffer, txHead, txTail, R)[1] = txBuffer[txTail]
        /\ Contents(txBuffer, txHead, NextSlot(txTail, R), R)
             = Tail(Contents(txBuffer, txHead, txTail, R))
    BY <1>1, <2>2, ContentsTake
  <2>4. TxFifo!Take
    BY <2>1, <2>3 DEF TxFifo!Take, TxQueue
  <2> QED
    BY <2>4 DEF TxFifo!Lossless
<1>4. CASE Read \/ Reinit \/ WriteAbort \/ WriteEnable \/ RxReset
             \/ (\E b \in Byte : WriteCall(b) \/ RxData(b)) \/ UNCHANGED vars
  BY <1>4, TxQuiet DEF Read, ReadCheck, ReadData, ReadTail, Reinit, FlushCopy,
     FlushStore, WriteAbort, WriteEnable, RxReset, WriteCall, RxData, vars, txVars
<1> QED
  BY <1>2, <1>3, <1>4 DEF Next, Main, Interrupts, FinishWrite

\* The ring of serial_tx_buffer implements the bounded FIFO of ByteQueue, no
\* byte sent twice, lost or stale, for every TX_BUFFER_SIZE, on the same
\* assumption about the handlers.
THEOREM TxImplementsFifo == ASSUME ~LongInterrupt PROVE Spec => TxIsFifo
<1>1. Init => TxFifo!QueueInit
  <2> SUFFICES ASSUME Init PROVE TxQueue = <<>> /\ sent = NoByte
    BY DEF TxFifo!QueueInit
  <2>1. Used(txHead, txTail, TX_RING_BUFFER) = 0
    BY DEF Init, Used
  <2>2. TxQueue = <<>>
    BY <2>1 DEF TxQueue, Contents
  <2> QED
    BY <2>2 DEF Init
<1> QED
  BY <1>1, TxQueueStep, TypeCorrect, TxInvariant, PTL
     DEF Spec, TxIsFifo, TxFifo!LosslessSpec

-----------------------------------------------------------------------------
(* The controller.  Numbers and sums.                                      *)

\* Induction, as a statement about sets: were n the number missing, the
\* successor would map what lies before it injectively into itself without 0.
LEMMA Induction ==
    ASSUME NEW T, 0 \in T, \A n \in Nat : n \in T => n + 1 \in T
    PROVE  \A n \in Nat : n \in T
<1> SUFFICES ASSUME NEW n \in Nat, n \notin T PROVE FALSE
  OBVIOUS
<1> DEFINE A == {i \in 0..n : i \in T}
           f == [x \in A |-> x + 1]
<1>1. 0 \in A /\ A \in SUBSET (0..n)
  OBVIOUS
<1>2. f \in [A -> A \ {0}]
  OBVIOUS
<1>3. ~ \E x, y \in A : x # y /\ f[x] = f[y]
  OBVIOUS
<1> HIDE DEF f, A
<1>4. IsFiniteSet(A)
  <2>1. IsFiniteSet(0..n)
    BY FS_Interval
  <2> QED
    BY <1>1, <2>1, FS_Subset
<1>5. /\ IsFiniteSet(A \ {0}) /\ Cardinality(A \ {0}) = Cardinality(A) - 1
      /\ Cardinality(A) \in Nat
  BY <1>1, <1>4, FS_RemoveElement, FS_CardinalityType
<1> QED
  BY <1>2, <1>3, <1>4, <1>5, FS_PigeonHole

\* The sums Counted adds up for a window.
SumsTo(w, n, f) ==
    /\ f \in [0..n -> Nat] /\ f[0] = 0
    /\ \A k \in 1..n : f[k] = f[k - 1] + w[k]
Sums(w, f) == SumsTo(w, Len(w), f)

LEMMA SumsExist ==
    ASSUME NEW w \in Seq(Nat) PROVE \E f : Sums(w, f)
<1> DEFINE T == {n \in Nat : n <= Len(w) => \E f : SumsTo(w, n, f)}
<1>1. 0 \in T
  <2>1. SumsTo(w, 0, [k \in 0..0 |-> 0])
    BY DEF SumsTo
  <2> QED
    BY <2>1
<1>2. ASSUME NEW n \in Nat, n \in T PROVE n + 1 \in T
  <2> SUFFICES ASSUME n + 1 <= Len(w) PROVE \E f : SumsTo(w, n + 1, f)
    OBVIOUS
  <2>1. PICK f : SumsTo(w, n, f)
    BY <1>2
  <2> DEFINE g == [k \in 0..n + 1 |-> IF k = n + 1 THEN f[n] + w[n + 1] ELSE f[k]]
  <2>2. n \in 0..n /\ n + 1 \in 1..Len(w) /\ f[n] \in Nat /\ w[n + 1] \in Nat
    BY <2>1 DEF SumsTo
  <2>3. g \in [0..n + 1 -> Nat] /\ g[0] = 0
    BY <2>1, <2>2 DEF SumsTo
  <2>4. ASSUME NEW k \in 1..n + 1 PROVE g[k] = g[k - 1] + w[k]
    <3>1. k \in 0..n + 1 /\ k - 1 \in 0..n + 1 /\ g[k - 1] = f[k - 1]
      OBVIOUS
    <3>2. CASE k = n + 1
      BY <3>1, <3>2
    <3>3. CASE k # n + 1
      <4>1. k \in 1..n /\ g[k] = f[k]
        BY <3>1, <3>3
      <4> QED
        BY <2>1, <3>1, <4>1 DEF SumsTo
    <3> QED
      BY <3>2, <3>3
  <2> HIDE DEF g
  <2> QED
    BY <2>3, <2>4 DEF SumsTo
<1>3. Len(w) \in T
  <2> HIDE DEF T
  <2> QED
    BY <1>1, <1>2, Induction
<1> QED
  BY <1>3 DEF Sums, SumsTo

LEMMA CountedIs ==
    ASSUME NEW w \in Seq(Nat), NEW f, Sums(w, f) PROVE Counted(w) = f[Len(w)]
<1> DEFINE Fix(g) == g = [n \in 0..Len(w) |-> IF n = 0 THEN 0 ELSE g[n - 1] + w[n]]
<1>1. Counted(w) = (CHOOSE g : Fix(g))[Len(w)]
  BY DEF Counted
<1>2. Fix(f)
  <2>1. ASSUME NEW n \in 0..Len(w), n # 0 PROVE f[n] = f[n - 1] + w[n]
    BY <2>1 DEF Sums, SumsTo
  <2> QED
    BY <2>1 DEF Sums, SumsTo
<1>3. PICK g : Fix(g) /\ Counted(w) = g[Len(w)]
  <2> HIDE DEF Fix
  <2> QED
    BY <1>1, <1>2
<1> DEFINE T == {n \in Nat : n <= Len(w) => g[n] = f[n]}
<1>4. 0 \in T
  BY <1>3 DEF Sums, SumsTo
<1>5. ASSUME NEW n \in Nat, n \in T PROVE n + 1 \in T
  <2> SUFFICES ASSUME n + 1 <= Len(w) PROVE g[n + 1] = f[n + 1]
    OBVIOUS
  <2>1. n + 1 \in 1..Len(w) /\ n + 1 \in 0..Len(w) /\ n + 1 # 0 /\ (n + 1) - 1 = n
    OBVIOUS
  <2>2. g[n + 1] = g[n] + w[n + 1]
    BY <1>3, <2>1
  <2>3. f[n + 1] = f[n] + w[n + 1]
    BY <2>1 DEF Sums, SumsTo
  <2> QED
    BY <1>5, <2>2, <2>3
<1>6. Len(w) \in T
  <2> HIDE DEF T
  <2> QED
    BY <1>4, <1>5, Induction
<1> QED
  BY <1>3, <1>6

LEMMA CountedEmpty == Counted(<<>>) = 0
<1>1. Sums(<<>>, [k \in 0..0 |-> 0])
  BY DEF Sums, SumsTo
<1> QED
  BY <1>1, CountedIs

LEMMA CountedNat == ASSUME NEW w \in Seq(Nat) PROVE Counted(w) \in Nat
<1>1. PICK f : Sums(w, f)
  BY SumsExist
<1> QED
  BY <1>1, CountedIs DEF Sums, SumsTo

LEMMA CountedAppend ==
    ASSUME NEW w \in Seq(Nat), NEW x \in Nat
    PROVE  Counted(Append(w, x)) = Counted(w) + x
<1>1. PICK f : Sums(w, f)
  BY SumsExist
<1> DEFINE v == Append(w, x)
           g == [k \in 0..Len(w) + 1 |-> IF k = Len(w) + 1 THEN f[Len(w)] + x ELSE f[k]]
<1>2. v \in Seq(Nat) /\ Len(v) = Len(w) + 1 /\ v[Len(w) + 1] = x
      /\ \A k \in 1..Len(w) : v[k] = w[k]
  OBVIOUS
<1>3. Sums(v, g)
  <2>1. g \in [0..Len(v) -> Nat] /\ g[0] = 0
    <3>1. Len(w) \in 0..Len(w) /\ f[Len(w)] \in Nat /\ f[0] = 0
      BY <1>1 DEF Sums, SumsTo
    <3> HIDE DEF v
    <3> QED
      BY <1>1, <1>2, <3>1 DEF Sums, SumsTo
  <2>2. ASSUME NEW k \in 1..Len(v) PROVE g[k] = g[k - 1] + v[k]
    <3>1. k \in 0..Len(w) + 1 /\ k - 1 \in 0..Len(w) + 1 /\ g[k - 1] = f[k - 1]
      BY <1>2
    <3>2. CASE k = Len(w) + 1
      BY <1>2, <3>1, <3>2
    <3>3. CASE k # Len(w) + 1
      <4>1. k \in 1..Len(w) /\ g[k] = f[k]
        BY <1>2, <3>1, <3>3
      <4> QED
        BY <1>1, <1>2, <3>1, <4>1 DEF Sums, SumsTo
    <3> QED
      BY <3>2, <3>3
  <2> QED
    BY <2>1, <2>2 DEF Sums, SumsTo
<1>4. Counted(v) = g[Len(v)] /\ Counted(w) = f[Len(w)]
  BY <1>1, <1>2, <1>3, CountedIs
<1>5. g[Len(v)] = f[Len(w)] + x
  BY <1>2
<1> QED
  BY <1>4, <1>5

LEMMA CountedTail ==
    ASSUME NEW w \in Seq(Nat), w # <<>>
    PROVE  /\ Tail(w) \in Seq(Nat) /\ w[1] \in Nat
           /\ Counted(w) = w[1] + Counted(Tail(w))
<1>1. PICK f : Sums(w, f)
  BY SumsExist
<1> DEFINE v == Tail(w)
<1>2. /\ v \in Seq(Nat) /\ Len(w) \in Nat /\ Len(w) >= 1 /\ Len(v) = Len(w) - 1 /\ Len(v) \in Nat
      /\ w[1] \in Nat /\ \A k \in 1..Len(v) : v[k] = w[k + 1]
  OBVIOUS
<1>3. PICK g : Sums(v, g)
  BY <1>2, SumsExist
<1> HIDE DEF v
<1> DEFINE T == {n \in Nat : n <= Len(v) => f[n + 1] = w[1] + g[n]}
<1>4. 0 \in T
  <2>1. f[1] = f[1 - 1] + w[1] /\ f[0] = 0 /\ g[0] = 0
    BY <1>1, <1>2, <1>3 DEF Sums, SumsTo
  <2> QED
    BY <1>2, <2>1
<1>5. ASSUME NEW n \in Nat, n \in T PROVE n + 1 \in T
  <2> SUFFICES ASSUME n + 1 <= Len(v) PROVE f[(n + 1) + 1] = w[1] + g[n + 1]
    OBVIOUS
  <2>1. n + 1 \in 1..Len(v) /\ (n + 1) + 1 \in 1..Len(w) /\ (n + 1) - 1 = n
        /\ ((n + 1) + 1) - 1 = n + 1 /\ n \in 0..Len(v)
    BY <1>2
  <2>2. g[n + 1] = g[n] + v[n + 1] /\ g[n] \in Nat
    BY <1>3, <2>1 DEF Sums, SumsTo
  <2>4. v[n + 1] = w[(n + 1) + 1] /\ v[n + 1] \in Nat
    <3>1. v[n + 1] \in Nat
      BY <1>2, <2>1, ElementOfSeq
    <3>2. v[n + 1] = w[(n + 1) + 1]
      BY <1>2, <2>1
    <3> QED
      BY <3>1, <3>2
  <2>3. f[(n + 1) + 1] = f[n + 1] + w[(n + 1) + 1]
    BY <1>1, <2>1 DEF Sums, SumsTo
  <2>5. f[n + 1] = w[1] + g[n] /\ w[1] \in Nat
    <3>1. n <= Len(v)
      BY <1>2
    <3> QED
      BY <1>2, <1>5, <3>1
  <2> HIDE DEF T
  <2> QED
    BY <2>2, <2>3, <2>4, <2>5
<1>6. Len(v) \in T
  <2> HIDE DEF T
  <2> QED
    BY <1>2, <1>4, <1>5, Induction
<1>7. Counted(w) = f[Len(w)] /\ Counted(v) = g[Len(v)]
  BY <1>1, <1>2, <1>3, CountedIs
<1> QED
  BY <1>2, <1>6, <1>7 DEF v

LEMMA CountedZero ==
    ASSUME NEW w \in Seq(Nat), \A i \in 1..Len(w) : w[i] = 0 PROVE Counted(w) = 0
<1> DEFINE f == [k \in 0..Len(w) |-> 0]
<1>1. Sums(w, f)
  BY DEF Sums, SumsTo
<1> QED
  BY <1>1, CountedIs

\* Every number of s is at most one of w, and they come in the same order.
Fits(s, w, e) ==
    /\ e \in [1..Len(s) -> 1..Len(w)]
    /\ \A i \in 1..Len(s) : s[i] <= w[e[i]]
    /\ \A i, j \in 1..Len(s) : i < j => e[i] < e[j]

LEMMA OneLess ==
    ASSUME NEW n \in Nat, NEW x \in 1..n, x # 1
    PROVE  x \in 2..n /\ x - 1 \in 1..n - 1 /\ (x - 1) + 1 = x
OBVIOUS

LEMMA OrderLess == ASSUME NEW x \in Int, NEW y \in Int, x < y PROVE x - 1 < y - 1
OBVIOUS

LEMMA FitsTail ==
    ASSUME NEW s \in Seq(Nat), NEW w \in Seq(Nat), NEW e, Fits(s, w, e), s # <<>>
    PROVE  /\ w # <<>>
           /\ e[1] = 1 => s[1] <= w[1] /\ \E d : Fits(Tail(s), Tail(w), d)
           /\ e[1] # 1 => \E d : Fits(s, Tail(w), d)
<1> DEFINE t == Tail(s)
           v == Tail(w)
<1>1. /\ Len(s) \in Nat /\ Len(s) >= 1 /\ 1 \in 1..Len(s) /\ Len(t) = Len(s) - 1 /\ Len(t) \in Nat
      /\ \A i \in 1..Len(t) : t[i] = s[i + 1]
  OBVIOUS
<1>2. e[1] \in 1..Len(w) /\ Len(w) >= 1 /\ Len(w) \in Nat /\ w # <<>>
  BY <1>1 DEF Fits
<1>3. Len(v) = Len(w) - 1 /\ Len(v) \in Nat /\ \A i \in 1..Len(v) : v[i] = w[i + 1]
  BY <1>2
<1> HIDE DEF t, v
<1>6. ASSUME NEW i \in 1..Len(s)
      PROVE  /\ e[i] \in 1..Len(w) /\ e[i] \in Int /\ s[i] <= w[e[i]]
             /\ e[i] # 1 => e[i] - 1 \in 1..Len(v) /\ v[e[i] - 1] = w[e[i]]
             /\ i = 1 \/ e[i] # 1
  <2>1. e[i] \in 1..Len(w) /\ s[i] <= w[e[i]]
    BY DEF Fits
  <2>2. ASSUME e[i] # 1 PROVE e[i] - 1 \in 1..Len(v) /\ v[e[i] - 1] = w[e[i]]
    <3>1. e[i] - 1 \in 1..Len(w) - 1 /\ (e[i] - 1) + 1 = e[i]
      BY <1>2, <2>1, <2>2, OneLess
    <3>2. e[i] - 1 \in 1..Len(v)
      BY <1>3, <3>1
    <3> QED
      BY <1>3, <3>1, <3>2
  <2>3. ASSUME i # 1 PROVE e[i] # 1
    <3>1. 1 < i
      BY <1>1, <2>3
    <3>2. e[1] < e[i]
      BY <1>1, <3>1 DEF Fits
    <3> QED
      BY <1>2, <2>1, <3>2
  <2> QED
    BY <2>1, <2>2, <2>3
<1>7. ASSUME NEW i \in 1..Len(s), NEW j \in 1..Len(s), i < j PROVE e[i] - 1 < e[j] - 1
  <2>1. e[i] < e[j]
    BY <1>7 DEF Fits
  <2>2. e[i] \in Int /\ e[j] \in Int
    BY <1>6
  <2> QED
    BY <2>1, <2>2, OrderLess
<1>4. ASSUME e[1] = 1 PROVE s[1] <= w[1] /\ Fits(t, v, [i \in 1..Len(t) |-> e[i + 1] - 1])
  <2>1. s[1] <= w[1]
    BY <1>1, <1>4, <1>6
  <2>0. ASSUME NEW i \in 1..Len(t) PROVE i + 1 \in 1..Len(s) /\ i + 1 # 1 /\ i \in Int
    BY <1>1
  <2>2. ASSUME NEW i \in 1..Len(t)
        PROVE  /\ e[i + 1] - 1 \in 1..Len(v) /\ t[i] <= v[e[i + 1] - 1]
    <3>1. i + 1 \in 1..Len(s) /\ i + 1 # 1
      BY <2>0
    <3>2. e[i + 1] - 1 \in 1..Len(v) /\ v[e[i + 1] - 1] = w[e[i + 1]] /\ s[i + 1] <= w[e[i + 1]]
      BY <1>6, <3>1
    <3>3. t[i] = s[i + 1]
      BY <1>1
    <3> QED
      BY <3>2, <3>3
  <2>3. ASSUME NEW i \in 1..Len(t), NEW j \in 1..Len(t), i < j PROVE e[i + 1] - 1 < e[j + 1] - 1
    <3>1. i + 1 \in 1..Len(s) /\ j + 1 \in 1..Len(s) /\ i + 1 < j + 1
      BY <2>0, <2>3
    <3> QED
      BY <1>7, <3>1
  <2> QED
    BY <2>1, <2>2, <2>3 DEF Fits
<1>5. ASSUME e[1] # 1 PROVE Fits(s, v, [i \in 1..Len(s) |-> e[i] - 1])
  <2>1. ASSUME NEW i \in 1..Len(s) PROVE e[i] - 1 \in 1..Len(v) /\ s[i] <= v[e[i] - 1]
    <3>1. e[i] # 1
      BY <1>5, <1>6
    <3> QED
      BY <1>6, <3>1
  <2> QED
    BY <1>7, <2>1 DEF Fits
<1> QED
  BY <1>2, <1>4, <1>5 DEF t, v

\* Then they add up to no more.
LEMMA FitsAddsUp ==
    ASSUME NEW s \in Seq(Nat), NEW w \in Seq(Nat), \E e : Fits(s, w, e)
    PROVE  Counted(s) <= Counted(w)
<1> DEFINE Good(t, v) == (\E e : Fits(t, v, e)) => Counted(t) <= Counted(v)
           T == {n \in Nat : \A t, v \in Seq(Nat) : Len(v) = n => Good(t, v)}
<1>0. ASSUME NEW t \in Seq(Nat), NEW v \in Seq(Nat), t = <<>> PROVE Counted(t) <= Counted(v)
  BY <1>0, CountedEmpty, CountedNat
<1>1. 0 \in T
  <2>1. ASSUME NEW t \in Seq(Nat), NEW v \in Seq(Nat), Len(v) = 0 PROVE Good(t, v)
    <3> SUFFICES ASSUME NEW e, Fits(t, v, e) PROVE Counted(t) <= Counted(v)
      OBVIOUS
    <3>1. v = <<>>
      BY <2>1, EmptySeq
    <3>2. t = <<>>
      BY <3>1, FitsTail
    <3> QED
      BY <1>0, <3>2
  <2> QED
    BY <2>1
<1>2. ASSUME NEW n \in Nat, n \in T PROVE n + 1 \in T
  <2>1. ASSUME NEW t \in Seq(Nat), NEW v \in Seq(Nat), Len(v) = n + 1 PROVE Good(t, v)
    <3> SUFFICES ASSUME NEW e, Fits(t, v, e), t # <<>> PROVE Counted(t) <= Counted(v)
      BY <1>0
    <3>1. /\ v # <<>>
          /\ e[1] = 1 => t[1] <= v[1] /\ \E d : Fits(Tail(t), Tail(v), d)
          /\ e[1] # 1 => \E d : Fits(t, Tail(v), d)
      BY FitsTail
    <3>2. /\ Tail(v) \in Seq(Nat) /\ v[1] \in Nat /\ Counted(v) = v[1] + Counted(Tail(v))
          /\ Tail(t) \in Seq(Nat) /\ t[1] \in Nat /\ Counted(t) = t[1] + Counted(Tail(t))
      BY <3>1, CountedTail
    <3>3. Len(Tail(v)) = n
      BY <2>1, <3>1
    <3>4. Good(Tail(t), Tail(v)) /\ Good(t, Tail(v))
      BY <1>2, <3>2, <3>3
    <3>5. Counted(Tail(v)) \in Nat /\ Counted(Tail(t)) \in Nat /\ Counted(t) \in Nat
      BY <3>2, CountedNat
    <3>6. CASE e[1] = 1
      <4>1. Counted(Tail(t)) <= Counted(Tail(v)) /\ t[1] <= v[1]
        BY <3>1, <3>4, <3>6
      <4>2. t[1] + Counted(Tail(t)) <= v[1] + Counted(Tail(v))
        BY <3>2, <3>5, <4>1
      <4> QED
        BY <3>2, <4>2
    <3>7. CASE e[1] # 1
      <4>1. Counted(t) <= Counted(Tail(v))
        BY <3>1, <3>4, <3>7
      <4>2. Counted(t) <= v[1] + Counted(Tail(v))
        BY <3>2, <3>5, <4>1
      <4> QED
        BY <3>2, <4>2
    <3> QED
      BY <3>6, <3>7
  <2> HIDE DEF Good
  <2> QED
    BY <2>1
<1>3. Len(w) \in T
  <2> HIDE DEF T
  <2>1. Len(w) \in Nat
    OBVIOUS
  <2> QED
    BY <1>1, <1>2, <2>1, Induction
<1> QED
  BY <1>3

-----------------------------------------------------------------------------
(* How many lines of a queue are the stream's, and how long they are.      *)

Mark(m) == IF m.drawn THEN 1 ELSE 0

LEMMA MarkIs == \A m : Mark(m) \in {0, 1} /\ (m.drawn => Mark(m) = 1) /\ (~m.drawn => Mark(m) = 0)
BY DEF Mark

LEMMA DrawnEmpty == Drawn(<<>>) = 0 /\ Characters(<<>>) = 0
<1>1. [i \in DOMAIN <<>> |-> IF <<>>[i].drawn THEN 1 ELSE 0] = <<>>
  OBVIOUS
<1>2. [i \in DOMAIN <<>> |-> <<>>[i].len] = <<>>
  OBVIOUS
<1> QED
  BY <1>1, <1>2, CountedEmpty DEF Drawn, Characters

LEMMA DrawnNat == ASSUME NEW S, NEW s \in Seq(S) PROVE Drawn(s) \in Nat
<1> DEFINE v == [i \in DOMAIN s |-> IF s[i].drawn THEN 1 ELSE 0]
<1>1. v \in Seq(Nat)
  OBVIOUS
<1> QED
  BY <1>1, CountedNat DEF Drawn

LEMMA DrawnAppend ==
    ASSUME NEW S, NEW s \in Seq(S), NEW m \in S
    PROVE  Drawn(Append(s, m)) = Drawn(s) + Mark(m)
<1> DEFINE v == [i \in DOMAIN s |-> IF s[i].drawn THEN 1 ELSE 0]
           r2 == Append(s, m)
           u == [i \in DOMAIN r2 |-> IF r2[i].drawn THEN 1 ELSE 0]
<1>1. v \in Seq(Nat) /\ Len(v) = Len(s) /\ Mark(m) \in Nat
  BY DEF Mark
<1>2. u = Append(v, Mark(m))
  <2>1. r2 \in Seq(S) /\ Len(r2) = Len(s) + 1 /\ r2[Len(s) + 1] = m
        /\ \A i \in 1..Len(s) : r2[i] = s[i]
    OBVIOUS
  <2>2. u \in Seq(Nat) /\ Len(u) = Len(s) + 1
    BY <2>1
  <2>3. \A i \in 1..Len(s) + 1 : u[i] = Append(v, Mark(m))[i]
    BY <1>1, <2>1 DEF Mark
  <2>4. Append(v, Mark(m)) \in Seq(Nat) /\ Len(Append(v, Mark(m))) = Len(s) + 1
    BY <1>1
  <2> HIDE DEF u, v, r2
  <2> QED
    BY <2>2, <2>3, <2>4, SeqEqual
<1>3. Counted(Append(v, Mark(m))) = Counted(v) + Mark(m)
  BY <1>1, CountedAppend
<1> QED
  BY <1>2, <1>3 DEF Drawn

LEMMA DrawnTail ==
    ASSUME NEW S, NEW s \in Seq(S), s # <<>>
    PROVE  Drawn(s) = Mark(Head(s)) + Drawn(Tail(s))
<1> DEFINE v == [i \in DOMAIN s |-> IF s[i].drawn THEN 1 ELSE 0]
           t == Tail(s)
           u == [i \in DOMAIN t |-> IF t[i].drawn THEN 1 ELSE 0]
<1>1. v \in Seq(Nat) /\ v # <<>> /\ v[1] = Mark(Head(s)) /\ Len(v) = Len(s) /\ Len(s) \in Nat /\ Len(s) >= 1
  BY DEF Mark
<1>2. u = Tail(v)
  <2>1. t \in Seq(S) /\ Len(t) = Len(s) - 1 /\ \A i \in 1..Len(s) - 1 : t[i] = s[i + 1]
    OBVIOUS
  <2>2. u \in Seq(Nat) /\ Len(u) = Len(s) - 1
    BY <2>1
  <2>3. Tail(v) \in Seq(Nat) /\ Len(Tail(v)) = Len(s) - 1 /\ \A i \in 1..Len(s) - 1 : Tail(v)[i] = v[i + 1]
    BY <1>1
  <2>4. \A i \in 1..Len(s) - 1 : u[i] = Tail(v)[i]
    BY <1>1, <2>1, <2>3
  <2> HIDE DEF u, v, t
  <2> QED
    BY <2>2, <2>3, <2>4, SeqEqual
<1>3. Counted(v) = v[1] + Counted(Tail(v))
  BY <1>1, CountedTail
<1> QED
  BY <1>1, <1>2, <1>3 DEF Drawn

LEMMA DrawnOne == \A m : Drawn(<<m>>) = Mark(m)
<1> SUFFICES ASSUME NEW m PROVE Drawn(<<m>>) = Mark(m)
  OBVIOUS
<1>1. <<>> \in Seq({m}) /\ Append(<<>>, m) = <<m>> /\ m \in {m}
  OBVIOUS
<1>2. Drawn(Append(<<>>, m)) = Drawn(<<>>) + Mark(m)
  BY <1>1, DrawnAppend
<1> QED
  BY <1>1, <1>2, DrawnEmpty, MarkIs

LEMMA DrawnNone ==
    ASSUME NEW S, NEW s \in Seq(S), \A i \in DOMAIN s : ~s[i].drawn PROVE Drawn(s) = 0
<1> DEFINE v == [i \in DOMAIN s |-> IF s[i].drawn THEN 1 ELSE 0]
<1>1. v \in Seq(Nat) /\ \A i \in 1..Len(v) : v[i] = 0
  OBVIOUS
<1> QED
  BY <1>1, CountedZero DEF Drawn

Lengths(s) == [i \in DOMAIN s |-> s[i].len]

LEMMA LengthsAre ==
    ASSUME NEW S, NEW s \in Seq(S), \A m \in S : m.len \in Nat
    PROVE  /\ Lengths(s) \in Seq(Nat) /\ Len(Lengths(s)) = Len(s)
           /\ \A i \in 1..Len(s) : Lengths(s)[i] = s[i].len
           /\ Characters(s) = Counted(Lengths(s)) /\ Characters(s) \in Nat
<1>1. /\ Lengths(s) \in Seq(Nat) /\ Len(Lengths(s)) = Len(s)
      /\ \A i \in 1..Len(s) : Lengths(s)[i] = s[i].len
  BY DEF Lengths
<1>2. Characters(s) = Counted(Lengths(s))
  BY DEF Characters, Lengths
<1> QED
  BY <1>1, <1>2, CountedNat

LEMMA CharactersAppend ==
    ASSUME NEW S, NEW s \in Seq(S), NEW m \in S, \A n \in S : n.len \in Nat
    PROVE  Characters(Append(s, m)) = Characters(s) + m.len
<1> DEFINE t == Append(s, m)
<1>1. t \in Seq(S) /\ Len(t) = Len(s) + 1 /\ t[Len(s) + 1] = m /\ \A i \in 1..Len(s) : t[i] = s[i]
  OBVIOUS
<1>2. /\ Lengths(s) \in Seq(Nat) /\ Len(Lengths(s)) = Len(s)
      /\ \A i \in 1..Len(s) : Lengths(s)[i] = s[i].len
      /\ Characters(s) = Counted(Lengths(s))
  BY LengthsAre
<1> HIDE DEF t
<1>3. /\ Lengths(t) \in Seq(Nat) /\ Len(Lengths(t)) = Len(s) + 1
      /\ \A i \in 1..Len(s) + 1 : Lengths(t)[i] = t[i].len
      /\ Characters(t) = Counted(Lengths(t))
  BY <1>1, LengthsAre
<1>4. Lengths(t) = Append(Lengths(s), m.len)
  <2> DEFINE u == Append(Lengths(s), m.len)
  <2>1. /\ u \in Seq(Nat) /\ Len(u) = Len(s) + 1 /\ u[Len(s) + 1] = m.len
        /\ \A i \in 1..Len(s) : u[i] = Lengths(s)[i]
    BY <1>2
  <2>2. \A i \in 1..Len(s) + 1 : Lengths(t)[i] = u[i]
    BY <1>1, <1>2, <1>3, <2>1
  <2> HIDE DEF u
  <2> QED
    BY <1>3, <2>1, <2>2, SeqEqual DEF u
<1> QED
  BY <1>2, <1>3, <1>4, CountedAppend DEF t

LEMMA CharactersTail ==
    ASSUME NEW S, NEW s \in Seq(S), s # <<>>, \A n \in S : n.len \in Nat
    PROVE  Characters(Tail(s)) <= Characters(s)
<1> DEFINE t == Tail(s)
<1>1. t \in Seq(S) /\ Len(s) \in Nat /\ Len(s) >= 1 /\ Len(t) = Len(s) - 1 /\ \A i \in 1..Len(s) - 1 : t[i] = s[i + 1]
  OBVIOUS
<1> HIDE DEF t
<1>2. /\ Lengths(s) \in Seq(Nat) /\ Len(Lengths(s)) = Len(s)
      /\ \A i \in 1..Len(s) : Lengths(s)[i] = s[i].len
      /\ Characters(s) = Counted(Lengths(s))
  BY LengthsAre
<1>3. /\ Lengths(t) \in Seq(Nat) /\ Len(Lengths(t)) = Len(t)
      /\ \A i \in 1..Len(t) : Lengths(t)[i] = t[i].len
      /\ Characters(t) = Counted(Lengths(t))
  BY <1>1, LengthsAre
<1>4. Fits(Lengths(t), Lengths(s), [i \in 1..Len(t) |-> i + 1])
  <2>1. ASSUME NEW i \in 1..Len(t)
        PROVE  i + 1 \in 1..Len(s) /\ Lengths(t)[i] <= Lengths(s)[i + 1]
    <3>1. i \in 1..Len(s) - 1 /\ i + 1 \in 1..Len(s)
      BY <1>1
    <3>2. Lengths(t)[i] = s[i + 1].len /\ Lengths(s)[i + 1] = s[i + 1].len
      BY <1>1, <1>2, <1>3, <3>1
    <3>3. Lengths(s)[i + 1] \in Nat
      BY <1>2, <3>1
    <3> QED
      BY <3>1, <3>2, <3>3
  <2> QED
    BY <1>2, <1>3, <2>1 DEF Fits
<1> QED
  BY <1>2, <1>3, <1>4, FitsAddsUp DEF t

-----------------------------------------------------------------------------
(* What c_line covers: an entry for every line that is ahead of the ring -  *)
(* executed, or answered and unread - and then one for every streamed line  *)
(* in the ring, in the order of the ring and as long as the line or longer. *)

Lines == [kind : {"line"}, drawn : BOOLEAN, len : Nat, pen : {"on", "off", "same"},
          bad : BOOLEAN, whole : BOOLEAN]

Embeds(ring, ahead, w, e) ==
    /\ e \in [1..Len(ring) -> Nat]
    /\ \A i \in 1..Len(ring) :
         ring[i].drawn => e[i] \in ahead + 1..Len(w) /\ ring[i].len <= w[e[i]]
    /\ \A i, j \in 1..Len(ring) : i < j /\ ring[i].drawn /\ ring[j].drawn => e[i] < e[j]
Covers(ring, ahead, w) ==
    /\ ahead + Drawn(ring) <= Len(w)
    /\ \E e : Embeds(ring, ahead, w, e)

LEMMA LineFields ==
    \A l \in Lines : /\ l.drawn \in BOOLEAN /\ l.len \in Nat /\ l.whole \in BOOLEAN
                     /\ l.kind = "line" /\ l.bad \in BOOLEAN
BY DEF Lines

\* With nothing of the stream in the ring any window will do.
LEMMA CoversNone ==
    ASSUME NEW ring \in Seq(Lines), NEW w \in Seq(Nat), \A i \in 1..Len(ring) : ~ring[i].drawn
    PROVE  Covers(ring, 0, w)
<1>1. Drawn(ring) = 0
  BY DrawnNone
<1>2. Embeds(ring, 0, w, [i \in 1..Len(ring) |-> 0])
  BY DEF Embeds
<1> QED
  BY <1>1, <1>2 DEF Covers

LEMMA CoversLess ==
    ASSUME NEW ring \in Seq(Lines), NEW w \in Seq(Nat), NEW a \in Nat, NEW c \in Nat, c <= a,
           Covers(ring, a, w)
    PROVE  Covers(ring, c, w)
<1>1. PICK e : Embeds(ring, a, w, e)
  BY DEF Covers
<1>2. ASSUME NEW i \in 1..Len(ring), ring[i].drawn PROVE e[i] \in c + 1..Len(w)
  <2>1. e[i] \in a + 1..Len(w)
    BY <1>1, <1>2 DEF Embeds
  <2> QED
    BY <2>1
<1>3. Embeds(ring, c, w, e)
  BY <1>1, <1>2 DEF Embeds
<1>4. Drawn(ring) \in Nat
  BY DrawnNat
<1>5. c + Drawn(ring) <= Len(w)
  BY <1>4 DEF Covers
<1> QED
  BY <1>3, <1>5 DEF Covers

\* A longer window.
LEMMA CoversMore ==
    ASSUME NEW ring \in Seq(Lines), NEW w \in Seq(Nat), NEW a \in Nat, NEW x \in Nat,
           Covers(ring, a, w)
    PROVE  Covers(ring, a, Append(w, x))
<1> DEFINE v == Append(w, x)
<1>0. Len(v) = Len(w) + 1 /\ Len(w) \in Nat /\ \A i \in 1..Len(w) : v[i] = w[i]
  OBVIOUS
<1> HIDE DEF v
<1>1. PICK e : Embeds(ring, a, w, e)
  BY DEF Covers
<1>2. Embeds(ring, a, v, e)
  <2>1. ASSUME NEW i \in 1..Len(ring), ring[i].drawn
        PROVE  e[i] \in a + 1..Len(v) /\ ring[i].len <= v[e[i]]
    <3>1. e[i] \in a + 1..Len(w) /\ ring[i].len <= w[e[i]] /\ e[i] \in Nat
      BY <1>1, <2>1 DEF Embeds
    <3>2. e[i] \in 1..Len(w)
      BY <1>0, <3>1
    <3> QED
      BY <1>0, <3>1, <3>2
  <2> QED
    BY <1>1, <2>1 DEF Embeds
<1>3. a + Drawn(ring) <= Len(v)
  BY <1>0, DrawnNat DEF Covers
<1> QED
  BY <1>2, <1>3 DEF Covers, v

\* A line enters the ring: another one, or a streamed one with its entry.
LEMMA EmbedsAppend ==
    ASSUME NEW ring \in Seq(Lines), NEW w \in Seq(Nat), NEW a \in Nat, NEW l \in Lines,
           NEW e, Embeds(ring, a, w, e),
           l.drawn => /\ Len(w) >= a + 1 /\ l.len <= w[Len(w)]
                      /\ \A i \in 1..Len(ring) : ring[i].drawn => e[i] < Len(w)
    PROVE  \E d : Embeds(Append(ring, l), a, w, d)
<1> DEFINE s == Append(ring, l)
           d == [i \in 1..Len(ring) + 1 |-> IF i = Len(ring) + 1 THEN Len(w) ELSE e[i]]
<1>1. /\ Len(ring) \in Nat /\ Len(w) \in Nat /\ Len(s) = Len(ring) + 1 /\ s[Len(ring) + 1] = l
      /\ \A i \in 1..Len(ring) : s[i] = ring[i]
  OBVIOUS
<1> HIDE DEF s
<1>2. d \in [1..Len(s) -> Nat]
  BY <1>1 DEF Embeds
<1>3. ASSUME NEW i \in 1..Len(s) PROVE i \in 1..Len(ring) \/ i = Len(ring) + 1
  BY <1>1
<1>5. \A i \in 1..Len(ring) : d[i] = e[i] /\ s[i] = ring[i] /\ i \in 1..Len(s)
  BY <1>1
<1>6. d[Len(ring) + 1] = Len(w)
  BY <1>1
<1> HIDE DEF d
<1>7. ASSUME NEW i \in 1..Len(s), s[i].drawn PROVE d[i] \in a + 1..Len(w) /\ s[i].len <= w[d[i]]
  <2>1. CASE i \in 1..Len(ring)
    BY <1>5, <1>7, <2>1 DEF Embeds
  <2>2. CASE i = Len(ring) + 1
    BY <1>1, <1>6, <1>7, <2>2
  <2> QED
    BY <1>3, <2>1, <2>2
<1>8. ASSUME NEW i \in 1..Len(s), NEW j \in 1..Len(s), i < j, s[i].drawn, s[j].drawn PROVE d[i] < d[j]
  <2>1. i \in 1..Len(ring)
    BY <1>1, <1>8
  <2>2. CASE j \in 1..Len(ring)
    BY <1>5, <1>8, <2>1, <2>2 DEF Embeds
  <2>3. CASE j = Len(ring) + 1
    BY <1>1, <1>5, <1>6, <1>8, <2>1, <2>3
  <2> QED
    BY <1>3, <2>2, <2>3
<1>9. Embeds(s, a, w, d)
  BY <1>2, <1>7, <1>8 DEF Embeds
<1> QED
  BY <1>9 DEF s

LEMMA CoversCommand ==
    ASSUME NEW ring \in Seq(Lines), NEW w \in Seq(Nat), NEW a \in Nat, NEW l \in Lines, ~l.drawn,
           Covers(ring, a, w)
    PROVE  Covers(Append(ring, l), a, w)
<1>1. PICK e : Embeds(ring, a, w, e)
  BY DEF Covers
<1>2. \E d : Embeds(Append(ring, l), a, w, d)
  BY <1>1, EmbedsAppend
<1>3. Drawn(Append(ring, l)) = Drawn(ring)
  BY DrawnAppend, DrawnNat, MarkIs
<1> QED
  BY <1>2, <1>3 DEF Covers

LEMMA CoversStreamed ==
    ASSUME NEW ring \in Seq(Lines), NEW w \in Seq(Nat), NEW a \in Nat, NEW l \in Lines, NEW x \in Nat,
           l.len <= x, Covers(ring, a, w)
    PROVE  Covers(Append(ring, l), a, Append(w, x))
<1> DEFINE v == Append(w, x)
<1>0. v \in Seq(Nat) /\ Len(v) = Len(w) + 1 /\ Len(w) \in Nat /\ v[Len(w) + 1] = x
      /\ \A i \in 1..Len(w) : v[i] = w[i]
  OBVIOUS
<1>1. PICK e : Embeds(ring, a, w, e)
  BY DEF Covers
<1> HIDE DEF v
<1>3. Drawn(ring) \in Nat /\ a + Drawn(ring) <= Len(w)
  BY DrawnNat DEF Covers
<1>2. Embeds(ring, a, v, e)
  <2>1. ASSUME NEW i \in 1..Len(ring), ring[i].drawn
        PROVE  e[i] \in a + 1..Len(v) /\ ring[i].len <= v[e[i]]
    <3>1. e[i] \in a + 1..Len(w) /\ ring[i].len <= w[e[i]] /\ e[i] \in Nat
      BY <1>1, <2>1 DEF Embeds
    <3>2. e[i] \in 1..Len(w)
      BY <1>0, <3>1
    <3> QED
      BY <1>0, <3>1, <3>2
  <2> QED
    BY <1>1, <2>1 DEF Embeds
<1>4. \A i \in 1..Len(ring) : ring[i].drawn => e[i] < Len(v)
  BY <1>0, <1>1 DEF Embeds
<1>5. Len(v) >= a + 1 /\ l.len <= v[Len(v)]
  BY <1>0, <1>3
<1>6. \E d : Embeds(Append(ring, l), a, v, d)
  BY <1>0, <1>2, <1>4, <1>5, EmbedsAppend
<1>7. Drawn(Append(ring, l)) = Drawn(ring) + Mark(l)
  BY DrawnAppend
<1>8. Mark(l) = 0 \/ Mark(l) = 1
  BY MarkIs
<1>9. a + Drawn(Append(ring, l)) <= Len(v)
  BY <1>0, <1>3, <1>7, <1>8
<1> QED
  BY <1>6, <1>9 DEF Covers, v

\* The first line leaves the ring for the line being executed.
LEMMA CoversTake ==
    ASSUME NEW ring \in Seq(Lines), ring # <<>>, NEW w \in Seq(Nat), NEW a \in Nat,
           Covers(ring, a, w)
    PROVE  Covers(Tail(ring), a + Mark(Head(ring)), w)
<1> DEFINE s == Tail(ring)
           h == Head(ring)
<1>1. /\ s \in Seq(Lines) /\ Len(ring) \in Nat /\ Len(ring) >= 1 /\ Len(s) = Len(ring) - 1 /\ Len(s) \in Nat
      /\ h = ring[1] /\ h \in Lines /\ 1 \in 1..Len(ring)
      /\ \A i \in 1..Len(ring) - 1 : s[i] = ring[i + 1]
  OBVIOUS
<1>2. Drawn(ring) = Mark(h) + Drawn(s) /\ Drawn(s) \in Nat
  BY <1>1, DrawnTail, DrawnNat
<1>3. PICK e : Embeds(ring, a, w, e)
  BY DEF Covers
<1> HIDE DEF s, h
<1>4. Mark(h) \in {0, 1} /\ (h.drawn => Mark(h) = 1) /\ (~h.drawn => Mark(h) = 0)
  BY MarkIs
<1> DEFINE d == [i \in 1..Len(s) |-> e[i + 1]]
<1>5. ASSUME NEW i \in 1..Len(s)
      PROVE  i + 1 \in 1..Len(ring) /\ s[i] = ring[i + 1] /\ d[i] = e[i + 1] /\ 1 < i + 1
             /\ e[i + 1] \in Nat
  BY <1>1, <1>3 DEF Embeds
<1>6. ASSUME NEW i \in 1..Len(s), s[i].drawn
      PROVE  d[i] \in a + Mark(h) + 1..Len(w) /\ s[i].len <= w[d[i]]
  <2>1. d[i] \in a + 1..Len(w) /\ s[i].len <= w[d[i]] /\ d[i] \in Nat
    BY <1>3, <1>5, <1>6 DEF Embeds
  <2>2. ASSUME h.drawn PROVE d[i] > a + 1
    <3>1. e[1] < e[i + 1] /\ e[1] \in a + 1..Len(w)
      BY <1>1, <1>3, <1>5, <1>6, <2>2 DEF Embeds
    <3> QED
      BY <1>5, <2>1, <3>1
  <2> QED
    BY <1>4, <2>1, <2>2
<1>7. ASSUME NEW i \in 1..Len(s), NEW j \in 1..Len(s), i < j, s[i].drawn, s[j].drawn PROVE d[i] < d[j]
  <2>1. i + 1 < j + 1
    BY <1>7
  <2> QED
    BY <1>3, <1>5, <1>7, <2>1 DEF Embeds
<1>8. d \in [1..Len(s) -> Nat]
  BY <1>5
<1> HIDE DEF d
<1>9. Embeds(s, a + Mark(h), w, d)
  BY <1>6, <1>7, <1>8 DEF Embeds
<1>10. a + Mark(h) + Drawn(s) <= Len(w)
  BY <1>2, <1>4 DEF Covers
<1> QED
  BY <1>9, <1>10 DEF Covers, s, h

\* An ok to a streamed line is read.
LEMMA CoversRead ==
    ASSUME NEW ring \in Seq(Lines), NEW w \in Seq(Nat), NEW a \in Nat, Covers(ring, a + 1, w)
    PROVE  w # <<>> /\ Covers(ring, a, Tail(w))
<1> DEFINE v == Tail(w)
<1>1. Drawn(ring) \in Nat /\ a + 1 + Drawn(ring) <= Len(w) /\ Len(w) \in Nat
  BY DrawnNat DEF Covers
<1>2. w # <<>>
  BY <1>1
<1>3. Len(v) = Len(w) - 1 /\ Len(v) \in Nat /\ \A i \in 1..Len(v) : v[i] = w[i + 1]
  BY <1>2
<1> HIDE DEF v
<1>4. PICK e : Embeds(ring, a + 1, w, e)
  BY DEF Covers
<1> DEFINE d == [i \in 1..Len(ring) |-> IF ring[i].drawn THEN e[i] - 1 ELSE 0]
<1>5. ASSUME NEW i \in 1..Len(ring), ring[i].drawn
      PROVE  /\ e[i] \in Nat /\ d[i] = e[i] - 1 /\ d[i] \in a + 1..Len(v)
             /\ ring[i].len <= v[d[i]]
  <2>1. e[i] \in a + 1 + 1..Len(w) /\ ring[i].len <= w[e[i]] /\ e[i] \in Nat
    BY <1>4, <1>5 DEF Embeds
  <2>2. PICK x \in Nat : x = e[i] /\ x \in a + 1 + 1..Len(w)
    BY <2>1
  <2>3. x - 1 \in a + 1..Len(v) /\ x - 1 \in 1..Len(v) /\ (x - 1) + 1 = x
    <3>1. x >= a + 2 /\ x <= Len(w)
      BY <1>1, <2>2
    <3>2. x - 1 >= a + 1 /\ x - 1 >= 1 /\ x - 1 <= Len(v)
      BY <1>1, <1>3, <3>1
    <3> QED
      BY <1>3, <3>2
  <2>4. v[x - 1] = w[x]
    BY <1>3, <2>3
  <2> QED
    BY <1>5, <2>1, <2>2, <2>3, <2>4
<1>6. d \in [1..Len(ring) -> Nat]
  <2>1. ASSUME NEW i \in 1..Len(ring) PROVE (IF ring[i].drawn THEN e[i] - 1 ELSE 0) \in Nat
    BY <1>5
  <2> QED
    BY <2>1
<1> HIDE DEF d
<1>7. ASSUME NEW i \in 1..Len(ring), NEW j \in 1..Len(ring), i < j, ring[i].drawn, ring[j].drawn
      PROVE  d[i] < d[j]
  <2>1. e[i] < e[j]
    BY <1>4, <1>7 DEF Embeds
  <2>2. e[i] \in Int /\ e[j] \in Int /\ d[i] = e[i] - 1 /\ d[j] = e[j] - 1
    BY <1>5, <1>7
  <2> QED
    BY <2>1, <2>2, OrderLess
<1>8. Embeds(ring, a, v, d)
  BY <1>5, <1>6, <1>7 DEF Embeds
<1> QED
  BY <1>1, <1>2, <1>3, <1>8 DEF Covers, v

\* With nothing but streamed lines in the ring, the ring is no longer than the window.
LEMMA CoversAddsUp ==
    ASSUME NEW ring \in Seq(Lines), NEW w \in Seq(Nat), NEW a \in Nat, Covers(ring, a, w),
           \A i \in 1..Len(ring) : ring[i].drawn
    PROVE  Characters(ring) <= Counted(w)
<1>1. PICK e : Embeds(ring, a, w, e)
  BY DEF Covers
<1>2. /\ Lengths(ring) \in Seq(Nat) /\ Len(Lengths(ring)) = Len(ring)
      /\ \A i \in 1..Len(ring) : Lengths(ring)[i] = ring[i].len
      /\ Characters(ring) = Counted(Lengths(ring))
  BY LengthsAre, LineFields
<1>3. Fits(Lengths(ring), w, e)
  <2>1. ASSUME NEW i \in 1..Len(ring) PROVE e[i] \in 1..Len(w) /\ ring[i].len <= w[e[i]]
    <3>1. ring[i].drawn
      OBVIOUS
    <3>2. e[i] \in a + 1..Len(w) /\ ring[i].len <= w[e[i]]
      BY <1>1, <3>1 DEF Embeds
    <3>3. a + 1..Len(w) \subseteq 1..Len(w)
      OBVIOUS
    <3> QED
      BY <3>2, <3>3
  <2>2. e = [i \in 1..Len(ring) |-> e[i]]
    BY <1>1 DEF Embeds
  <2>3. e \in [1..Len(ring) -> 1..Len(w)]
    BY <2>1, <2>2
  <2>4. \A i, j \in 1..Len(ring) : i < j => e[i] < e[j]
    BY <1>1 DEF Embeds
  <2> QED
    BY <1>2, <2>1, <2>3, <2>4 DEF Fits
<1> QED
  BY <1>2, <1>3, FitsAddsUp

-----------------------------------------------------------------------------
(* What a step sends, arriving one after the other.                        *)

After(b, messages, n, f) ==
    f = [k \in 0..n |-> IF k = 0 THEN b ELSE Arrive(f[k - 1], messages[k])]

LEMMA AfterIs ==
    \A b, messages, n, f : n \in Nat /\ After(b, messages, n, f) =>
        f[0] = b /\ \A k \in 1..n : f[k] = Arrive(f[k - 1], messages[k])
<1> SUFFICES ASSUME NEW b, NEW messages, NEW n, NEW f, n \in Nat, After(b, messages, n, f)
             PROVE  f[0] = b /\ \A k \in 1..n : f[k] = Arrive(f[k - 1], messages[k])
  OBVIOUS
<1>1. f[0] = b
  BY DEF After
<1>2. ASSUME NEW k \in 1..n PROVE f[k] = Arrive(f[k - 1], messages[k])
  <2>1. k \in 0..n /\ k # 0
    OBVIOUS
  <2> QED
    BY <2>1 DEF After
<1> QED
  BY <1>1, <1>2

LEMMA AfterExists ==
    ASSUME NEW b, NEW messages, NEW m \in Nat PROVE \E f : After(b, messages, m, f)
<1> DEFINE T == {n \in Nat : \E f : After(b, messages, n, f)}
<1>1. 0 \in T
  <2>1. After(b, messages, 0, [k \in 0..0 |-> b])
    BY DEF After
  <2> QED
    BY <2>1
<1>2. ASSUME NEW n \in Nat, n \in T PROVE n + 1 \in T
  <2>1. PICK f : After(b, messages, n, f)
    BY <1>2
  <2>2. f[0] = b /\ \A k \in 1..n : f[k] = Arrive(f[k - 1], messages[k])
    BY <2>1, AfterIs
  <2> DEFINE g == [k \in 0..n + 1 |->
                     IF k = n + 1 THEN Arrive(f[n], messages[n + 1]) ELSE f[k]]
             h == [k \in 0..n + 1 |-> IF k = 0 THEN b ELSE Arrive(g[k - 1], messages[k])]
  <2>3. ASSUME NEW k \in 0..n + 1 PROVE g[k] = h[k]
    <3>1. CASE k = 0
      BY <2>2, <3>1
    <3>2. CASE k = n + 1
      <4>1. g[(n + 1) - 1] = f[n] /\ (n + 1) - 1 = n /\ n + 1 # 0
        OBVIOUS
      <4> QED
        BY <3>2, <4>1
    <3>3. CASE k # 0 /\ k # n + 1
      <4>1. k \in 1..n /\ k - 1 \in 0..n + 1 /\ k - 1 # n + 1
        BY <3>3
      <4>2. g[k] = f[k] /\ g[k - 1] = f[k - 1] /\ h[k] = Arrive(g[k - 1], messages[k])
        BY <3>3, <4>1
      <4> QED
        BY <2>2, <4>1, <4>2
    <3> QED
      BY <3>1, <3>2, <3>3
  <2>4. g = h
    <3>1. g = [k \in 0..n + 1 |-> g[k]] /\ h = [k \in 0..n + 1 |-> h[k]]
      OBVIOUS
    <3> HIDE DEF g, h
    <3> QED
      BY <2>3, <3>1
  <2>5. After(b, messages, n + 1, g)
    BY <2>4 DEF After
  <2> QED
    BY <2>5
<1> HIDE DEF T
<1>3. m \in T
  BY <1>1, <1>2, Induction
<1> QED
  BY <1>3 DEF T

LEMMA AfterAgrees ==
    ASSUME NEW b, NEW ms, NEW ns, NEW m \in Nat, NEW l \in Nat, NEW f, NEW g,
           After(b, ms, m, f), After(b, ns, l, g), m <= l, \A k \in 1..m : ms[k] = ns[k]
    PROVE  f[m] = g[m]
<1> DEFINE T == {n \in Nat : n <= m => f[n] = g[n]}
<1>0. /\ f[0] = b /\ \A k \in 1..m : f[k] = Arrive(f[k - 1], ms[k])
      /\ g[0] = b /\ \A k \in 1..l : g[k] = Arrive(g[k - 1], ns[k])
  BY AfterIs
<1>1. 0 \in T
  BY <1>0
<1>2. ASSUME NEW n \in Nat, n \in T PROVE n + 1 \in T
  <2> SUFFICES ASSUME n + 1 <= m PROVE f[n + 1] = g[n + 1]
    OBVIOUS
  <2>1. n + 1 \in 1..m /\ n + 1 \in 1..l /\ (n + 1) - 1 = n /\ f[n] = g[n]
    BY <1>2
  <2>2. f[n + 1] = Arrive(f[n], ms[n + 1]) /\ g[n + 1] = Arrive(g[n], ns[n + 1])
    BY <1>0, <2>1
  <2> QED
    BY <2>1, <2>2
<1> HIDE DEF T
<1>3. m \in T
  BY <1>1, <1>2, Induction
<1> QED
  BY <1>3 DEF T

LEMMA ArrivalsIs ==
    ASSUME NEW S, NEW ms \in Seq(S), NEW b
    PROVE  \E f : After(b, ms, Len(ms), f) /\ Arrivals(b, ms) = f[Len(ms)]
<1> DEFINE Fix(f) == f = [n \in 0..Len(ms) |-> IF n = 0 THEN b ELSE Arrive(f[n - 1], ms[n])]
<1>1. Arrivals(b, ms) = (CHOOSE f : Fix(f))[Len(ms)]
  BY DEF Arrivals
<1>2. \E f : Fix(f)
  <2>1. Len(ms) \in Nat
    OBVIOUS
  <2>2. PICK f : After(b, ms, Len(ms), f)
    BY <2>1, AfterExists
  <2> QED
    BY <2>2 DEF After
<1>3. Fix(CHOOSE f : Fix(f))
  <2> HIDE DEF Fix
  <2> QED
    BY <1>2
<1>4. After(b, ms, Len(ms), CHOOSE f : Fix(f))
  BY <1>3 DEF After
<1> HIDE DEF Fix
<1> QED
  BY <1>1, <1>4

LEMMA ArrivalsNone == \A b : Arrivals(b, <<>>) = b
<1> SUFFICES ASSUME NEW b PROVE Arrivals(b, <<>>) = b
  OBVIOUS
<1>1. <<>> \in Seq({}) /\ Len(<<>>) = 0
  OBVIOUS
<1>2. PICK f : After(b, <<>>, 0, f) /\ Arrivals(b, <<>>) = f[0]
  BY <1>1, ArrivalsIs
<1> QED
  BY <1>2, AfterIs

LEMMA ArrivalsAppend ==
    ASSUME NEW S, NEW ms \in Seq(S), NEW m \in S, NEW b
    PROVE  Arrivals(b, Append(ms, m)) = Arrive(Arrivals(b, ms), m)
<1> DEFINE ns == Append(ms, m)
           l == Len(ms)
<1>1. /\ ns \in Seq(S) /\ Len(ns) = l + 1 /\ l \in Nat /\ ns[l + 1] = m
      /\ \A k \in 1..l : ms[k] = ns[k]
  OBVIOUS
<1> HIDE DEF ns
<1>2. PICK f : After(b, ms, l, f) /\ Arrivals(b, ms) = f[l]
  BY ArrivalsIs
<1>3. PICK g : After(b, ns, l + 1, g) /\ Arrivals(b, ns) = g[l + 1]
  BY <1>1, ArrivalsIs
<1> HIDE DEF l
<1>4. l + 1 \in Nat /\ l <= l + 1 /\ l + 1 \in 1..l + 1 /\ (l + 1) - 1 = l
  BY <1>1
<1>5. f[l] = g[l]
  BY <1>1, <1>2, <1>3, <1>4, AfterAgrees
<1>6. g[l + 1] = Arrive(g[l], ns[l + 1])
  <2>1. \A k \in 1..l + 1 : g[k] = Arrive(g[k - 1], ns[k])
    BY <1>3, <1>4, AfterIs
  <2> QED
    BY <1>4, <2>1
<1> QED
  BY <1>1, <1>2, <1>3, <1>5, <1>6 DEF ns

LEMMA ArrivalsOne == \A b, m : Arrivals(b, <<m>>) = Arrive(b, m)
<1> SUFFICES ASSUME NEW b, NEW m PROVE Arrivals(b, <<m>>) = Arrive(b, m)
  OBVIOUS
<1>1. Append(<<>>, m) = <<m>> /\ <<>> \in Seq({m}) /\ m \in {m}
  OBVIOUS
<1> QED
  BY <1>1, ArrivalsAppend, ArrivalsNone

LEMMA ArrivalsThen ==
    ASSUME NEW S, NEW ms \in Seq(S), NEW m \in S
    PROVE  /\ \A b : Arrivals(b, ms \o <<m>>) = Arrive(Arrivals(b, ms), m)
           /\ ms \o <<m>> \in Seq(S) /\ ms \o <<>> = ms
<1>1. ms \o <<m>> = Append(ms, m) /\ ms \o <<>> = ms /\ Append(ms, m) \in Seq(S)
  OBVIOUS
<1> QED
  BY <1>1, ArrivalsAppend

-----------------------------------------------------------------------------
(* What arrives, and where the stream goes on.                             *)

Pens == {"on", "off", "same"}
Room(b) == Capacity - Characters(b.ring)

LEMMA BoardFields ==
    ASSUME NEW b \in BoardSet
    PROVE  /\ b.ring \in Seq(Lines) /\ b.partial \in BOOLEAN /\ b.door \in DoorSet
           /\ b.locked \in BOOLEAN /\ b.moving \in BOOLEAN /\ b.pen \in BOOLEAN
           /\ Characters(b.ring) \in Nat /\ Drawn(b.ring) \in Nat /\ Room(b) \in Int
           /\ Capacity \in Nat /\ Room(b) = Capacity - Characters(b.ring)
<1>1. /\ b.ring \in Seq(Lines) /\ b.partial \in BOOLEAN /\ b.door \in DoorSet
      /\ b.locked \in BOOLEAN /\ b.moving \in BOOLEAN /\ b.pen \in BOOLEAN
  BY DEF BoardSet, Lines
<1> QED
  BY <1>1, LengthsAre, LineFields, DrawnNat, SizesAssumption DEF Room

LEMMA CommandIs ==
    ASSUME NEW p \in Pens
    PROVE  /\ Command(p) \in Lines /\ ~Command(p).drawn /\ Command(p).len = CommandLength
           /\ Command(p).kind = "line" /\ Command(p).whole
BY SizesAssumption DEF Command, Lines, Pens

LEMMA StreamedIs ==
    ASSUME NEW l \in LineSet
    PROVE  /\ Streamed(l) \in Lines /\ Streamed(l).drawn /\ Streamed(l).len = l.len
           /\ Streamed(l).kind = "line" /\ Streamed(l).whole
BY DEF Streamed, Lines, LineSet

\* What becomes of a line that arrives: it is in the ring, or part of it, or nothing.
LEMMA LineArrives ==
    ASSUME NEW b \in BoardSet, NEW l \in Lines, Characters(b.ring) <= Capacity
    PROVE  \E ring \in Seq(Lines) :
             /\ Arrive(b, l) = [b EXCEPT !.ring = ring]
             /\ Characters(ring) <= Capacity
             /\ \/ l.len <= Room(b) /\ ring = Append(b.ring, l)
                \/ l.len > Room(b) /\ Room(b) > 0
                   /\ \E c \in Lines : /\ c.drawn = l.drawn /\ c.len <= l.len
                                       /\ ring = Append(b.ring, c)
                \/ l.len > Room(b) /\ Room(b) <= 0 /\ ring = b.ring
<1>1. Arrive(b, l) = ArriveLine(b, l)
  BY LineFields DEF Arrive
<1>2. /\ b.ring \in Seq(Lines) /\ Characters(b.ring) \in Nat /\ Room(b) \in Int /\ l.len \in Nat
      /\ b.ring = b.ring /\ [b EXCEPT !.ring = b.ring] = b
  BY BoardFields, LineFields DEF BoardSet
<1>3. CASE l.len <= Room(b)
  <2>1. Arrive(b, l) = [b EXCEPT !.ring = Append(b.ring, l)]
    BY <1>1, <1>2, <1>3 DEF ArriveLine, Room
  <2>2. Characters(Append(b.ring, l)) = Characters(b.ring) + l.len
    BY <1>2, CharactersAppend, LineFields
  <2>3. Append(b.ring, l) \in Seq(Lines) /\ Characters(Append(b.ring, l)) <= Capacity
    BY <1>2, <1>3, <2>2, SizesAssumption DEF Room
  <2> QED
    BY <1>3, <2>1, <2>3
<1>4. CASE l.len > Room(b) /\ Room(b) > 0
  <2> DEFINE c == [l EXCEPT !.len = Room(b), !.whole = FALSE]
  <2>0. PICK x \in Nat : x = Room(b) /\ x <= l.len
    BY <1>2, <1>4
  <2>1. c \in Lines /\ c.drawn = l.drawn /\ c.len = Room(b) /\ c.len <= l.len
    <3>1. [l EXCEPT !.len = x, !.whole = FALSE] \in Lines
      BY DEF Lines
    <3>2. c.drawn = l.drawn /\ c.len = x
      BY <2>0 DEF Lines
    <3> QED
      BY <2>0, <3>1, <3>2
  <2>2. Arrive(b, l) = [b EXCEPT !.ring = Append(b.ring, c)]
    BY <1>1, <1>2, <1>4 DEF ArriveLine, Room
  <2> HIDE DEF c
  <2>3. Characters(Append(b.ring, c)) = Characters(b.ring) + c.len
    BY <1>2, <2>1, CharactersAppend, LineFields
  <2>4. Append(b.ring, c) \in Seq(Lines) /\ Characters(Append(b.ring, c)) <= Capacity
    BY <1>2, <2>1, <2>3, SizesAssumption DEF Room
  <2> QED
    BY <1>4, <2>1, <2>2, <2>4
<1>5. CASE l.len > Room(b) /\ Room(b) <= 0
  <2>1. Arrive(b, l) = b
    BY <1>1, <1>2, <1>5 DEF ArriveLine, Room
  <2> QED
    BY <1>2, <1>5, <2>1
<1> QED
  BY <1>2, <1>3, <1>4, <1>5

\* stream() goes past blank lines, and not further.
LEMMA SkippedIs ==
    ASSUME NEW n \in 0..Len(Drawing)
    PROVE  /\ Skipped(n) \in n..Len(Drawing) /\ Skipped(n) \in Nat
           /\ Skipped(n) = Len(Drawing) \/ Drawing[Skipped(n) + 1].len # 0
<1> DEFINE L == Len(Drawing)
           Stop(k, m) == /\ \A i \in k + 1..m : Drawing[i].len = 0
                         /\ m = L \/ Drawing[m + 1].len # 0
           T == {d \in Nat : \A k \in 0..L : L - k = d => \E m \in k..L : Stop(k, m)}
<1>0. L \in Nat
  BY DrawingAssumption
<1> HIDE DEF L
<1>1. 0 \in T
  <2>1. ASSUME NEW k \in 0..L, L - k = 0 PROVE k \in k..L /\ Stop(k, k)
    BY <1>0, <2>1
  <2> HIDE DEF Stop
  <2> QED
    BY <2>1
<1>2. ASSUME NEW d \in Nat, d \in T PROVE d + 1 \in T
  <2>1. ASSUME NEW k \in 0..L, L - k = d + 1 PROVE \E m \in k..L : Stop(k, m)
    <3>1. k + 1 \in 0..L /\ L - (k + 1) = d
      BY <1>0, <2>1
    <3>2. PICK m \in k + 1..L : Stop(k + 1, m)
      <4> HIDE DEF Stop
      <4> QED
        BY <1>2, <3>1
    <3>3. CASE Drawing[k + 1].len # 0
      <4>1. k \in k..L /\ Stop(k, k)
        BY <1>0, <3>3
      <4> HIDE DEF Stop
      <4> QED
        BY <4>1
    <3>4. CASE Drawing[k + 1].len = 0
      <4>1. ASSUME NEW i \in k + 1..m PROVE Drawing[i].len = 0
        <5>1. i = k + 1 \/ i \in (k + 1) + 1..m
          BY <3>1
        <5> QED
          BY <3>2, <3>4, <5>1
      <4>2. m \in k..L /\ Stop(k, m)
        BY <3>1, <3>2, <4>1
      <4> HIDE DEF Stop
      <4> QED
        BY <4>2
    <3> QED
      BY <3>3, <3>4
  <2> HIDE DEF Stop
  <2> QED
    BY <2>1
<1>3. L - n \in T
  <2>1. L - n \in Nat
    BY <1>0 DEF L
  <2> HIDE DEF T
  <2> QED
    BY <1>1, <1>2, <2>1, Induction
<1>4. \E m \in n..L : Stop(n, m)
  <2> HIDE DEF Stop
  <2> QED
    BY <1>3 DEF L
<1>5. Skipped(n) = CHOOSE m \in n..L : Stop(n, m)
  <2>1. ~(n < 0)
    BY <1>0 DEF L
  <2> QED
    BY <2>1, Zenon DEF Skipped, L
<1>6. Skipped(n) \in n..L /\ Stop(n, Skipped(n))
  <2> HIDE DEF Stop
  <2> QED
    BY <1>4, <1>5
<1> QED
  BY <1>0, <1>6 DEF L

LEMMA SkippedMinus == Skipped(-1) = -1
BY DEF Skipped

LEMMA LineOfDrawing ==
    ASSUME NEW n \in 0..Len(Drawing) - 1
    PROVE  Drawing[n + 1] \in LineSet /\ Drawing[n + 1].len \in Nat
<1>1. n + 1 \in 1..Len(Drawing) /\ Drawing \in Seq(LineSet)
  BY DrawingAssumption
<1>2. Drawing[n + 1] \in LineSet
  BY <1>1
<1> QED
  BY <1>2 DEF LineSet

Sound(b) == b \in BoardSet /\ Characters(b.ring) <= Capacity
Only(ring) == \A i \in 1..Len(ring) : ring[i].drawn
Whole(ring) == \A i \in 1..Len(ring) : ring[i].whole
Feasible(a) == a \in AppSet /\ Counted(a.window) <= Window

LEMMA AppFields ==
    ASSUME NEW a \in AppSet
    PROVE  /\ a.streaming \in BOOLEAN /\ a.line \in -1..Len(Drawing) /\ a.window \in Seq(Nat)
           /\ a.timeout \in 0..HomeAfter /\ a.idle \in BOOLEAN /\ a.spraying \in BOOLEAN
           /\ Counted(a.window) \in Nat /\ Len(Drawing) \in Nat /\ Len(Drawing) >= 1
<1>1. /\ a.streaming \in BOOLEAN /\ a.line \in -1..Len(Drawing) /\ a.window \in Seq(Nat)
      /\ a.timeout \in 0..HomeAfter /\ a.idle \in BOOLEAN /\ a.spraying \in BOOLEAN
  BY DEF AppSet
<1>2. Len(Drawing) \in Nat /\ Len(Drawing) >= 1
  BY DrawingAssumption
<1> QED
  BY <1>1, <1>2, CountedNat

Currents == [kind : {"line"}, drawn : BOOLEAN, len : Nat, pen : {"on", "off", "same", "none"},
             bad : BOOLEAN, whole : {TRUE}]
Made(ring, current, partial, door, locked, moving, pen) ==
    [ring |-> ring, current |-> current, partial |-> partial, door |-> door,
     locked |-> locked, moving |-> moving, pen |-> pen]

LEMMA BoardMade ==
    ASSUME NEW ring \in Seq(Lines), NEW current \in Currents, NEW partial \in BOOLEAN,
           NEW door \in DoorSet, NEW locked \in BOOLEAN, NEW moving \in BOOLEAN, NEW pen \in BOOLEAN
    PROVE  Made(ring, current, partial, door, locked, moving, pen) \in BoardSet
BY DEF Made, BoardSet, Lines, Currents

LEMMA BoardIsMade ==
    ASSUME NEW b \in BoardSet
    PROVE  /\ b = Made(b.ring, b.current, b.partial, b.door, b.locked, b.moving, b.pen)
           /\ b.ring \in Seq(Lines) /\ b.current \in Currents /\ b.partial \in BOOLEAN
           /\ b.door \in DoorSet /\ b.locked \in BOOLEAN /\ b.moving \in BOOLEAN
           /\ b.pen \in BOOLEAN
BY DEF Made, BoardSet, Lines, Currents

LEMMA NoLineIs == NoLine \in Currents /\ ~NoLine.drawn /\ Mark(NoLine) = 0
<1>1. NoLine \in Currents /\ ~NoLine.drawn
  BY SizesAssumption DEF NoLine, Command, Currents
<1> QED
  BY <1>1, MarkIs

LEMMA RingPut ==
    ASSUME NEW b \in BoardSet, NEW ring \in Seq(Lines), Characters(ring) <= Capacity
    PROVE  /\ Sound([b EXCEPT !.ring = ring])
           /\ [b EXCEPT !.ring = ring].ring = ring
           /\ [b EXCEPT !.ring = ring].current = b.current
<1>1. [b EXCEPT !.ring = ring].ring = ring /\ [b EXCEPT !.ring = ring].current = b.current
  BY DEF BoardSet
<1>2. [b EXCEPT !.ring = ring] \in BoardSet
  BY DEF BoardSet, Lines
<1> QED
  BY <1>1, <1>2 DEF Sound

LEMMA OnlyAppend ==
    ASSUME NEW ring \in Seq(Lines), NEW l \in Lines
    PROVE  /\ Append(ring, l) \in Seq(Lines) /\ Len(Append(ring, l)) = Len(ring) + 1
           /\ Only(Append(ring, l)) <=> Only(ring) /\ l.drawn
           /\ Whole(Append(ring, l)) <=> Whole(ring) /\ l.whole
<1> DEFINE s == Append(ring, l)
<1>1. s \in Seq(Lines) /\ Len(s) = Len(ring) + 1 /\ s[Len(ring) + 1] = l /\ Len(ring) \in Nat
      /\ \A i \in 1..Len(ring) : s[i] = ring[i]
  OBVIOUS
<1> HIDE DEF s
<1>2. 1..Len(s) = 1..Len(ring) \cup {Len(ring) + 1}
  BY <1>1
<1>3. Only(s) <=> Only(ring) /\ l.drawn
  BY <1>1, <1>2 DEF Only
<1>4. Whole(s) <=> Whole(ring) /\ l.whole
  BY <1>1, <1>2 DEF Whole
<1> QED
  BY <1>1, <1>3, <1>4 DEF s

\* A line that is not streamed arrives.
LEMMA CommandArrives ==
    ASSUME NEW b, Sound(b), NEW p \in Pens
    PROVE  LET c == Arrive(b, Command(p))
           IN /\ Sound(c) /\ c.current = b.current
              /\ \A k \in Nat, w \in Seq(Nat) : Covers(b.ring, k, w) => Covers(c.ring, k, w)
              /\ Only(c.ring) => c.ring = b.ring /\ Capacity <= Characters(b.ring)
<1> DEFINE l == Command(p)
           c == Arrive(b, l)
<1>1. l \in Lines /\ ~l.drawn
  BY CommandIs
<1> HIDE DEF l
<1>2. b \in BoardSet /\ Characters(b.ring) <= Capacity /\ b.ring \in Seq(Lines)
      /\ Characters(b.ring) \in Nat /\ Room(b) \in Int /\ l.len \in Nat
      /\ Capacity \in Nat /\ Room(b) = Capacity - Characters(b.ring)
  BY <1>1, BoardFields, LineFields DEF Sound
<1>3. PICK ring \in Seq(Lines) :
             /\ c = [b EXCEPT !.ring = ring]
             /\ Characters(ring) <= Capacity
             /\ \/ l.len <= Room(b) /\ ring = Append(b.ring, l)
                \/ l.len > Room(b) /\ Room(b) > 0
                   /\ \E d \in Lines : /\ d.drawn = l.drawn /\ d.len <= l.len
                                       /\ ring = Append(b.ring, d)
                \/ l.len > Room(b) /\ Room(b) <= 0 /\ ring = b.ring
  BY <1>1, <1>2, LineArrives
<1> HIDE DEF c
<1>4. \/ \E d \in Lines : d.drawn = FALSE /\ ring = Append(b.ring, d)
      \/ ring = b.ring /\ Room(b) <= 0
  BY <1>1, <1>3, LineFields
<1>5. Sound(c) /\ c.ring = ring /\ c.current = b.current
  BY <1>2, <1>3, RingPut
<1>6. \A k \in Nat, w \in Seq(Nat) : Covers(b.ring, k, w) => Covers(ring, k, w)
  BY <1>2, <1>4, CoversCommand
<1>7. Only(ring) => ring = b.ring /\ Capacity <= Characters(b.ring)
  <2>1. Room(b) <= 0 => Capacity <= Characters(b.ring)
    BY <1>2
  <2>2. \A d \in Lines : d.drawn = FALSE => ~Only(Append(b.ring, d))
    BY <1>2, OnlyAppend
  <2> QED
    BY <1>4, <2>1, <2>2
<1> QED
  BY <1>5, <1>6, <1>7 DEF c, l

\* A streamed line arrives.
LEMMA StreamedArrives ==
    ASSUME NEW b, Sound(b), NEW n \in LineSet
    PROVE  LET c == Arrive(b, Streamed(n))
           IN /\ Sound(c) /\ c.current = b.current
              /\ \A k \in Nat, w \in Seq(Nat) :
                   Covers(b.ring, k, w) => Covers(c.ring, k, Append(w, n.len))
              /\ Only(c.ring) => Only(b.ring)
              /\ Characters(b.ring) + n.len <= Capacity =>
                   /\ Len(c.ring) = Len(b.ring) + 1
                   /\ Whole(b.ring) => Whole(c.ring)
<1> DEFINE l == Streamed(n)
           c == Arrive(b, l)
<1>1. l \in Lines /\ l.drawn /\ l.whole /\ l.len = n.len /\ n.len \in Nat
  BY StreamedIs, LineFields
<1> HIDE DEF l
<1>2. b \in BoardSet /\ Characters(b.ring) <= Capacity /\ b.ring \in Seq(Lines)
      /\ Characters(b.ring) \in Nat /\ Room(b) \in Int /\ l.len \in Nat
      /\ Capacity \in Nat /\ Room(b) = Capacity - Characters(b.ring)
  BY <1>1, BoardFields, LineFields DEF Sound
<1>3. PICK ring \in Seq(Lines) :
             /\ c = [b EXCEPT !.ring = ring]
             /\ Characters(ring) <= Capacity
             /\ \/ l.len <= Room(b) /\ ring = Append(b.ring, l)
                \/ l.len > Room(b) /\ Room(b) > 0
                   /\ \E d \in Lines : /\ d.drawn = l.drawn /\ d.len <= l.len
                                       /\ ring = Append(b.ring, d)
                \/ l.len > Room(b) /\ Room(b) <= 0 /\ ring = b.ring
  BY <1>1, <1>2, LineArrives
<1> HIDE DEF c
<1>4. \/ \E d \in Lines : d.len <= n.len /\ ring = Append(b.ring, d)
      \/ ring = b.ring
  <2>1. l.len <= n.len
    BY <1>1
  <2> QED
    BY <1>1, <1>3, <2>1
<1>5. Sound(c) /\ c.ring = ring /\ c.current = b.current
  BY <1>2, <1>3, RingPut
<1>6. ASSUME NEW k \in Nat, NEW w \in Seq(Nat), Covers(b.ring, k, w)
      PROVE  Covers(ring, k, Append(w, n.len))
  BY <1>1, <1>2, <1>4, <1>6, CoversStreamed, CoversMore
<1>7. Only(ring) => Only(b.ring)
  BY <1>2, <1>4, OnlyAppend
<1>8. ASSUME Characters(b.ring) + n.len <= Capacity
      PROVE  Len(ring) = Len(b.ring) + 1 /\ (Whole(b.ring) => Whole(ring))
  <2>1. l.len <= Room(b)
    BY <1>1, <1>2, <1>8
  <2>2. ring = Append(b.ring, l)
    BY <1>2, <1>3, <2>1
  <2> QED
    BY <1>1, <1>2, <2>2, OnlyAppend
<1> QED
  BY <1>5, <1>6, <1>7, <1>8 DEF c, l

LEMMA SignalArrives ==
    ASSUME NEW b, Sound(b)
    PROVE  /\ \A s \in {"door", "resume"} :
                LET c == Arrive(b, Signal(s))
                IN Sound(c) /\ c.ring = b.ring /\ c.current = b.current
           /\ LET c == Arrive(b, Signal("reset"))
              IN Sound(c) /\ c.ring = <<>> /\ c.current = NoLine
<1>1. b \in BoardSet /\ Characters(b.ring) <= Capacity
  BY DEF Sound
<1>2. ASSUME NEW s \in {"door", "resume"}
      PROVE  LET c == Arrive(b, Signal(s))
             IN Sound(c) /\ c.ring = b.ring /\ c.current = b.current
  <2>1. \E d \in DoorSet : Arrive(b, Signal(s)) = [b EXCEPT !.door = d]
    <3>1. Arrive(b, Signal("door")) = [b EXCEPT !.door = DoorOpened(b)]
      BY DEF Arrive, Signal
    <3>2. Arrive(b, Signal("resume")) = [b EXCEPT !.door = Resumed(b)]
      BY DEF Arrive, Signal
    <3>3. b.door \in DoorSet /\ b.locked \in BOOLEAN
      BY <1>1, BoardFields
    <3>4. DoorOpened(b) \in DoorSet /\ Resumed(b) \in DoorSet
      BY <3>3 DEF DoorOpened, Resumed, DoorSet
    <3> QED
      BY <3>1, <3>2, <3>4, Zenon
  <2>2. PICK d \in DoorSet : Arrive(b, Signal(s)) = [b EXCEPT !.door = d]
    BY <2>1
  <2>3. [b EXCEPT !.door = d] \in BoardSet /\ [b EXCEPT !.door = d].ring = b.ring
        /\ [b EXCEPT !.door = d].current = b.current
    BY <1>1 DEF BoardSet
  <2> QED
    BY <1>1, <2>2, <2>3 DEF Sound
<1>3. LET c == Arrive(b, Signal("reset"))
      IN Sound(c) /\ c.ring = <<>> /\ c.current = NoLine
  <2> DEFINE c == Arrive(b, Signal("reset"))
  <2>1. c = ArriveReset(b)
    BY DEF Arrive, Signal
  <2>2. PICK l \in BOOLEAN : l = (b.locked \/ (b.moving /\ b.door \in {"shut", "stopping"}))
    BY Zenon
  <2>3. c = Made(<<>>, NoLine, FALSE, "shut", l, FALSE, FALSE)
    BY <1>1, <2>1, <2>2 DEF ArriveReset, BoardSet, Made
  <2>4. c \in BoardSet /\ c.ring = <<>> /\ c.current = NoLine
    <3>0. /\ <<>> \in Seq(Lines) /\ NoLine \in Currents /\ FALSE \in BOOLEAN
          /\ "shut" \in DoorSet
      BY NoLineIs DEF DoorSet
    <3>1. Made(<<>>, NoLine, FALSE, "shut", l, FALSE, FALSE) \in BoardSet
      BY <3>0, BoardMade, Zenon
    <3>2. c \in BoardSet
      BY <2>3, <3>1
    <3> QED
      BY <2>3, <3>2 DEF Made
  <2>5. Characters(c.ring) <= Capacity
    BY <2>4, DrawnEmpty, SizesAssumption
  <2> QED
    BY <2>4, <2>5 DEF Sound
<1> QED
  BY <1>2, <1>3

LEMMA DisownIs ==
    ASSUME NEW S, NEW q \in Seq(S), \A m \in S : [m EXCEPT !.drawn = FALSE] \in S
    PROVE  /\ Disown(q) \in Seq(S) /\ Len(Disown(q)) = Len(q)
           /\ \A i \in 1..Len(Disown(q)) : Disown(q)[i] = [q[i] EXCEPT !.drawn = FALSE]
<1> DEFINE s == Disown(q)
<1>1. \A i \in 1..Len(q) : [q[i] EXCEPT !.drawn = FALSE] \in S
  OBVIOUS
<1>2. s = [i \in 1..Len(q) |-> [q[i] EXCEPT !.drawn = FALSE]] /\ Len(q) \in Nat
  BY DEF Disown
<1> HIDE DEF s
<1>3. s \in [1..Len(q) -> S]
  BY <1>1, <1>2
<1>4. s \in Seq(S) /\ Len(s) = Len(q)
  BY <1>2, <1>3, IsASeq, LenProperties
<1> QED
  BY <1>2, <1>4 DEF s

\* c_line made new: nothing is the stream's any more.
LEMMA DisownsBoard ==
    ASSUME NEW b, Sound(b)
    PROVE  /\ Sound(Disowned(b)) /\ Mark(Disowned(b).current) = 0
           /\ \A i \in 1..Len(Disowned(b).ring) : ~Disowned(b).ring[i].drawn
<1> DEFINE s == Disown(b.ring)
           c == Disowned(b)
<1>1. b \in BoardSet /\ Characters(b.ring) <= Capacity /\ b.ring \in Seq(Lines)
  BY BoardFields DEF Sound
<1>0. ASSUME NEW m \in Lines
      PROVE  /\ [m EXCEPT !.drawn = FALSE] \in Lines
             /\ [m EXCEPT !.drawn = FALSE].drawn = FALSE
             /\ [m EXCEPT !.drawn = FALSE].len = m.len
  BY DEF Lines
<1>2. /\ s \in Seq(Lines) /\ Len(s) = Len(b.ring)
      /\ \A i \in 1..Len(s) : ~s[i].drawn /\ s[i].len = b.ring[i].len
  <2>1. /\ s \in Seq(Lines) /\ Len(s) = Len(b.ring)
        /\ \A i \in 1..Len(s) : s[i] = [b.ring[i] EXCEPT !.drawn = FALSE]
    BY <1>0, <1>1, DisownIs
  <2>2. \A i \in 1..Len(s) : b.ring[i] \in Lines
    BY <1>1, <2>1
  <2> HIDE DEF s
  <2> QED
    BY <1>0, <2>1, <2>2
<1>3. c = [b EXCEPT !.ring = s, !.current = [b.current EXCEPT !.drawn = FALSE]]
  BY <1>1 DEF Disowned, BoardSet
<1>4. Characters(s) = Characters(b.ring)
  <2>1. Lengths(s) = Lengths(b.ring)
    BY <1>1, <1>2 DEF Lengths
  <2> QED
    BY <2>1 DEF Characters, Lengths
<1> HIDE DEF s
<1>5. c \in BoardSet /\ c.ring = s /\ c.current.drawn = FALSE
  <2> DEFINE l == [b.current EXCEPT !.drawn = FALSE]
  <2>1. l \in Currents /\ l.drawn = FALSE
    <3>1. b.current \in Currents
      BY <1>1, BoardIsMade
    <3> QED
      BY <3>1 DEF Currents
  <2> HIDE DEF l
  <2>2. c = Made(s, l, b.partial, b.door, b.locked, b.moving, b.pen)
    BY <1>1, <1>3 DEF l, BoardSet, Made
  <2>3. c \in BoardSet
    BY <1>1, <1>2, <2>1, <2>2, BoardIsMade, BoardMade
  <2> QED
    BY <2>1, <2>2, <2>3 DEF Made
<1> QED
  BY <1>1, <1>2, <1>4, <1>5, MarkIs DEF Sound

LEMMA DisownsAnswers ==
    ASSUME NEW q \in Seq(AnswerSet)
    PROVE  Disown(q) \in Seq(AnswerSet) /\ Drawn(Disown(q)) = 0
<1>1. ASSUME NEW m \in AnswerSet
      PROVE  /\ [m EXCEPT !.drawn = FALSE] \in AnswerSet
             /\ [m EXCEPT !.drawn = FALSE].drawn = FALSE
  BY DEF AnswerSet
<1>0. q \in Seq(AnswerSet)
  OBVIOUS
<1>2. /\ Disown(q) \in Seq(AnswerSet) /\ Len(Disown(q)) = Len(q)
      /\ \A i \in 1..Len(Disown(q)) : Disown(q)[i] = [q[i] EXCEPT !.drawn = FALSE]
  BY <1>0, <1>1, DisownIs
<1>3. \A i \in 1..Len(q) : q[i] \in AnswerSet
  BY <1>0, ElementOfSeq
<1>4. ASSUME NEW i \in DOMAIN Disown(q) PROVE ~Disown(q)[i].drawn
  <2>1. i \in 1..Len(q) /\ i \in 1..Len(Disown(q))
    BY <1>2
  <2>2. q[i] \in AnswerSet /\ Disown(q)[i] = [q[i] EXCEPT !.drawn = FALSE]
    BY <1>2, <1>3, <2>1
  <2>3. Disown(q)[i].drawn = FALSE
    BY <1>1, <2>2
  <2> QED
    BY <2>3
<1> QED
  BY <1>2, <1>4, DrawnNone

-----------------------------------------------------------------------------
(* stream(), and one message heard.                                        *)

\* What stream() does: it sends nothing and counts nothing, or it sends a line that is
\* not blank, counts it, and stays within the window.
LEMMA StreamIs ==
    ASSUME NEW a, Feasible(a)
    PROVE  LET ran == Stream(a)
           IN /\ Feasible(ran.app)
              /\ \/ ran.sent = <<>> /\ ran.app.window = a.window
                    /\ (a.line >= 0 => ran.app.line <= Skipped(a.line))
                 \/ \E l \in LineSet :
                      /\ l.len \in Nat \ {0} /\ ran.sent = <<Streamed(l)>>
                      /\ ran.app.window = Append(a.window, l.len)
                      /\ Counted(a.window) + l.len <= Window
                      /\ Counted(ran.app.window) = Counted(a.window) + l.len
<1> DEFINE n == Skipped(a.line)
           next == Drawing[n + 1]
           ran == Stream(a)
<1>1. /\ a \in AppSet /\ Counted(a.window) <= Window /\ a.streaming \in BOOLEAN
      /\ a.line \in -1..Len(Drawing) /\ a.window \in Seq(Nat)
      /\ Counted(a.window) \in Nat /\ Len(Drawing) \in Nat
  BY AppFields DEF Feasible
<1>2. /\ a.line >= 0 => n \in a.line..Len(Drawing)
      /\ a.line >= 0 /\ n # Len(Drawing) => next.len # 0
      /\ a.line < 0 => n = -1 /\ a.line = -1
      /\ n \in -1..Len(Drawing)
  <2>1. CASE a.line \in 0..Len(Drawing)
    BY <1>1, <2>1, SkippedIs
  <2>2. CASE a.line = -1
    BY <1>1, <2>2, SkippedMinus
  <2> QED
    BY <1>1, <2>1, <2>2
<1>3. \A k \in -1..Len(Drawing) : [a EXCEPT !.line = k] \in AppSet
                                 /\ [a EXCEPT !.line = k].window = a.window
                                 /\ [a EXCEPT !.line = k].line = k
  BY <1>1 DEF AppSet
<1>4. -1 \in -1..Len(Drawing) /\ 0 \in -1..Len(Drawing)
  BY <1>1
<1> HIDE DEF n, next, ran
<1>5. CASE ~a.streaming
  <2>1. ran.app = a /\ ran.sent = <<>>
    BY <1>5 DEF Stream, ran
  <2> QED
    BY <1>1, <1>2, <2>1 DEF ran, n, Feasible
<1>6. CASE a.streaming /\ n >= Len(Drawing)
  <2>0. ~(n < 0)
    BY <1>1, <1>2, <1>6
  <2>1. ran.app = [a EXCEPT !.line = -1] /\ ran.sent = <<>>
    BY <1>6, <2>0 DEF Stream, ran, n
  <2>2. ran.app \in AppSet /\ ran.app.window = a.window /\ ran.app.line = -1
    BY <1>3, <1>4, <2>1
  <2>3. a.line >= 0 => ran.app.line <= n
    BY <1>1, <1>2, <2>2
  <2> QED
    BY <1>1, <2>1, <2>2, <2>3 DEF ran, n, Feasible
<1>7. CASE a.streaming /\ n < 0
  <2>0. ~(n >= Len(Drawing)) /\ a.line < 0
    BY <1>1, <1>2, <1>7
  <2>1. CASE a.window # <<>>
    <3>1. ran.app = a /\ ran.sent = <<>>
      BY <1>7, <2>0, <2>1 DEF Stream, ran, n
    <3> QED
      BY <1>1, <2>0, <3>1 DEF ran, n, Feasible
  <2>2. CASE a.window = <<>>
    <3>1. ran.app = [Fresh(a) EXCEPT !.streaming = FALSE] /\ ran.sent = <<>>
      BY <1>7, <2>0, <2>2 DEF Stream, ran, n
    <3>3. ran.app = [a EXCEPT !.line = 0, !.window = <<>>, !.streaming = FALSE]
      BY <1>1, <3>1 DEF Fresh, AppSet
    <3>4. <<>> \in Seq(Nat)
      OBVIOUS
    <3>2. ran.app \in AppSet /\ ran.app.window = <<>>
      BY <1>1, <1>4, <3>3, <3>4 DEF AppSet
    <3> QED
      BY <1>1, <2>0, <2>2, <3>1, <3>2 DEF ran, n, Feasible
  <2> QED
    BY <2>1, <2>2
<1>8. CASE a.streaming /\ n >= 0 /\ n < Len(Drawing)
  <2>0. ~(n >= Len(Drawing)) /\ ~(n < 0) /\ n \in 0..Len(Drawing) - 1 /\ a.line >= 0 /\ next.len # 0
    BY <1>1, <1>2, <1>8
  <2>1. next \in LineSet /\ next.len \in Nat
    BY <2>0, LineOfDrawing DEF next
  <2>2. CASE ~(Counted(a.window) + next.len <= Window)
    <3>1. ran.app = [a EXCEPT !.line = n] /\ ran.sent = <<>>
      BY <1>8, <2>0, <2>2 DEF Stream, ran, n, next
    <3> QED
      BY <1>1, <1>2, <1>3, <3>1 DEF ran, n, Feasible
  <2>3. CASE Counted(a.window) + next.len <= Window
    <3>1. /\ ran.app = [a EXCEPT !.window = Append(@, next.len), !.line = n + 1]
          /\ ran.sent = <<Streamed(next)>>
      BY <1>8, <2>0, <2>3 DEF Stream, ran, n, next
    <3>2. Append(a.window, next.len) \in Seq(Nat) /\ n + 1 \in -1..Len(Drawing)
      BY <1>1, <2>0, <2>1
    <3>3. ran.app \in AppSet /\ ran.app.window = Append(a.window, next.len)
      BY <1>1, <3>1, <3>2 DEF AppSet
    <3>4. Counted(ran.app.window) = Counted(a.window) + next.len
      BY <1>1, <2>1, <3>3, CountedAppend
    <3>5. Feasible(ran.app)
      BY <2>3, <3>3, <3>4 DEF Feasible
    <3> QED
      BY <2>0, <2>1, <2>3, <3>1, <3>3, <3>4, <3>5 DEF ran
  <2> QED
    BY <2>2, <2>3
<1>9. n >= Len(Drawing) \/ n < 0 \/ (n >= 0 /\ n < Len(Drawing))
  BY <1>1, <1>2
<1> QED
  BY <1>5, <1>6, <1>7, <1>8, <1>9

\* What the firmware has of it.
Ran(b, a) == IF Stream(a).sent = <<>> THEN b ELSE Arrive(b, Stream(a).sent[1])
StreamsFrom(a, n) == a.line >= 0 /\ n > Skipped(a.line)

LEMMA RanArrives ==
    ASSUME NEW a, Feasible(a)
    PROVE  /\ Stream(a).sent \in Seq(Lines)
           /\ \A b : Arrivals(b, Stream(a).sent) = Ran(b, a)
           /\ \A S, b : \A m \in S : Lines \subseteq S =>
                Arrivals(b, <<m>> \o Stream(a).sent) = Ran(Arrive(b, m), a)
<1> DEFINE line == Stream(a).sent
<1>1. line = <<>> \/ \E l \in LineSet : line = <<Streamed(l)>>
  BY StreamIs
<1>2. line = <<>> \/ \E l \in Lines : line = <<l>> /\ line # <<>> /\ line[1] = l
  BY <1>1, StreamedIs
<1>3. \A b : Ran(b, a) = IF line = <<>> THEN b ELSE Arrive(b, line[1])
  BY DEF Ran
<1> HIDE DEF line
<1>4. line \in Seq(Lines)
  <2>1. <<>> \in Seq(Lines) /\ \A l \in Lines : <<l>> \in Seq(Lines)
    OBVIOUS
  <2> QED
    BY <1>2, <2>1
<1>5. ASSUME NEW b PROVE Arrivals(b, line) = Ran(b, a)
  <2>1. CASE line = <<>>
    BY <1>3, <2>1, ArrivalsNone
  <2>2. ASSUME NEW l \in Lines, line = <<l>>, line # <<>>, line[1] = l
        PROVE  Arrivals(b, line) = Ran(b, a)
    <3>1. Arrivals(b, <<l>>) = Arrive(b, l)
      BY ArrivalsOne
    <3> QED
      BY <1>3, <2>2, <3>1
  <2> QED
    BY <1>2, <2>1, <2>2
<1>6. ASSUME NEW S, NEW b, NEW m \in S, Lines \subseteq S
      PROVE  Arrivals(b, <<m>> \o line) = Ran(Arrive(b, m), a)
  <2>0. <<m>> \in Seq(S) /\ m \in S /\ <<m>> \o <<>> = <<m>>
    OBVIOUS
  <2>3. Arrivals(b, <<m>>) = Arrive(b, m)
    BY ArrivalsOne
  <2>1. CASE line = <<>>
    BY <1>3, <2>0, <2>1, <2>3
  <2>2. ASSUME NEW l \in Lines, line = <<l>>, line # <<>>, line[1] = l
        PROVE  Arrivals(b, <<m>> \o line) = Ran(Arrive(b, m), a)
    <3>1. Arrivals(b, <<m>> \o <<l>>) = Arrive(Arrivals(b, <<m>>), l)
      <4>1. l \in S
        BY <1>6
      <4> QED
        BY <2>0, <4>1, ArrivalsThen
    <3> QED
      BY <1>3, <2>2, <2>3, <3>1
  <2> QED
    BY <1>2, <2>1, <2>2
<1> QED
  BY <1>4, <1>5, <1>6 DEF line

\* One run of stream(), the application and the firmware together.
LEMMA RanKeeps ==
    ASSUME NEW a, Feasible(a), NEW b, Sound(b)
    PROVE  LET c == Ran(b, a)
               x == Stream(a).app
           IN /\ Feasible(x) /\ Sound(c) /\ c.current = b.current
              /\ \A k \in Nat : Covers(b.ring, k, a.window) => Covers(c.ring, k, x.window)
              /\ Only(c.ring) => Only(b.ring)
              /\ Characters(b.ring) <= Counted(a.window) /\ Whole(b.ring) => Whole(c.ring)
              /\ Characters(b.ring) <= Counted(a.window) /\ StreamsFrom(a, x.line) =>
                   /\ Len(c.ring) = Len(b.ring) + 1
                   /\ Characters(b.ring) < Capacity
<1> DEFINE c == Ran(b, a)
           x == Stream(a).app
<1>0. /\ a.window \in Seq(Nat) /\ Counted(a.window) \in Nat /\ a.line \in Int
      /\ Characters(b.ring) \in Nat /\ Capacity \in Nat /\ Window \in Nat /\ Window <= Capacity
  BY AppFields, BoardFields, SizesAssumption DEF Feasible, Sound
<1>1. Feasible(x) /\ x.line \in Int
  <2>1. Feasible(x)
    BY StreamIs
  <2> QED
    BY <2>1, AppFields DEF Feasible
<1>2. CASE Stream(a).sent = <<>> /\ x.window = a.window /\ (a.line >= 0 => x.line <= Skipped(a.line))
  <2>1. c = b
    BY <1>2 DEF Ran
  <2>2. ~StreamsFrom(a, x.line)
    <3>1. a.line >= 0 => Skipped(a.line) \in Int
      BY <1>0, SkippedIs, AppFields DEF Feasible
    <3> QED
      BY <1>0, <1>1, <1>2, <3>1 DEF StreamsFrom
  <2> QED
    BY <1>1, <1>2, <2>1, <2>2
<1>3. ASSUME NEW l \in LineSet, l.len \in Nat \ {0}, Stream(a).sent = <<Streamed(l)>>,
             x.window = Append(a.window, l.len), Counted(a.window) + l.len <= Window
      PROVE  /\ Sound(c) /\ c.current = b.current
             /\ \A k \in Nat : Covers(b.ring, k, a.window) => Covers(c.ring, k, x.window)
             /\ Only(c.ring) => Only(b.ring)
             /\ Characters(b.ring) <= Counted(a.window) =>
                  /\ Len(c.ring) = Len(b.ring) + 1 /\ Characters(b.ring) < Capacity
                  /\ Whole(b.ring) => Whole(c.ring)
  <2>1. c = Arrive(b, Streamed(l))
    BY <1>3 DEF Ran
  <2> HIDE DEF c, x
  <2>2. /\ Sound(c) /\ c.current = b.current
        /\ \A k \in Nat, w \in Seq(Nat) :
             Covers(b.ring, k, w) => Covers(c.ring, k, Append(w, l.len))
        /\ Only(c.ring) => Only(b.ring)
        /\ Characters(b.ring) + l.len <= Capacity =>
             /\ Len(c.ring) = Len(b.ring) + 1
             /\ Whole(b.ring) => Whole(c.ring)
    BY <2>1, StreamedArrives
  <2>3. Characters(b.ring) <= Counted(a.window) =>
          Characters(b.ring) + l.len <= Capacity /\ Characters(b.ring) < Capacity
    BY <1>0, <1>3
  <2> QED
    BY <1>0, <1>3, <2>2, <2>3
<1> HIDE DEF c, x
<1> QED
  BY <1>1, <1>2, <1>3, StreamIs DEF c, x

-----------------------------------------------------------------------------
(* The invariant, and what a step does to it.                              *)

LinkInv ==
    /\ StreamTypeOK
    /\ ~stray => Covers(board.ring, Mark(board.current) + Drawn(answers), app.window)

\* What StreamFits says of a step.
FitsNow ==
    ~stray /\ OnlyDrawn /\ AllWhole /\ ~stray' /\ OnlyDrawn' =>
      /\ AllWhole'
      /\ StreamsOne => Len(board'.ring) = Len(board.ring) + 1

LEMMA InvFields ==
    ASSUME LinkInv
    PROVE  /\ Feasible(app) /\ Sound(board) /\ answers \in Seq(AnswerSet)
           /\ Mark(board.current) \in Nat /\ Drawn(answers) \in Nat
           /\ Mark(board.current) + Drawn(answers) \in Nat
           /\ paused \in BOOLEAN /\ r \in 0..ReportFreq + 1 /\ stray \in BOOLEAN
           /\ presses \in 0..MaxPresses
           /\ OnlyDrawn <=> Only(board.ring)
           /\ AllWhole <=> Whole(board.ring)
<1>1. /\ Feasible(app) /\ Sound(board) /\ answers \in Seq(AnswerSet)
      /\ paused \in BOOLEAN /\ r \in 0..ReportFreq + 1 /\ stray \in BOOLEAN
      /\ presses \in 0..MaxPresses
  BY DEF LinkInv, StreamTypeOK, Feasible, Sound
<1>2. Mark(board.current) \in Nat /\ Drawn(answers) \in Nat
      /\ Mark(board.current) + Drawn(answers) \in Nat
  <2>1. Mark(board.current) \in {0, 1} /\ Drawn(answers) \in Nat
    BY <1>1, MarkIs, DrawnNat
  <2> QED
    BY <2>1
<1>3. DOMAIN board.ring = 1..Len(board.ring)
  <2>1. board.ring \in Seq(Lines)
    BY <1>1, BoardFields DEF Sound
  <2> QED
    BY <2>1
<1> QED
  BY <1>1, <1>2, <1>3 DEF OnlyDrawn, AllWhole, Only, Whole

\* The new state, put together.
LEMMA InvMade ==
    ASSUME Feasible(app'), Sound(board'), answers' \in Seq(AnswerSet),
           paused' \in BOOLEAN, r' \in 0..ReportFreq + 1, stray' \in BOOLEAN,
           presses' \in 0..MaxPresses,
           ~stray' => Covers(board'.ring, Mark(board'.current) + Drawn(answers'), app'.window)
    PROVE  /\ LinkInv'
           /\ OnlyDrawn' <=> Only(board'.ring)
           /\ AllWhole' <=> Whole(board'.ring)
<1>1. DOMAIN board'.ring = 1..Len(board'.ring)
  <2>1. board'.ring \in Seq(Lines)
    BY BoardFields DEF Sound
  <2> QED
    BY <2>1
<1>2. LinkInv'
  BY DEF LinkInv, StreamTypeOK, Feasible, Sound
<1> QED
  BY <1>1, <1>2 DEF OnlyDrawn, AllWhole, Only, Whole

\* A ring with nothing of the stream in it says nothing of StreamFits.
LEMMA OnlyNone ==
    ASSUME NEW ring \in Seq(Lines), \A i \in 1..Len(ring) : ~ring[i].drawn, Only(ring)
    PROVE  Whole(ring)
BY DEF Only, Whole

LEMMA HeardKeeps ==
    ASSUME LinkInv, answers # <<>>
    PROVE  LET m == Head(answers)
               h == Heard(app, m)
               rest == Tail(answers)
           IN /\ Feasible(h) /\ h.line = app.line
              /\ rest \in Seq(AnswerSet)
              /\ ~stray /\ ~(m.kind = "ok" /\ ~m.drawn /\ app.window # <<>>) =>
                   Covers(board.ring, Mark(board.current) + Drawn(rest), h.window)
<1> DEFINE m == Head(answers)
           h == Heard(app, m)
           rest == Tail(answers)
           a == Mark(board.current)
<1>1. /\ m \in AnswerSet /\ rest \in Seq(AnswerSet) /\ Drawn(answers) = Mark(m) + Drawn(rest)
      /\ Drawn(rest) \in Nat
  <2>1. answers \in Seq(AnswerSet)
    BY InvFields
  <2>2. Head(answers) \in AnswerSet /\ Tail(answers) \in Seq(AnswerSet)
    BY <2>1, HeadTailProperties
  <2> QED
    BY <2>1, <2>2, DrawnTail, DrawnNat
<1>2. /\ app \in AppSet /\ Counted(app.window) <= Window /\ app.window \in Seq(Nat)
      /\ Counted(app.window) \in Nat /\ Window \in Nat
      /\ board.ring \in Seq(Lines) /\ a \in Nat
  BY InvFields, AppFields, BoardFields, SizesAssumption DEF Feasible, Sound
<1>3. Mark(m) \in {0, 1} /\ (m.drawn => Mark(m) = 1) /\ (~m.drawn => Mark(m) = 0)
  BY MarkIs
<1>4. ~stray => Covers(board.ring, a + (Mark(m) + Drawn(rest)), app.window)
  BY <1>1 DEF LinkInv
<1> HIDE DEF m, h, rest, a
<1>5. a + (Mark(m) + Drawn(rest)) \in Nat /\ a + Drawn(rest) \in Nat
      /\ a + Drawn(rest) <= a + (Mark(m) + Drawn(rest))
      /\ (m.drawn => a + (Mark(m) + Drawn(rest)) = (a + Drawn(rest)) + 1)
  BY <1>1, <1>2, <1>3
<1>6. ~stray => Covers(board.ring, a + Drawn(rest), app.window)
  BY <1>2, <1>4, <1>5, CoversLess
<1>7. CASE m.kind = "ok"
  <2> DEFINE w == IF app.window = <<>> THEN app.window ELSE Tail(app.window)
  <2>1. h = [app EXCEPT !.window = w, !.timeout = 0]
    BY <1>7 DEF Heard, h
  <2>2. w \in Seq(Nat) /\ Counted(w) <= Window
    <3>1. CASE app.window = <<>>
      BY <1>2, <3>1
    <3>2. CASE app.window # <<>>
      <4>1. /\ Tail(app.window) \in Seq(Nat) /\ app.window[1] \in Nat
            /\ Counted(app.window) = app.window[1] + Counted(Tail(app.window))
        BY <1>2, <3>2, CountedTail
      <4>2. Counted(Tail(app.window)) \in Nat
        BY <4>1, CountedNat
      <4>3. w = Tail(app.window)
        BY <3>2
      <4> HIDE DEF w
      <4> QED
        BY <1>2, <4>1, <4>2, <4>3
    <3> QED
      BY <3>1, <3>2
  <2>3. ~stray /\ m.drawn => Covers(board.ring, a + Drawn(rest), w)
    <3>1. ~stray /\ m.drawn => Covers(board.ring, (a + Drawn(rest)) + 1, app.window)
      BY <1>4, <1>5
    <3>2. ~stray /\ m.drawn =>
            app.window # <<>> /\ Covers(board.ring, a + Drawn(rest), Tail(app.window))
      BY <1>2, <1>5, <3>1, CoversRead
    <3> QED
      BY <3>2
  <2>4. ~stray /\ app.window = <<>> => Covers(board.ring, a + Drawn(rest), w)
    BY <1>6
  <2> HIDE DEF w
  <2>5. 0 \in 0..HomeAfter
    BY SizesAssumption
  <2>6. h \in AppSet /\ h.window = w /\ h.line = app.line
    BY <1>2, <2>1, <2>2, <2>5 DEF AppSet
  <2> QED
    BY <1>1, <1>7, <2>2, <2>3, <2>4, <2>6 DEF Feasible, m, h, rest, a
<1>8. CASE m.kind = "status"
  <2>1. m.idle \in BOOLEAN /\ m.spraying \in BOOLEAN
    BY <1>1, <1>8 DEF AnswerSet
  <2>2. h = [app EXCEPT !.idle = m.idle, !.spraying = m.spraying]
    BY <1>8 DEF Heard, h
  <2>3. h \in AppSet /\ h.window = app.window /\ h.line = app.line
    BY <1>2, <2>1, <2>2 DEF AppSet
  <2> QED
    BY <1>1, <1>2, <1>6, <2>3 DEF Feasible, m, h, rest, a
<1>9. CASE m.kind # "ok" /\ m.kind # "status"
  <2>1. h = app
    BY <1>9 DEF Heard, h
  <2> QED
    BY <1>1, <1>2, <1>6, <2>1 DEF Feasible, m, h, rest, a
<1> QED
  BY <1>7, <1>8, <1>9

\* From the board c, lines that are not streamed made it the board d.
Later(c, d) ==
    /\ Sound(d) /\ d.current = c.current
    /\ \A k \in Nat, w \in Seq(Nat) : Covers(c.ring, k, w) => Covers(d.ring, k, w)
    /\ Only(d.ring) => d.ring = c.ring

LEMMA LaterSame == ASSUME NEW c, Sound(c) PROVE Later(c, c)
BY DEF Later

LEMMA LaterCommand ==
    ASSUME NEW b, NEW c, Later(b, c), NEW p \in Pens PROVE Later(b, Arrive(c, Command(p)))
<1> DEFINE d == Arrive(c, Command(p))
<1>1. /\ Sound(d) /\ d.current = c.current
      /\ \A k \in Nat, w \in Seq(Nat) : Covers(c.ring, k, w) => Covers(d.ring, k, w)
      /\ Only(d.ring) => d.ring = c.ring
  BY CommandArrives DEF Later
<1> HIDE DEF d
<1>2. Only(d.ring) => d.ring = b.ring
  <2> SUFFICES ASSUME Only(d.ring) PROVE d.ring = b.ring
    OBVIOUS
  <2>1. d.ring = c.ring
    BY <1>1
  <2>2. Only(c.ring)
    BY <2>1
  <2> QED
    BY <2>1, <2>2 DEF Later
<1> QED
  BY <1>1, <1>2 DEF Later, d

\* Giving the stream up, and counting on.
LEMMA FrameEnds ==
    ASSUME NEW x, Feasible(x), NEW y,
           \/ y = [x EXCEPT !.streaming = FALSE, !.line = 0, !.timeout = 0]
           \/ y = [x EXCEPT !.timeout = x.timeout + 1] /\ x.timeout + 1 <= HomeAfter
           \/ y = x
    PROVE  Feasible(y) /\ y.window = x.window /\ (y.line = x.line \/ y.line = 0)
<1>1. x \in AppSet /\ x.timeout \in 0..HomeAfter /\ HomeAfter \in Nat /\ Len(Drawing) \in Nat
      /\ Counted(x.window) <= Window
  BY AppFields, SizesAssumption DEF Feasible
<1>2. CASE y = [x EXCEPT !.streaming = FALSE, !.line = 0, !.timeout = 0]
  <2>1. 0 \in -1..Len(Drawing) /\ 0 \in 0..HomeAfter
    BY <1>1
  <2>2. y \in AppSet /\ y.window = x.window /\ y.line = 0
    BY <1>1, <1>2, <2>1 DEF AppSet
  <2> QED
    BY <1>1, <2>2 DEF Feasible
<1>3. CASE y = [x EXCEPT !.timeout = x.timeout + 1] /\ x.timeout + 1 <= HomeAfter
  <2>1. x.timeout + 1 \in 0..HomeAfter
    BY <1>1, <1>3
  <2>2. y \in AppSet /\ y.window = x.window /\ y.line = x.line
    BY <1>1, <1>3, <2>1 DEF AppSet
  <2> QED
    BY <1>1, <2>2 DEF Feasible
<1> QED
  BY <1>2, <1>3

LEMMA StatusIs ==
    ASSUME NEW b \in BoardSet
    PROVE  Status(b) \in AnswerSet /\ Mark(Status(b)) = 0
<1>1. b.pen \in BOOLEAN /\ (b.door = "shut" /\ ~b.locked /\ ~b.moving) \in BOOLEAN
  BY BoardFields
<1>2. Status(b) \in AnswerSet
  <2>1. PICK i \in BOOLEAN : i = (b.door = "shut" /\ ~b.locked /\ ~b.moving)
    BY <1>1, Zenon
  <2>2. Status(b) = [kind |-> "status", drawn |-> FALSE, spraying |-> b.pen, idle |-> i]
    BY <2>1 DEF Status
  <2> QED
    BY <1>1, <2>2 DEF AnswerSet
<1>3. ~Status(b).drawn
  BY DEF Status
<1> QED
  BY <1>2, <1>3, MarkIs

\* Whatever order the answers are joined in: a status is not the stream's.
LEMMA JoinedAnswers ==
    ASSUME NEW q \in Seq(AnswerSet), NEW m \in AnswerSet
    PROVE  /\ q \o <<m>> \in Seq(AnswerSet) /\ q \o <<>> = q
           /\ Drawn(q \o <<m>>) = Drawn(q) + Mark(m)
<1>0. q \in Seq(AnswerSet)
  OBVIOUS
<1>1. q \o <<m>> = Append(q, m) /\ q \o <<>> = q /\ Append(q, m) \in Seq(AnswerSet)
  BY <1>0
<1>2. Drawn(Append(q, m)) = Drawn(q) + Mark(m)
  BY <1>0, DrawnAppend
<1> QED
  BY <1>1, <1>2

LEMMA FrameStep == LinkInv /\ Frame => LinkInv' /\ FitsNow
<1> SUFFICES ASSUME LinkInv, Frame PROVE LinkInv' /\ FitsNow
  OBVIOUS
<1> DEFINE asks == r > ReportFreq
           reads == answers # <<>>
           message == Head(answers)
           heard == IF reads THEN Heard(app, message) ELSE app
           streams == ~reads \/ message.kind = "ok"
           ran == IF streams THEN Stream(heard) ELSE [app |-> heard, sent |-> <<>>]
           finished == streams /\ Finishes(heard)
           lifts == ran.app.idle /\ ran.app.spraying /\ ran.app.timeout > SprayAfter
           waits == ran.app.idle /\ ran.app.streaming
           homes == waits /\ ran.app.timeout + 1 > HomeAfter
           lifting == IF lifts THEN <<Command("off")>> ELSE <<>>
           homing == IF homes THEN <<Command("same")>> ELSE <<>>
           rest == IF reads THEN Tail(answers) ELSE answers
           asked == IF asks THEN <<Status(board)>> ELSE <<>>
           c == Arrivals(board, ran.sent \o lifting \o homing)
           misread == reads /\ message.kind = "ok" /\ ~message.drawn /\ app.window # <<>>
           k == Mark(board.current)
<1>1. /\ r' = IF asks THEN 1 ELSE r + 1
      /\ app' = CASE homes -> [ran.app EXCEPT !.streaming = FALSE, !.line = 0, !.timeout = 0]
                  [] waits /\ ~homes -> [ran.app EXCEPT !.timeout = @ + 1]
                  [] OTHER -> ran.app
      /\ board' = IF finished THEN Disowned(c) ELSE c
      /\ answers' = IF finished THEN Disown(rest \o asked) ELSE rest \o asked
      /\ stray' = (~finished /\ (stray \/ misread))
      /\ paused' = paused /\ presses' = presses
  BY DEF Frame, Sends
<1>2. /\ Feasible(app) /\ Sound(board) /\ answers \in Seq(AnswerSet) /\ k \in Nat
      /\ r \in 0..ReportFreq + 1 /\ stray \in BOOLEAN /\ paused \in BOOLEAN
      /\ presses \in 0..MaxPresses /\ ReportFreq \in Nat \ {0} /\ HomeAfter \in Nat
      /\ OnlyDrawn <=> Only(board.ring)
      /\ AllWhole <=> Whole(board.ring)
  BY InvFields, SizesAssumption
<1>3. /\ Feasible(heard) /\ heard.line = app.line /\ rest \in Seq(AnswerSet)
      /\ ~stray /\ ~misread => Covers(board.ring, k + Drawn(rest), heard.window)
  <2>1. CASE reads
    BY <2>1, HeardKeeps
  <2>2. CASE ~reads
    BY <1>2, <2>2 DEF LinkInv
  <2> QED
    BY <2>1, <2>2
<1> DEFINE d == IF streams THEN Ran(board, heard) ELSE board
<1> HIDE DEF heard, rest
<1>4. /\ ran.sent \in Seq(Lines) /\ Arrivals(board, ran.sent) = d
  <2>1. CASE streams
    BY <1>3, <2>1, RanArrives
  <2>2. CASE ~streams
    <3>0. ran = [app |-> heard, sent |-> <<>>]
      BY <2>2
    <3>2. d = board /\ <<>> \in Seq(Lines)
      BY <2>2
    <3> HIDE DEF ran, d
    <3>1. ran.sent = <<>> /\ d = board /\ <<>> \in Seq(Lines)
      BY <3>0, <3>2
    <3> QED
      BY <3>1, ArrivalsNone
  <2> QED
    BY <2>1, <2>2
<1>5. /\ Feasible(ran.app) /\ Sound(d) /\ d.current = board.current
      /\ \A n \in Nat : Covers(board.ring, n, heard.window) => Covers(d.ring, n, ran.app.window)
      /\ Only(d.ring) => Only(board.ring)
      /\ Characters(board.ring) <= Counted(heard.window) /\ Whole(board.ring) => Whole(d.ring)
      /\ Characters(board.ring) <= Counted(heard.window) /\ StreamsFrom(heard, ran.app.line) =>
           Len(d.ring) = Len(board.ring) + 1
      /\ ~streams => ran.app.line = app.line
  <2>1. CASE streams
    BY <1>2, <1>3, <2>1, RanKeeps
  <2>2. CASE ~streams
    <3>1. ran.app = heard /\ d = board
      BY <2>2
    <3>2. ~StreamsFrom(heard, heard.line)
      <4>1. heard.line \in -1..Len(Drawing) /\ Len(Drawing) \in Nat
        BY <1>3, AppFields DEF Feasible
      <4>2. heard.line >= 0 => Skipped(heard.line) \in heard.line..Len(Drawing)
        BY <4>1, SkippedIs
      <4> QED
        BY <4>1, <4>2 DEF StreamsFrom
    <3> QED
      BY <1>2, <1>3, <3>1, <3>2
  <2> QED
    BY <2>1, <2>2
<1> HIDE DEF ran, d, k
<1>6. Later(d, c)
  <2>1. Command("off") \in Lines /\ Command("same") \in Lines /\ "off" \in Pens /\ "same" \in Pens
    BY CommandIs DEF Pens
  <2> DEFINE e == Arrivals(board, ran.sent \o lifting)
  <2>2. Later(d, e) /\ ran.sent \o lifting \in Seq(Lines)
    <3>1. CASE lifts
      <4>1. e = Arrive(d, Command("off")) /\ ran.sent \o lifting \in Seq(Lines)
        BY <1>4, <2>1, <3>1, ArrivalsThen
      <4> QED
        BY <1>5, <2>1, <4>1, LaterSame, LaterCommand
    <3>2. CASE ~lifts
      <4>1. e = d /\ ran.sent \o lifting \in Seq(Lines)
        BY <1>4, <2>1, <3>2, ArrivalsThen
      <4> QED
        BY <1>5, <4>1, LaterSame
    <3> QED
      BY <3>1, <3>2
  <2> HIDE DEF lifting
  <2>3. CASE homes
    <3>1. c = Arrive(e, Command("same"))
      BY <2>1, <2>2, <2>3, ArrivalsThen
    <3> HIDE DEF c, e
    <3> QED
      BY <2>1, <2>2, <3>1, LaterCommand
  <2>4. CASE ~homes
    <3>1. c = e
      BY <2>1, <2>2, <2>4, ArrivalsThen
    <3> HIDE DEF c, e
    <3> QED
      BY <2>2, <3>1
  <2> QED
    BY <2>3, <2>4
<1> HIDE DEF c, lifting, homing
<1>7. Feasible(app') /\ app'.window = ran.app.window /\ (app'.line = ran.app.line \/ app'.line = 0)
  <2>1. CASE homes
    <3>1. app' = [ran.app EXCEPT !.streaming = FALSE, !.line = 0, !.timeout = 0]
      BY <1>1, <2>1
    <3> QED
      BY <1>5, <3>1, FrameEnds
  <2>2. CASE waits /\ ~homes
    <3>1. app' = [ran.app EXCEPT !.timeout = ran.app.timeout + 1]
      BY <1>1, <2>2
    <3>2. ran.app.timeout \in 0..HomeAfter
      BY <1>5, AppFields DEF Feasible
    <3>3. ran.app.timeout + 1 <= HomeAfter
      BY <1>2, <2>2, <3>2
    <3> QED
      BY <1>5, <3>1, <3>3, FrameEnds
  <2>3. CASE ~waits
    <3>1. app' = ran.app
      BY <1>1, <2>3
    <3> QED
      BY <1>5, <3>1, FrameEnds
  <2> QED
    BY <2>1, <2>2, <2>3
<1> HIDE DEF homes, waits, lifts
<1>8. /\ rest \o asked \in Seq(AnswerSet) /\ Drawn(rest \o asked) = Drawn(rest)
      /\ Drawn(rest) \in Nat
  <2>1. Status(board) \in AnswerSet /\ Mark(Status(board)) = 0
    BY <1>2, StatusIs DEF Sound
  <2>2. Drawn(rest) \in Nat
    BY <1>3, DrawnNat
  <2>3. /\ rest \o <<Status(board)>> \in Seq(AnswerSet) /\ rest \o <<>> = rest
        /\ Drawn(rest \o <<Status(board)>>) = Drawn(rest) + 0
    BY <1>3, <2>1, JoinedAnswers
  <2>4. Drawn(rest \o <<Status(board)>>) = Drawn(rest)
    BY <2>2, <2>3
  <2> QED
    BY <1>3, <2>2, <2>3, <2>4
<1>9. r' \in 0..ReportFreq + 1
  BY <1>1, <1>2
<1> HIDE DEF asks, asked
<1>10. CASE finished
  <2>1. board' = Disowned(c) /\ answers' = Disown(rest \o asked) /\ stray' = FALSE
    BY <1>1, <1>10
  <2>2. /\ Sound(board') /\ Mark(board'.current) = 0
        /\ \A i \in 1..Len(board'.ring) : ~board'.ring[i].drawn
    BY <1>6, <2>1, DisownsBoard DEF Later
  <2>3. answers' \in Seq(AnswerSet) /\ Drawn(answers') = 0
    BY <1>8, <2>1, DisownsAnswers
  <2>4. board'.ring \in Seq(Lines) /\ app'.window \in Seq(Nat)
    BY <1>7, <2>2, AppFields, BoardFields DEF Sound, Feasible
  <2>5. Covers(board'.ring, Mark(board'.current) + Drawn(answers'), app'.window)
    <3>1. Mark(board'.current) + Drawn(answers') = 0
      BY <2>2, <2>3
    <3> QED
      BY <2>2, <2>4, <3>1, CoversNone
  <2>6. LinkInv' /\ (OnlyDrawn' <=> Only(board'.ring)) /\ (AllWhole' <=> Whole(board'.ring))
    <3>1. paused' \in BOOLEAN /\ presses' \in 0..MaxPresses /\ stray' \in BOOLEAN
      BY <1>1, <1>2, <2>1
    <3> QED
      BY <1>7, <1>9, <2>2, <2>3, <2>5, <3>1, InvMade
  <2>7. ~StreamsOne
    <3>1. heard.line < 0
      BY <1>10 DEF Finishes
    <3>2. app.line \in -1..Len(Drawing) /\ Len(Drawing) \in Nat
      BY <1>2, AppFields DEF Feasible
    <3>3. ~(app.line >= 0)
      BY <1>3, <3>1, <3>2
    <3> QED
      BY <3>3 DEF StreamsOne
  <2> QED
    BY <2>2, <2>4, <2>6, <2>7, OnlyNone DEF FitsNow
<1>11. CASE ~finished
  <2>1. board' = c /\ answers' = rest \o asked /\ stray' = (stray \/ misread)
    BY <1>1, <1>11
  <2>2. ~stray' => ~stray /\ ~misread
    BY <2>1
  <2>3. ~stray' => Covers(board.ring, k + Drawn(rest), heard.window)
    BY <1>3, <2>2
  <2>4. ~stray' => Covers(board'.ring, Mark(board'.current) + Drawn(answers'), app'.window)
    <3>1. k + Drawn(rest) \in Nat /\ ran.app.window \in Seq(Nat)
      BY <1>2, <1>5, <1>8, AppFields DEF Feasible
    <3>2. ~stray' => Covers(d.ring, k + Drawn(rest), ran.app.window)
      BY <1>5, <2>3, <3>1
    <3>3. ~stray' => Covers(c.ring, k + Drawn(rest), ran.app.window)
      BY <1>6, <3>1, <3>2 DEF Later
    <3>4. Mark(board'.current) = k /\ Drawn(answers') = Drawn(rest)
      <4>1. board'.current = board.current
        BY <1>5, <1>6, <2>1 DEF Later
      <4> QED
        BY <1>8, <2>1, <4>1 DEF k
    <3> QED
      BY <1>7, <2>1, <3>3, <3>4
  <2>5. LinkInv' /\ (OnlyDrawn' <=> Only(board'.ring)) /\ (AllWhole' <=> Whole(board'.ring))
    <3>1. paused' \in BOOLEAN /\ presses' \in 0..MaxPresses /\ stray' \in BOOLEAN /\ Sound(board')
      BY <1>1, <1>2, <1>6, <2>1 DEF Later
    <3>2. answers' \in Seq(AnswerSet)
      BY <1>8, <2>1
    <3> QED
      BY <1>7, <1>9, <2>4, <3>1, <3>2, InvMade
  <2>6. ASSUME ~stray, OnlyDrawn, AllWhole, ~stray', OnlyDrawn'
        PROVE  AllWhole' /\ (StreamsOne => Len(board'.ring) = Len(board.ring) + 1)
    <3>1. Only(c.ring) /\ c.ring = d.ring /\ Only(board.ring) /\ Whole(board.ring)
      <4>1. Only(c.ring)
        BY <2>1, <2>5, <2>6
      <4> QED
        BY <1>2, <1>6, <2>6, <4>1 DEF Later
    <3>2. Characters(board.ring) <= Counted(heard.window)
      <4>1. board.ring \in Seq(Lines) /\ heard.window \in Seq(Nat) /\ k + Drawn(rest) \in Nat
        <5>1. board.ring \in Seq(Lines)
          BY <1>2, BoardFields DEF Sound
        <5>2. heard.window \in Seq(Nat)
          BY <1>3, AppFields DEF Feasible
        <5>3. k + Drawn(rest) \in Nat
          BY <1>2, <1>8
        <5> QED
          BY <5>1, <5>2, <5>3
      <4> QED
        BY <2>3, <2>6, <3>1, <4>1, CoversAddsUp DEF Only
    <3>3. AllWhole'
      BY <1>5, <2>1, <2>5, <3>1, <3>2
    <3>4. ASSUME StreamsOne PROVE StreamsFrom(heard, ran.app.line)
      <4>1. app.line >= 0 /\ app'.line > Skipped(app.line)
        BY <3>4 DEF StreamsOne
      <4>2. app.line \in 0..Len(Drawing)
        BY <1>2, <4>1, AppFields DEF Feasible
      <4>3. Skipped(app.line) \in Nat
        BY <4>2, SkippedIs
      <4>4. app'.line = ran.app.line
        BY <1>7, <4>1, <4>3
      <4> QED
        BY <1>3, <4>1, <4>4 DEF StreamsFrom
    <3> QED
      BY <1>5, <2>1, <3>1, <3>2, <3>3, <3>4
  <2> QED
    BY <2>5, <2>6 DEF FitsNow
<1> QED
  BY <1>10, <1>11

LEMMA StreamingSet ==
    ASSUME NEW a, Feasible(a)
    PROVE  LET x == [a EXCEPT !.streaming = TRUE]
           IN Feasible(x) /\ x.window = a.window /\ x.line = a.line
<1> DEFINE x == [a EXCEPT !.streaming = TRUE]
<1>1. a \in AppSet /\ Counted(a.window) <= Window
  BY DEF Feasible
<1>2. x \in AppSet /\ x.window = a.window /\ x.line = a.line
  BY <1>1 DEF AppSet
<1> QED
  BY <1>1, <1>2 DEF Feasible

\* The stream goes on from where it is: no step that leaves the line streams one.
LEMMA StreamsNone ==
    ASSUME LinkInv, app'.line = app.line \/ app'.line = 0 PROVE ~StreamsOne
<1>1. app.line \in -1..Len(Drawing) /\ Len(Drawing) \in Nat
  BY InvFields, AppFields DEF Feasible
<1> SUFFICES ASSUME app.line >= 0 PROVE ~(app'.line > Skipped(app.line))
  BY DEF StreamsOne
<1>2. Skipped(app.line) \in app.line..Len(Drawing)
  BY <1>1, SkippedIs
<1> QED
  BY <1>1, <1>2

LEMMA RenewedKeeps ==
    ASSUME LinkInv, NEW c, Sound(c), NEW q \in Seq(AnswerSet),
           board' = Disowned(c), answers' = Disown(q), Feasible(app'), stray' = FALSE,
           paused' \in BOOLEAN, r' \in 0..ReportFreq + 1, presses' \in 0..MaxPresses, ~StreamsOne
    PROVE  LinkInv' /\ FitsNow
<1>2. /\ Sound(board') /\ Mark(board'.current) = 0
      /\ \A i \in 1..Len(board'.ring) : ~board'.ring[i].drawn
  BY DisownsBoard
<1>3. answers' \in Seq(AnswerSet) /\ Drawn(answers') = 0
  <2>1. q \in Seq(AnswerSet)
    OBVIOUS
  <2> QED
    BY <2>1, DisownsAnswers
<1>4. board'.ring \in Seq(Lines) /\ app'.window \in Seq(Nat)
  BY <1>2, AppFields, BoardFields DEF Sound, Feasible
<1>5. Covers(board'.ring, Mark(board'.current) + Drawn(answers'), app'.window)
  <2>1. Mark(board'.current) + Drawn(answers') = 0
    BY <1>2, <1>3
  <2> QED
    BY <1>2, <1>4, <2>1, CoversNone
<1>6. LinkInv' /\ (OnlyDrawn' <=> Only(board'.ring)) /\ (AllWhole' <=> Whole(board'.ring))
  <2>1. stray' \in BOOLEAN
    OBVIOUS
  <2> QED
    BY <1>2, <1>3, <1>5, <2>1, InvMade
<1> QED
  BY <1>2, <1>4, <1>6, OnlyNone DEF FitsNow

LEMMA PressIs == ASSUME LinkInv, NEW x, Press(x) PROVE presses' \in 0..MaxPresses
<1>1. presses \in 0..MaxPresses /\ MaxPresses \in Nat
  BY InvFields, SizesAssumption
<1> QED
  BY <1>1 DEF Press

LEMMA StartStep == LinkInv /\ Start => LinkInv' /\ FitsNow
<1> SUFFICES ASSUME LinkInv, Start PROVE LinkInv' /\ FitsNow
  OBVIOUS
<1> DEFINE a == [app EXCEPT !.streaming = TRUE]
           ran == Stream(a)
           b == Arrive(board, Command("same"))
           c == Arrivals(board, <<Command("same")>> \o ran.sent)
           k == Mark(board.current) + Drawn(answers)
<1>1. /\ app' = ran.app /\ board' = c /\ answers' = answers
      /\ paused' = paused /\ r' = r /\ stray' = stray
      /\ presses' \in 0..MaxPresses
  BY PressIs DEF Start, Sends
<1>2. /\ Feasible(app) /\ Sound(board) /\ answers \in Seq(AnswerSet) /\ k \in Nat
      /\ r \in 0..ReportFreq + 1 /\ stray \in BOOLEAN /\ paused \in BOOLEAN
      /\ OnlyDrawn <=> Only(board.ring)
      /\ AllWhole <=> Whole(board.ring)
  BY InvFields
<1>3. Feasible(a) /\ a.window = app.window /\ a.line = app.line /\ app.window \in Seq(Nat)
  BY <1>2, StreamingSet, AppFields DEF Feasible
<1> HIDE DEF a
<1>4. c = Ran(b, a)
  <2>1. Command("same") \in Lines
    BY CommandIs DEF Pens
  <2> QED
    BY <1>3, <2>1, RanArrives
<1>5. /\ Sound(b) /\ b.current = board.current
      /\ \A n \in Nat, w \in Seq(Nat) : Covers(board.ring, n, w) => Covers(b.ring, n, w)
      /\ Only(b.ring) => b.ring = board.ring /\ Capacity <= Characters(board.ring)
  BY <1>2, CommandArrives DEF Pens
<1> HIDE DEF b, c, ran
<1>6. /\ Feasible(ran.app) /\ Sound(c) /\ c.current = b.current
      /\ \A n \in Nat : Covers(b.ring, n, a.window) => Covers(c.ring, n, ran.app.window)
      /\ Only(c.ring) => Only(b.ring)
      /\ Characters(b.ring) <= Counted(a.window) /\ Whole(b.ring) => Whole(c.ring)
      /\ Characters(b.ring) <= Counted(a.window) /\ StreamsFrom(a, ran.app.line) =>
           /\ Len(c.ring) = Len(b.ring) + 1
           /\ Characters(b.ring) < Capacity
  BY <1>3, <1>4, <1>5, RanKeeps DEF ran
<1>7. ~stray => Covers(board.ring, k, app.window)
  BY DEF LinkInv
<1> HIDE DEF k
<1>8. ~stray' => Covers(board'.ring, Mark(board'.current) + Drawn(answers'), app'.window)
  <2>1. ~stray => Covers(c.ring, k, ran.app.window)
    BY <1>2, <1>3, <1>5, <1>6, <1>7
  <2>2. Mark(board'.current) + Drawn(answers') = k
    BY <1>1, <1>5, <1>6 DEF k
  <2> QED
    BY <1>1, <2>1, <2>2
<1>9. LinkInv' /\ (OnlyDrawn' <=> Only(board'.ring)) /\ (AllWhole' <=> Whole(board'.ring))
  BY <1>1, <1>2, <1>6, <1>8, InvMade
<1>10. ASSUME ~stray, OnlyDrawn, AllWhole, OnlyDrawn'
       PROVE  AllWhole' /\ (StreamsOne => Len(board'.ring) = Len(board.ring) + 1)
  <2>1. Only(b.ring) /\ b.ring = board.ring /\ Whole(board.ring) /\ Only(board.ring)
        /\ Capacity <= Characters(board.ring)
    BY <1>1, <1>2, <1>5, <1>6, <1>9, <1>10
  <2>2. Characters(b.ring) <= Counted(a.window)
    <3>1. board.ring \in Seq(Lines)
      BY <1>2, BoardFields DEF Sound
    <3> QED
      BY <1>2, <1>3, <1>7, <1>10, <2>1, <3>1, CoversAddsUp DEF Only
  <2>3. AllWhole'
    BY <1>1, <1>6, <1>9, <2>1, <2>2
  <2>4. ~StreamsFrom(a, ran.app.line)
    <3>1. Characters(board.ring) \in Nat /\ Capacity \in Nat
      BY <1>2, BoardFields DEF Sound
    <3> QED
      BY <1>6, <2>1, <2>2, <3>1
  <2> QED
    BY <1>1, <1>3, <2>3, <2>4 DEF StreamsOne, StreamsFrom
<1> QED
  BY <1>9, <1>10 DEF FitsNow

LEMMA ResetStep == LinkInv /\ Reset => LinkInv' /\ FitsNow
<1> SUFFICES ASSUME LinkInv, Reset PROVE LinkInv' /\ FitsNow
  OBVIOUS
<1> DEFINE c == Arrivals(board, <<Signal("reset"), Command("same")>>)
<1>1. PICK answered \in BOOLEAN :
        /\ board' = Disowned(c)
        /\ answers' = Disown(answers \o (IF answered THEN <<Answer("ok", FALSE)>> ELSE <<>>)
                                     \o <<Answer("welcome", FALSE)>>)
  BY DEF Reset, Sends
<1> DEFINE q == answers \o (IF answered THEN <<Answer("ok", FALSE)>> ELSE <<>>)
                        \o <<Answer("welcome", FALSE)>>
<1>2. /\ app' = [Fresh(app) EXCEPT !.streaming = FALSE]
      /\ paused' = FALSE /\ stray' = FALSE /\ r' = r /\ presses' \in 0..MaxPresses
  BY PressIs DEF Reset
<1>3. Sound(c)
  <2>1. c = Arrive(Arrive(board, Signal("reset")), Command("same"))
    <3> DEFINE S == Lines \cup {Signal("reset")}
    <3>1. Command("same") \in S /\ Signal("reset") \in S
      BY CommandIs DEF Pens
    <3>2. <<Signal("reset")>> \in Seq(S)
          /\ <<Signal("reset"), Command("same")>> = <<Signal("reset")>> \o <<Command("same")>>
      BY <3>1
    <3> HIDE DEF S
    <3>3. Arrivals(board, <<Signal("reset")>> \o <<Command("same")>>)
            = Arrive(Arrivals(board, <<Signal("reset")>>), Command("same"))
      BY <3>1, <3>2, ArrivalsThen
    <3>4. Arrivals(board, <<Signal("reset")>>) = Arrive(board, Signal("reset"))
      BY ArrivalsOne
    <3> QED
      BY <3>2, <3>3, <3>4
  <2>2. Sound(Arrive(board, Signal("reset")))
    BY InvFields, SignalArrives
  <2> QED
    BY <2>1, <2>2, CommandArrives DEF Pens
<1>4. q \in Seq(AnswerSet)
  <2>1. answers \in Seq(AnswerSet)
    BY InvFields
  <2>2. Answer("ok", FALSE) \in AnswerSet /\ Answer("welcome", FALSE) \in AnswerSet
    BY DEF Answer, AnswerSet
  <2>3. answers \o (IF answered THEN <<Answer("ok", FALSE)>> ELSE <<>>) \in Seq(AnswerSet)
    BY <2>1, <2>2, JoinedAnswers
  <2> QED
    BY <2>2, <2>3, JoinedAnswers
<1> HIDE DEF c, q
<1>5. Feasible(app') /\ app'.line = 0
  <2>1. app \in AppSet /\ Len(Drawing) \in Nat
    BY InvFields, AppFields DEF Feasible
  <2>2. app' = [app EXCEPT !.line = 0, !.window = <<>>, !.streaming = FALSE]
    BY <1>2, <2>1 DEF Fresh, AppSet
  <2>3. <<>> \in Seq(Nat) /\ 0 \in -1..Len(Drawing)
    BY <2>1
  <2>4. app' \in AppSet /\ app'.window = <<>> /\ app'.line = 0
    BY <2>1, <2>2, <2>3 DEF AppSet
  <2> QED
    BY <2>4, CountedEmpty, SizesAssumption DEF Feasible
<1>6. ~StreamsOne
  BY <1>5, StreamsNone
<1>7. r' \in 0..ReportFreq + 1
  BY <1>2, InvFields
<1> QED
  BY <1>1, <1>2, <1>3, <1>4, <1>5, <1>6, <1>7, RenewedKeeps DEF q

\* A step that leaves the window alone, and the ring but for lines that are not streamed.
LEMMA LaterKeeps ==
    ASSUME LinkInv, Later(board, board'), app' = app, answers' = answers, stray' = stray,
           paused' \in BOOLEAN, r' = r, presses' \in 0..MaxPresses
    PROVE  LinkInv' /\ FitsNow
<1> DEFINE k == Mark(board.current) + Drawn(answers)
<1>1. /\ Feasible(app) /\ Sound(board) /\ answers \in Seq(AnswerSet) /\ k \in Nat
      /\ r \in 0..ReportFreq + 1 /\ stray \in BOOLEAN
      /\ AllWhole <=> Whole(board.ring)
  BY InvFields
<1>2. Feasible(app') /\ Sound(board') /\ answers' \in Seq(AnswerSet)
      /\ r' \in 0..ReportFreq + 1 /\ stray' \in BOOLEAN
  BY <1>1 DEF Later
<1>3. ~stray' => Covers(board'.ring, Mark(board'.current) + Drawn(answers'), app'.window)
  <2>1. ~stray => Covers(board.ring, k, app.window)
    BY DEF LinkInv
  <2>2. app.window \in Seq(Nat)
    BY <1>1, AppFields DEF Feasible
  <2> HIDE DEF k
  <2>3. ~stray => Covers(board'.ring, k, app.window)
    BY <1>1, <2>1, <2>2 DEF Later
  <2> QED
    BY <2>3 DEF Later, k
<1>4. LinkInv' /\ (OnlyDrawn' <=> Only(board'.ring)) /\ (AllWhole' <=> Whole(board'.ring))
  BY <1>2, <1>3, InvMade
<1>5. ~StreamsOne
  BY StreamsNone
<1>6. Only(board'.ring) => board'.ring = board.ring
  BY DEF Later
<1> QED
  BY <1>1, <1>4, <1>5, <1>6 DEF FitsNow

LEMMA PauseStep == LinkInv /\ Pause => LinkInv' /\ FitsNow
<1> SUFFICES ASSUME LinkInv, Pause PROVE LinkInv' /\ FitsNow
  OBVIOUS
<1>1. /\ board' = Arrivals(board, <<Signal("door")>>) /\ answers' = answers /\ app' = app
      /\ paused' = TRUE /\ r' = r /\ stray' = stray /\ presses' \in 0..MaxPresses
  BY PressIs DEF Pause, Sends
<1>2. board' = Arrive(board, Signal("door"))
  BY <1>1, ArrivalsOne
<1>3. Later(board, board')
  BY <1>2, InvFields, SignalArrives DEF Later
<1> QED
  BY <1>1, <1>3, LaterKeeps

LEMMA ManualStep == LinkInv /\ Manual => LinkInv' /\ FitsNow
<1> SUFFICES ASSUME LinkInv, Manual PROVE LinkInv' /\ FitsNow
  OBVIOUS
<1>1. PICK b \in {"penOn", "penOff", "home"} :
        /\ Press(b)
        /\ Sends(<<Command(CASE b = "penOn" -> "on" [] b = "penOff" -> "off" [] OTHER -> "same")>>,
                 answers, FALSE)
  BY DEF Manual
<1> DEFINE p == CASE b = "penOn" -> "on" [] b = "penOff" -> "off" [] OTHER -> "same"
<1>2. p \in Pens
  BY DEF Pens
<1> HIDE DEF p
<1>3. /\ board' = Arrivals(board, <<Command(p)>>) /\ answers' = answers /\ app' = app
      /\ paused' = paused /\ r' = r /\ stray' = stray /\ presses' \in 0..MaxPresses
  BY <1>1, PressIs DEF Manual, Sends, p
<1>4. Later(board, board')
  BY <1>2, <1>3, ArrivalsOne, InvFields, LaterSame, LaterCommand
<1>5. paused' \in BOOLEAN
  BY <1>3, InvFields
<1> QED
  BY <1>3, <1>4, <1>5, LaterKeeps

LEMMA ResumeStep == LinkInv /\ Resume => LinkInv' /\ FitsNow
<1> SUFFICES ASSUME LinkInv, Resume PROVE LinkInv' /\ FitsNow
  OBVIOUS
<1> DEFINE a == [app EXCEPT !.streaming = TRUE]
           ran == Stream(a)
           b == Arrive(board, Signal("resume"))
           c == Arrivals(board, <<Signal("resume")>> \o ran.sent)
           k == Mark(board.current) + Drawn(answers)
<1>1. /\ app' = ran.app /\ paused' = FALSE /\ r' = r /\ presses' \in 0..MaxPresses
      /\ board' = IF Finishes(a) THEN Disowned(c) ELSE c
      /\ answers' = IF Finishes(a) THEN Disown(answers) ELSE answers
      /\ stray' = (stray /\ ~Finishes(a))
  BY PressIs DEF Resume, Sends
<1>2. /\ Feasible(app) /\ Sound(board) /\ answers \in Seq(AnswerSet) /\ k \in Nat
      /\ r \in 0..ReportFreq + 1 /\ stray \in BOOLEAN
      /\ OnlyDrawn <=> Only(board.ring)
      /\ AllWhole <=> Whole(board.ring)
  BY InvFields
<1>3. Feasible(a) /\ a.window = app.window /\ a.line = app.line /\ app.window \in Seq(Nat)
      /\ a.line \in -1..Len(Drawing) /\ Len(Drawing) \in Nat
  BY <1>2, StreamingSet, AppFields DEF Feasible
<1> HIDE DEF a
<1>4. c = Ran(b, a)
  <2> DEFINE S == Lines \cup {Signal("resume")}
  <2>1. Signal("resume") \in S /\ Lines \subseteq S
    OBVIOUS
  <2> HIDE DEF S
  <2> QED
    BY <1>3, <2>1, RanArrives
<1>5. Sound(b) /\ b.current = board.current /\ b.ring = board.ring
  BY <1>2, SignalArrives
<1> HIDE DEF b, c, ran
<1>6. /\ Feasible(ran.app) /\ Sound(c) /\ c.current = b.current
      /\ \A n \in Nat : Covers(b.ring, n, a.window) => Covers(c.ring, n, ran.app.window)
      /\ Only(c.ring) => Only(b.ring)
      /\ Characters(b.ring) <= Counted(a.window) /\ Whole(b.ring) => Whole(c.ring)
      /\ Characters(b.ring) <= Counted(a.window) /\ StreamsFrom(a, ran.app.line) =>
           Len(c.ring) = Len(b.ring) + 1
  BY <1>3, <1>4, <1>5, RanKeeps DEF ran
<1>7. ~stray => Covers(board.ring, k, app.window)
  BY DEF LinkInv
<1>8. CASE Finishes(a)
  <2>1. ~StreamsOne
    <3>1. ~(app.line >= 0)
      BY <1>3, <1>8 DEF Finishes
    <3> QED
      BY <3>1 DEF StreamsOne
  <2>2. paused' \in BOOLEAN /\ r' \in 0..ReportFreq + 1 /\ stray' = FALSE
    BY <1>1, <1>2, <1>8
  <2> QED
    BY <1>1, <1>2, <1>6, <1>8, <2>1, <2>2, RenewedKeeps
<1>9. CASE ~Finishes(a)
  <2>1. board' = c /\ answers' = answers /\ stray' = stray
    BY <1>1, <1>2, <1>9
  <2>2. ~stray' => Covers(board'.ring, Mark(board'.current) + Drawn(answers'), app'.window)
    <3> HIDE DEF k
    <3>1. ~stray => Covers(c.ring, k, ran.app.window)
      BY <1>2, <1>3, <1>5, <1>6, <1>7
    <3>2. Mark(board'.current) + Drawn(answers') = k
      BY <1>5, <1>6, <2>1 DEF k
    <3> QED
      BY <1>1, <2>1, <3>1, <3>2
  <2>3. LinkInv' /\ (OnlyDrawn' <=> Only(board'.ring)) /\ (AllWhole' <=> Whole(board'.ring))
    <3>1. paused' \in BOOLEAN /\ r' \in 0..ReportFreq + 1 /\ stray' \in BOOLEAN
      BY <1>1, <1>2, <2>1
    <3> QED
      BY <1>1, <1>2, <1>6, <2>1, <2>2, <3>1, InvMade
  <2>4. ASSUME ~stray, OnlyDrawn, AllWhole, OnlyDrawn'
        PROVE  AllWhole' /\ (StreamsOne => Len(board'.ring) = Len(board.ring) + 1)
    <3>1. Only(board.ring) /\ Whole(board.ring)
      BY <1>2, <2>4
    <3>2. Characters(b.ring) <= Counted(a.window)
      <4>1. board.ring \in Seq(Lines)
        BY <1>2, BoardFields DEF Sound
      <4> QED
        BY <1>2, <1>3, <1>5, <1>7, <2>4, <3>1, <4>1, CoversAddsUp DEF Only
    <3> QED
      BY <1>1, <1>3, <1>5, <1>6, <2>1, <2>3, <3>1, <3>2 DEF StreamsOne, StreamsFrom
  <2> QED
    BY <2>3, <2>4 DEF FitsNow
<1> QED
  BY <1>8, <1>9

\* The firmware's own steps: the application does not move, and the ring only drains.
LEMMA FirmwareKeeps ==
    ASSUME LinkInv, Sound(board'), answers' \in Seq(AnswerSet),
           app' = app, paused' = paused, r' = r, stray' = stray, presses' = presses,
           ~stray => Covers(board'.ring, Mark(board'.current) + Drawn(answers'), app.window),
           Whole(board.ring) => Whole(board'.ring)
    PROVE  LinkInv' /\ FitsNow
<1>1. /\ Feasible(app) /\ r \in 0..ReportFreq + 1 /\ stray \in BOOLEAN /\ paused \in BOOLEAN
      /\ presses \in 0..MaxPresses /\ (AllWhole <=> Whole(board.ring))
  BY InvFields
<1>2. LinkInv' /\ (OnlyDrawn' <=> Only(board'.ring)) /\ (AllWhole' <=> Whole(board'.ring))
  BY <1>1, InvMade
<1>3. ~StreamsOne
  BY StreamsNone
<1> QED
  BY <1>1, <1>2, <1>3 DEF FitsNow

LEMMA TakeStep == LinkInv /\ Take => LinkInv' /\ FitsNow
<1> SUFFICES ASSUME LinkInv, Take PROVE LinkInv' /\ FitsNow
  OBVIOUS
<1> DEFINE l == Head(board.ring)
           s == Tail(board.ring)
           k == Drawn(answers)
<1>1. /\ Feasible(app) /\ Sound(board) /\ answers \in Seq(AnswerSet) /\ k \in Nat
      /\ stray \in BOOLEAN
  BY InvFields
<1>2. /\ board \in BoardSet /\ board.ring \in Seq(Lines) /\ board.ring # <<>>
      /\ board.current = NoLine /\ Characters(board.ring) <= Capacity
      /\ Characters(board.ring) \in Nat /\ app.window \in Seq(Nat) /\ Capacity \in Nat
  BY <1>1, AppFields, BoardFields DEF Take, Sound, Feasible
<1>3. /\ l \in Lines /\ s \in Seq(Lines) /\ Len(board.ring) \in Nat
      /\ Len(s) = Len(board.ring) - 1 /\ \A i \in 1..Len(s) : s[i] = board.ring[i + 1]
  BY <1>2
<1>4. Characters(s) <= Capacity
  <2>1. Characters(s) \in Nat
    BY <1>3, LengthsAre, LineFields
  <2>2. Characters(s) <= Characters(board.ring)
    BY <1>2, CharactersTail, LineFields
  <2> QED
    BY <1>2, <2>1, <2>2
<1>5. Whole(board.ring) => Whole(s)
  <2>1. ASSUME NEW i \in 1..Len(s) PROVE i + 1 \in 1..Len(board.ring)
    BY <1>3
  <2> HIDE DEF s
  <2> QED
    BY <1>3, <2>1 DEF Whole
<1>6. /\ app' = app /\ paused' = paused /\ r' = r /\ answers' = answers
      /\ stray' = stray /\ presses' = presses
  BY DEF Take
<1>7. ~stray => Covers(s, k + Mark(l), app.window)
  <2>1. ~stray => Covers(board.ring, k, app.window)
    <3>1. Mark(board.current) + Drawn(answers) = k
      BY <1>1, <1>2, NoLineIs
    <3> QED
      BY <3>1 DEF LinkInv
  <2> QED
    BY <1>1, <1>2, <2>1, CoversTake
<1>8. Mark(l) \in {0, 1}
  BY MarkIs
<1>9. CASE l.whole
  <2>1. board' = [board EXCEPT !.ring = s, !.partial = FALSE,
                               !.current = [l EXCEPT !.bad = @ \/ board.partial]]
    BY <1>9 DEF Take
  <2> HIDE DEF l, s
  <2>2. PICK e \in BOOLEAN : e = (l.bad \/ board.partial)
    BY Zenon
  <2> DEFINE c == [l EXCEPT !.bad = e]
  <2>3. c \in Currents /\ c.drawn = l.drawn
    <3>1. l.whole = TRUE
      BY <1>3, <1>9, LineFields
    <3> QED
      BY <1>3, <3>1 DEF Lines, Currents
  <2>4. board' = Made(s, c, FALSE, board.door, board.locked, board.moving, board.pen)
    <3>1. c = [l EXCEPT !.bad = l.bad \/ board.partial]
      BY <2>2
    <3>2. board' = [board EXCEPT !.ring = s, !.partial = FALSE, !.current = c]
      BY <2>1, <3>1
    <3> HIDE DEF c
    <3> QED
      BY <1>2, <3>2 DEF BoardSet, Made
  <2> HIDE DEF c
  <2>5. board' \in BoardSet
    <3>1. /\ board.door \in DoorSet /\ board.locked \in BOOLEAN /\ board.moving \in BOOLEAN
          /\ board.pen \in BOOLEAN /\ FALSE \in BOOLEAN
      BY <1>2, BoardFields
    <3> QED
      BY <1>3, <2>3, <2>4, <3>1, BoardMade, Zenon
  <2>6. board'.ring = s /\ board'.current = c
    BY <2>4 DEF Made
  <2>7. Mark(board'.current) + Drawn(answers') = k + Mark(l)
    <3>1. Mark(c) = Mark(l)
      BY <2>3 DEF Mark
    <3> QED
      BY <1>1, <1>6, <1>8, <2>6, <3>1
  <2>8. Sound(board')
    BY <1>4, <2>5, <2>6 DEF Sound
  <2> QED
    BY <1>1, <1>5, <1>6, <1>7, <2>6, <2>7, <2>8, FirmwareKeeps
<1>10. CASE ~l.whole
  <2>1. board' = [board EXCEPT !.ring = s, !.partial = TRUE]
    BY <1>10 DEF Take
  <2> HIDE DEF l, s
  <2>2. board' = Made(s, board.current, TRUE, board.door, board.locked, board.moving, board.pen)
    BY <1>2, <2>1 DEF BoardSet, Made
  <2>3. board' \in BoardSet
    <3>1. /\ board.door \in DoorSet /\ board.locked \in BOOLEAN /\ board.moving \in BOOLEAN
          /\ board.pen \in BOOLEAN /\ TRUE \in BOOLEAN /\ board.current \in Currents
      BY <1>2, BoardFields, BoardIsMade
    <3> QED
      BY <1>3, <2>2, <3>1, BoardMade, Zenon
  <2>4. board'.ring = s /\ board'.current = board.current
    BY <2>2 DEF Made
  <2>5. ~stray => Covers(s, k, app.window)
    <3>1. k + Mark(l) \in Nat /\ k <= k + Mark(l)
      BY <1>1, <1>8
    <3> QED
      BY <1>1, <1>2, <1>3, <1>7, <3>1, CoversLess
  <2>6. Mark(board'.current) + Drawn(answers') = k
    BY <1>1, <1>2, <1>6, <2>4, NoLineIs
  <2>7. Sound(board')
    BY <1>4, <2>3, <2>4 DEF Sound
  <2> QED
    BY <1>1, <1>5, <1>6, <2>4, <2>5, <2>6, <2>7, FirmwareKeeps
<1> QED
  BY <1>9, <1>10

LEMMA ExecuteStep == LinkInv /\ Execute => LinkInv' /\ FitsNow
<1> SUFFICES ASSUME LinkInv, Execute PROVE LinkInv' /\ FitsNow
  OBVIOUS
<1> DEFINE l == board.current
           refused == board.locked \/ l.bad
           m == Answer(IF refused THEN "error" ELSE "ok", l.drawn)
           k == Drawn(answers)
<1>1. /\ Sound(board) /\ board \in BoardSet /\ answers \in Seq(AnswerSet) /\ k \in Nat
      /\ l \in Currents /\ board.ring \in Seq(Lines)
  BY InvFields, BoardIsMade DEF Sound
<1>2. /\ answers' = Append(answers, m)
      /\ board' = [board EXCEPT !.current = NoLine, !.moving = @ \/ ~refused,
                                !.pen = IF refused \/ l.pen = "same" THEN @ ELSE l.pen = "on"]
      /\ app' = app /\ paused' = paused /\ r' = r /\ stray' = stray /\ presses' = presses
  BY DEF Execute
<1>3. m \in AnswerSet /\ Mark(m) = Mark(l)
  <2>1. l.drawn \in BOOLEAN
    BY <1>1 DEF Currents
  <2>2. m \in AnswerSet /\ m.drawn = l.drawn
    BY <2>1 DEF Answer, AnswerSet
  <2> QED
    BY <2>2 DEF Mark
<1>4. board' \in BoardSet /\ board'.ring = board.ring /\ board'.current = NoLine
  <2>1. PICK f \in BOOLEAN : f = (board.moving \/ ~refused)
    BY Zenon
  <2>2. PICK p \in BOOLEAN : p = IF refused \/ l.pen = "same" THEN board.pen ELSE l.pen = "on"
    <3>1. board.pen \in BOOLEAN
      BY <1>1, BoardFields
    <3>2. (IF refused \/ l.pen = "same" THEN board.pen ELSE l.pen = "on") \in BOOLEAN
      BY <3>1
    <3> QED
      BY <3>2, Zenon
  <2>3. board' = [board EXCEPT !.current = NoLine, !.moving = f, !.pen = p]
    BY <1>2, <2>1, <2>2
  <2>4. board' = Made(board.ring, NoLine, board.partial, board.door, board.locked, f, p)
    BY <1>1, <2>3 DEF BoardSet, Made
  <2>5. board' \in BoardSet
    <3>1. /\ board.door \in DoorSet /\ board.locked \in BOOLEAN /\ board.partial \in BOOLEAN
          /\ NoLine \in Currents
      BY <1>1, BoardFields, NoLineIs
    <3> QED
      BY <1>1, <2>4, <3>1, BoardMade, Zenon
  <2> QED
    BY <2>4, <2>5 DEF Made
<1> HIDE DEF m
<1>5. answers' \in Seq(AnswerSet) /\ Drawn(answers') = k + Mark(l)
  BY <1>1, <1>2, <1>3, DrawnAppend
<1>6. Mark(board'.current) + Drawn(answers') = Mark(l) + k
  <2>1. Mark(l) \in {0, 1}
    BY MarkIs
  <2> QED
    BY <1>1, <1>4, <1>5, <2>1, NoLineIs
<1>7. ~stray => Covers(board'.ring, Mark(board'.current) + Drawn(answers'), app.window)
  BY <1>4, <1>6 DEF LinkInv
<1>8. Sound(board')
  BY <1>1, <1>4 DEF Sound
<1> QED
  BY <1>2, <1>4, <1>5, <1>7, <1>8, FirmwareKeeps

LEMMA RestStep == LinkInv /\ Rest => LinkInv' /\ FitsNow
<1> SUFFICES ASSUME LinkInv, Rest PROVE LinkInv' /\ FitsNow
  OBVIOUS
<1>1. /\ board' = [board EXCEPT !.moving = FALSE] /\ answers' = answers
      /\ app' = app /\ paused' = paused /\ r' = r /\ stray' = stray /\ presses' = presses
  BY DEF Rest
<1>2. Sound(board) /\ board \in BoardSet /\ answers \in Seq(AnswerSet)
  BY InvFields DEF Sound
<1>3. board' \in BoardSet /\ board'.ring = board.ring /\ board'.current = board.current
  BY <1>1, <1>2 DEF BoardSet
<1>4. Sound(board')
  BY <1>2, <1>3 DEF Sound
<1>5. ~stray => Covers(board'.ring, Mark(board'.current) + Drawn(answers'), app.window)
  BY <1>1, <1>3 DEF LinkInv
<1> QED
  BY <1>1, <1>2, <1>3, <1>4, <1>5, FirmwareKeeps

LEMMA SuspendStep == LinkInv /\ Suspend => LinkInv' /\ FitsNow
<1> SUFFICES ASSUME LinkInv, Suspend PROVE LinkInv' /\ FitsNow
  OBVIOUS
<1>1. PICK d \in DoorSet : board' = [board EXCEPT !.door = d]
  BY DEF Suspend, NextStage, DoorSet
<1>2. /\ answers' = answers
      /\ app' = app /\ paused' = paused /\ r' = r /\ stray' = stray /\ presses' = presses
  BY DEF Suspend
<1>3. Sound(board) /\ board \in BoardSet /\ answers \in Seq(AnswerSet)
  BY InvFields DEF Sound
<1>4. board' \in BoardSet /\ board'.ring = board.ring /\ board'.current = board.current
  BY <1>1, <1>3 DEF BoardSet
<1>5. Sound(board')
  BY <1>3, <1>4 DEF Sound
<1>6. ~stray => Covers(board'.ring, Mark(board'.current) + Drawn(answers'), app.window)
  BY <1>2, <1>4 DEF LinkInv
<1> QED
  BY <1>2, <1>3, <1>4, <1>5, <1>6, FirmwareKeeps

LEMMA LinkStarts == StreamInit => LinkInv
<1> SUFFICES ASSUME StreamInit PROVE LinkInv
  OBVIOUS
<1>1. <<>> \in Seq(Nat) /\ <<>> \in Seq(Lines) /\ <<>> \in Seq(AnswerSet) /\ FALSE \in BOOLEAN
  OBVIOUS
<1>2. /\ app.window = <<>> /\ board.ring = <<>> /\ board.current = NoLine /\ answers = <<>>
      /\ paused = FALSE /\ r = 0 /\ stray = FALSE /\ presses = MaxPresses
  BY DEF StreamInit
<1>3. app \in AppSet
  <2>1. 0 \in -1..Len(Drawing) /\ 0 \in 0..HomeAfter
    BY DrawingAssumption, SizesAssumption
  <2> QED
    BY <1>1, <2>1 DEF StreamInit, AppSet
<1>4. board \in BoardSet
  <2>1. board = Made(<<>>, NoLine, FALSE, "shut", FALSE, FALSE, FALSE)
    BY DEF StreamInit, Made
  <2>2. NoLine \in Currents /\ "shut" \in DoorSet
    BY NoLineIs DEF DoorSet
  <2> QED
    BY <1>1, <2>1, <2>2, BoardMade, Zenon
<1>5. Counted(app.window) <= Window /\ Characters(board.ring) <= Capacity
  BY <1>2, CountedEmpty, DrawnEmpty, SizesAssumption
<1>6. StreamTypeOK
  <2>1. r \in 0..ReportFreq + 1 /\ presses \in 0..MaxPresses
    BY <1>2, SizesAssumption
  <2>2. paused \in BOOLEAN /\ stray \in BOOLEAN /\ answers \in Seq(AnswerSet)
    BY <1>1, <1>2
  <2> QED
    BY <1>3, <1>4, <1>5, <2>1, <2>2 DEF StreamTypeOK
<1>7. Covers(board.ring, Mark(board.current) + Drawn(answers), app.window)
  <2>1. Mark(board.current) + Drawn(answers) = 0
    BY <1>2, NoLineIs, DrawnEmpty
  <2>2. \A i \in 1..Len(board.ring) : ~board.ring[i].drawn
    BY <1>2
  <2> QED
    BY <1>1, <1>2, <2>1, <2>2, CoversNone
<1> QED
  BY <1>6, <1>7 DEF LinkInv

LEMMA LinkSteps == LinkInv /\ [StreamNext]_streamVars => LinkInv' /\ [FitsNow]_streamVars
<1> SUFFICES ASSUME LinkInv, [StreamNext]_streamVars PROVE LinkInv' /\ [FitsNow]_streamVars
  OBVIOUS
<1>1. CASE StreamNext
  BY <1>1, FrameStep, StartStep, ResetStep, PauseStep, ResumeStep, ManualStep, TakeStep,
     ExecuteStep, RestStep, SuspendStep DEF StreamNext, Operator, Firmware
<1>2. CASE UNCHANGED streamVars
  <2>1. /\ app' = app /\ paused' = paused /\ r' = r /\ board' = board /\ answers' = answers
        /\ stray' = stray /\ presses' = presses
    BY <1>2 DEF streamVars
  <2>2. LinkInv'
    <3>1. Feasible(app') /\ Sound(board') /\ answers' \in Seq(AnswerSet)
      BY <2>1, InvFields
    <3>2. paused' \in BOOLEAN /\ r' \in 0..ReportFreq + 1 /\ stray' \in BOOLEAN
          /\ presses' \in 0..MaxPresses
      BY <2>1, InvFields
    <3>3. ~stray' => Covers(board'.ring, Mark(board'.current) + Drawn(answers'), app'.window)
      BY <2>1 DEF LinkInv
    <3> QED
      BY <3>1, <3>2, <3>3, InvMade
  <2> QED
    BY <1>2, <2>2
<1> QED
  BY <1>1, <1>2

-----------------------------------------------------------------------------
(* The theorems of the controller.                                         *)

LEMMA LinkAlways == StreamSpec => []LinkInv /\ [][FitsNow]_streamVars
<1>1. StreamSpec => []LinkInv
  BY LinkStarts, LinkSteps, PTL DEF StreamSpec
<1> QED
  BY <1>1, LinkSteps, PTL DEF StreamSpec

\* The application's state, the firmware's and the answers are values the code produces,
\* c_line never counts more than the window and the ring never holds more than its size
\* (stream() of serialStream.pde, serial_interrupt of serial.c).
THEOREM StreamTyped == StreamSpec => []StreamTypeOK
<1>1. LinkInv => StreamTypeOK
  BY DEF LinkInv
<1> QED
  BY <1>1, LinkAlways, PTL

\* Whatever the operator presses and whatever the firmware refuses: as long as no answer to
\* a line that was not streamed has shortened c_line, every streamed line that is in the
\* ring, being executed or answered and unread is in c_line.
THEOREM WindowAlwaysCovers == StreamSpec => []WindowCovers
<1>1. LinkInv => WindowCovers
  <2> SUFFICES ASSUME LinkInv, ~stray
               PROVE  Drawn(board.ring) + Drawn(<<board.current>>) + Drawn(answers) <= Len(app.window)
    BY DEF WindowCovers
  <2>1. /\ Sound(board) /\ Mark(board.current) \in Nat /\ Drawn(answers) \in Nat
        /\ app.window \in Seq(Nat)
    BY InvFields, AppFields DEF Feasible
  <2>2. Drawn(board.ring) \in Nat /\ Len(app.window) \in Nat
    BY <2>1, BoardFields DEF Sound
  <2>3. Drawn(<<board.current>>) = Mark(board.current)
    BY DrawnOne
  <2>4. (Mark(board.current) + Drawn(answers)) + Drawn(board.ring) <= Len(app.window)
    BY DEF LinkInv, Covers
  <2> QED
    BY <2>1, <2>2, <2>3, <2>4
<1> QED
  BY <1>1, LinkAlways, PTL

\* And as long as the ring holds nothing else, no line is cut short at the ring and a line
\* that stream() sends is in it: 127 counted characters fit the 128 of RX_BUFFER_SIZE.
THEOREM StreamAlwaysFits == StreamSpec => StreamFits
BY LinkAlways, PTL DEF StreamFits, FitsNow
=============================================================================
