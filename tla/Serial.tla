------------------------------- MODULE Serial -------------------------------
(***************************************************************************)
(* The serial driver of the firmware, grbl/serial.c: two ring buffers      *)
(* shared without locks by the main program and two interrupt handlers.    *)
(*                                                                         *)
(*   receive : SERIAL_RX (interrupt) puts, serial_read (main) takes,       *)
(*             serial_reset_read_buffer (main) empties after a reset;      *)
(*   transmit: serial_write (main) puts, SERIAL_UDRE (interrupt) takes.    *)
(*                                                                         *)
(* A handler runs with interrupts disabled, hence in one step.  A function *)
(* of the main program is cut into steps at each access of shared memory   *)
(* that a handler can be served before; its locals are cleared when it     *)
(* returns.  Each ring keeps one slot free to tell "full" from "empty".    *)
(***************************************************************************)
EXTENDS Naturals, Sequences

CONSTANTS Byte,            \* characters that are not realtime commands
          NoByte,          \* no byte yet
          RX_BUFFER_SIZE,  \* bytes the receive ring holds
          TX_BUFFER_SIZE,  \* bytes the transmit ring holds
          LongInterrupt    \* can interrupts keep the main program stopped for
                           \* longer than one character takes to be sent?

ASSUME SizeAssumption == /\ RX_BUFFER_SIZE \in Nat \ {0}
                         /\ TX_BUFFER_SIZE \in Nat \ {0}
ASSUME ByteAssumption == NoByte \notin Byte
ASSUME LongInterruptAssumption == LongInterrupt \in BOOLEAN

RX_RING_BUFFER == RX_BUFFER_SIZE + 1
TX_RING_BUFFER == TX_BUFFER_SIZE + 1

VARIABLES rxBuffer, rxHead, rxTail,   \* serial_rx_buffer, its head and tail
          txBuffer, txHead, txTail,   \* serial_tx_buffer, its head and tail
          udrie,       \* UDRIE0: is the transmit interrupt enabled?
          resetFlag,   \* EXEC_RESET in sys_rt_exec_state
          pc,          \* where the main program is in this driver
          data,        \* its local copy of the byte being read or written
          headCopy,    \* its local copy of rxHead while emptying the ring
          delivered,   \* the byte serial_read returned last
          rxLost,      \* was the last arrival dropped, the ring not having
                       \* been read or emptied since?
          sent,        \* the byte written to UDR0 last
          drained      \* bytes sent since the main program stored its byte
                       \* and has not yet enabled the interrupt (0 or more)

rxVars == <<rxBuffer, rxHead, rxTail, delivered, rxLost, headCopy>>
txVars == <<txBuffer, txHead, txTail, udrie, sent, drained>>
vars == <<rxVars, txVars, resetFlag, pc, data>>

-----------------------------------------------------------------------------
(* Ring arithmetic, as the code writes it.                                 *)

NextSlotNoWrap(i, ring) == i + 1                          \* faulty variant
NextSlot(i, ring) == IF i + 1 = ring THEN 0 ELSE i + 1

RxFullNever == FALSE                                      \* faulty variant
RxFull == NextSlot(rxHead, RX_RING_BUFFER) = rxTail

TxFullNever == FALSE                                      \* faulty variant
TxFull == NextSlot(txHead, TX_RING_BUFFER) = txTail

\* SERIAL_UDRE has sent the last byte: its updated tail equals the head.
TxConcludedEarly ==                                       \* faulty variant
    NextSlot(NextSlot(txTail, TX_RING_BUFFER), TX_RING_BUFFER) = txHead
TxConcluded == NextSlot(txTail, TX_RING_BUFFER) = txHead

RxAvailable ==   \* serial_get_rx_buffer_available
    IF rxHead >= rxTail THEN RX_BUFFER_SIZE - (rxHead - rxTail)
                        ELSE (rxTail - rxHead) - 1

RxCount ==       \* serial_get_rx_buffer_count
    IF rxHead >= rxTail THEN rxHead - rxTail
                        ELSE RX_BUFFER_SIZE - (rxTail - rxHead)

TxCount ==       \* serial_get_tx_buffer_count
    IF txHead >= txTail THEN txHead - txTail
                        ELSE TX_RING_BUFFER - (txTail - txHead)

(* What the rings hold, read from tail to head: the abstract queues.       *)

Used(head, tail, ring) ==
    IF head >= tail THEN head - tail ELSE (ring + head) - tail

Slot(i, ring) == IF i >= ring THEN i - ring ELSE i

Contents(buffer, head, tail, ring) ==
    [i \in 1..Used(head, tail, ring) |-> buffer[Slot(tail + i - 1, ring)]]

RxQueue == Contents(rxBuffer, rxHead, rxTail, RX_RING_BUFFER)
TxQueue == Contents(txBuffer, txHead, txTail, TX_RING_BUFFER)

-----------------------------------------------------------------------------
Init ==
    /\ rxBuffer = [i \in 0..RX_BUFFER_SIZE |-> NoByte]
    /\ txBuffer = [i \in 0..TX_BUFFER_SIZE |-> NoByte]
    /\ rxHead = 0 /\ rxTail = 0 /\ txHead = 0 /\ txTail = 0
    /\ udrie = FALSE
    /\ resetFlag = FALSE
    /\ pc = "other"
    /\ data = NoByte
    /\ headCopy = 0
    /\ delivered = NoByte
    /\ rxLost = FALSE
    /\ sent = NoByte
    /\ drained = 0

-----------------------------------------------------------------------------
(* The main program.                                                       *)

\* serial_read: the ring is not empty (an empty ring changes nothing).
ReadCheck ==
    /\ pc = "other"
    /\ rxHead # rxTail
    /\ pc' = "readData"
    /\ UNCHANGED <<rxVars, txVars, resetFlag, data>>

ReadData ==
    /\ pc = "readData"
    /\ data' = rxBuffer[rxTail]
    /\ pc' = "readTail"
    /\ UNCHANGED <<rxVars, txVars, resetFlag>>

ReadTail ==
    /\ pc = "readTail"
    /\ rxTail' = NextSlot(rxTail, RX_RING_BUFFER)
    /\ delivered' = data
    /\ rxLost' = FALSE
    /\ pc' = "other"
    /\ data' = NoByte
    /\ UNCHANGED <<rxBuffer, rxHead, headCopy, txVars, resetFlag>>

\* main(): after an abort the realtime flags are cleared and the ring emptied.
FlushCopy ==
    /\ pc = "other"
    /\ resetFlag
    /\ resetFlag' = FALSE
    /\ headCopy' = rxHead
    /\ pc' = "flush"
    /\ UNCHANGED <<rxBuffer, rxHead, rxTail, delivered, rxLost, txVars, data>>

FlushStore ==
    /\ pc = "flush"
    /\ rxTail' = headCopy
    /\ rxLost' = FALSE
    /\ pc' = "other"
    /\ headCopy' = 0
    /\ UNCHANGED <<rxBuffer, rxHead, delivered, txVars, resetFlag, data>>

\* serial_write(b)
WriteCall(b) ==
    /\ pc = "other"
    /\ data' = b
    /\ pc' = "writeWait"
    /\ UNCHANGED <<rxVars, txVars, resetFlag>>

\* The ring is full and a reset is pending: give up, the byte is dropped.
WriteAbort ==
    /\ pc = "writeWait"
    /\ TxFull
    /\ resetFlag
    /\ pc' = "other"
    /\ data' = NoByte
    /\ UNCHANGED <<rxVars, txVars, resetFlag>>

WriteStore ==
    /\ pc = "writeWait"
    /\ ~TxFull
    /\ txBuffer' = [txBuffer EXCEPT ![txHead] = data]
    /\ txHead' = NextSlot(txHead, TX_RING_BUFFER)
    /\ drained' = 0
    /\ pc' = "writeEnable"
    /\ UNCHANGED <<rxVars, txTail, udrie, sent, resetFlag, data>>

WriteEnableForgotten ==                                   \* faulty variant
    /\ pc = "writeEnable"
    /\ pc' = "other"
    /\ UNCHANGED <<rxVars, txVars, resetFlag, data>>
WriteEnable ==
    /\ pc = "writeEnable"
    /\ udrie' = TRUE
    /\ drained' = 0
    /\ pc' = "other"
    /\ data' = NoByte
    /\ UNCHANGED <<rxVars, txBuffer, txHead, txTail, sent, resetFlag>>

-----------------------------------------------------------------------------
(* The interrupt handlers.                                                 *)

\* SERIAL_RX, the default branch: store the character unless the ring is full.
RxData(b) ==
    /\ IF ~RxFull
         THEN /\ rxBuffer' = [rxBuffer EXCEPT ![rxHead] = b]
              /\ rxHead' = NextSlot(rxHead, RX_RING_BUFFER)
         ELSE UNCHANGED <<rxBuffer, rxHead>>
    /\ rxLost' = RxFull
    /\ UNCHANGED <<rxTail, delivered, headCopy, txVars, resetFlag, pc, data>>

\* SERIAL_RX, CMD_RESET: picked off the stream, never stored.  What else
\* mc_reset does, and the other realtime commands, are in module Realtime.
RxReset ==
    /\ resetFlag' = TRUE
    /\ UNCHANGED <<rxVars, txVars, pc, data>>

\* The number of bytes that can leave between the head store and the enable
\* of the interrupt: the stretch is a few instructions, a character takes
\* 87 us at 115200 baud, so at most one unless other interrupts hold the main
\* program for longer than that.
InWindow == pc = "writeEnable"

\* SERIAL_UDRE: send the byte at the tail; disable the interrupt when the ring
\* has become empty.
Udre ==
    /\ udrie
    /\ (InWindow /\ ~LongInterrupt) => drained = 0
    /\ sent' = txBuffer[txTail]
    /\ txTail' = NextSlot(txTail, TX_RING_BUFFER)
    /\ udrie' = ~TxConcluded
    /\ drained' = IF InWindow /\ drained = 0 THEN 1 ELSE drained
    /\ UNCHANGED <<rxVars, txBuffer, txHead, resetFlag, pc, data>>

-----------------------------------------------------------------------------
Read == ReadCheck \/ ReadData \/ ReadTail
Reinit == FlushCopy \/ FlushStore
FinishWrite == WriteAbort \/ WriteStore \/ WriteEnable
Main == Read \/ Reinit \/ FinishWrite \/ \E b \in Byte : WriteCall(b)
Interrupts == RxReset \/ Udre \/ \E b \in Byte : RxData(b)

Next == Main \/ Interrupts

Spec == Init /\ [][Next]_vars

\* A call that has begun goes on, and an enabled interrupt is served.  Nobody
\* is obliged to send characters or to call the driver.
Fairness == /\ WF_vars(ReadData \/ ReadTail \/ FlushStore \/ FinishWrite)
            /\ WF_vars(Udre)

FairSpec == Spec /\ Fairness

-----------------------------------------------------------------------------
TypeOK ==
    /\ rxBuffer \in [0..RX_BUFFER_SIZE -> Byte \cup {NoByte}]
    /\ txBuffer \in [0..TX_BUFFER_SIZE -> Byte \cup {NoByte}]
    /\ rxHead \in 0..RX_BUFFER_SIZE /\ rxTail \in 0..RX_BUFFER_SIZE
    /\ txHead \in 0..TX_BUFFER_SIZE /\ txTail \in 0..TX_BUFFER_SIZE
    /\ udrie \in BOOLEAN
    /\ resetFlag \in BOOLEAN
    /\ pc \in {"other", "readData", "readTail", "flush", "writeWait", "writeEnable"}
    /\ data \in Byte \cup {NoByte}
    /\ headCopy \in 0..RX_BUFFER_SIZE
    /\ delivered \in Byte \cup {NoByte}
    /\ rxLost \in BOOLEAN
    /\ sent \in Byte \cup {NoByte}
    /\ drained \in 0..1

\* The receive ring is a bounded FIFO: serial_read returns the characters in
\* the order they arrived, each once, none of them overwritten by SERIAL_RX
\* while the main program is between reading the slot and storing the tail;
\* only the reset discards characters, and only the oldest ones.
RxFifo == INSTANCE ByteQueue WITH Capacity <- RX_BUFFER_SIZE,
                                  queue <- RxQueue, out <- delivered
RxIsFifo == RxFifo!ResettableSpec

\* The transmit ring is a bounded FIFO: the bytes leave in the order
\* serial_write stored them, each once, whenever the handler is served.
TxFifo == INSTANCE ByteQueue WITH Capacity <- TX_BUFFER_SIZE,
                                  queue <- TxQueue, out <- sent
TxIsFifo == TxFifo!LosslessSpec

\* A character is dropped only when the ring holds RX_BUFFER_SIZE of them: the
\* contract the host's character counting is built on.
RxDropsOnlyWhenFull == rxLost => Len(RxQueue) = RX_BUFFER_SIZE

\* serial_get_rx_buffer_available is what a status report tells the host: it
\* is exactly the room left, also when the ring wraps around.
RxAvailableExact == RxAvailable = RX_BUFFER_SIZE - Len(RxQueue)

\* serial_get_tx_buffer_count is the number of bytes in the transmit ring.
TxCountExact == TxCount = Len(TxQueue)

\* serial.c:45 "Returns the number of bytes used in the RX serial buffer" of
\* serial_get_rx_buffer_count.
RxCountExact == RxCount = Len(RxQueue)

\* No byte is left behind: outside the few instructions that follow a store,
\* a byte in the transmit ring has the interrupt enabled to send it.
TxArmed == TxQueue # <<>> /\ ~InWindow => udrie

\* serial.c:120 "Turn off Data Register Empty Interrupt to stop tx-streaming
\* if this concludes the transfer": an enabled interrupt has a byte to send,
\* or else SERIAL_UDRE sends a stale slot and moves the tail past the head.
TxNeverSendsStale == udrie => TxQueue # <<>>

\* All of that together: what is dropped, reported and sent is what the rings hold.
RingsSound ==
    /\ RxDropsOnlyWhenFull /\ RxAvailableExact
    /\ TxArmed /\ TxNeverSendsStale /\ TxCountExact

\* The main program never stays in serial_write: the ring drains, or a reset
\* lets it go.
WriteReturns == pc = "writeWait" ~> pc = "other"
=============================================================================
