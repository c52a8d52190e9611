------------------------------ MODULE ByteQueue ------------------------------
(***************************************************************************)
(* What a serial ring buffer of the firmware promises to its two users: a  *)
(* bounded first-in first-out queue of bytes.  One side puts bytes, the    *)
(* other takes them in order; the owner of the receive queue may also      *)
(* discard a prefix of it when the machine is reset.                       *)
(*                                                                         *)
(* grbl/serial.h states the promise; module Serial shows that the two      *)
(* rings of grbl/serial.c keep it.                                         *)
(***************************************************************************)
EXTENDS Naturals, Sequences

CONSTANTS Byte,        \* the bytes that travel through the queue
          Capacity,    \* how many bytes it holds, at least one
          NoByte       \* "nothing has been taken yet"

VARIABLES queue,       \* the bytes in the queue, oldest first
          out          \* the byte taken last

queueVars == <<queue, out>>

QueueTypeOK ==
    /\ queue \in Seq(Byte)
    /\ Len(queue) <= Capacity
    /\ out \in Byte \cup {NoByte}

QueueInit == queue = <<>> /\ out = NoByte

Put(b) ==
    /\ Len(queue) < Capacity
    /\ queue' = Append(queue, b)
    /\ out' = out

Take ==
    /\ queue # <<>>
    /\ out' = queue[1]
    /\ queue' = Tail(queue)

\* A reset throws away the n oldest bytes (all of them, unless more arrived
\* while the reset was being carried out).
Flush(n) ==
    /\ n \in 1..Len(queue)
    /\ queue' = SubSeq(queue, n + 1, Len(queue))
    /\ out' = out

Lossless == Take \/ \E b \in Byte : Put(b)
Resettable == Lossless \/ \E n \in 1..Capacity : Flush(n)

LosslessSpec == QueueInit /\ [][Lossless]_queueVars
ResettableSpec == QueueInit /\ [][Resettable]_queueVars
=============================================================================
