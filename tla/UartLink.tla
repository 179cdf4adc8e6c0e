------------------------------ MODULE UartLink ------------------------------
(***************************************************************************)
(* The serial link from slave_recv to master_recv (app_uart.c): the UART   *)
(* driver's interrupt, its ring buffer and event queue, and the            *)
(* uart_event_task that finds frames in what one event announces.          *)
(*                                                                         *)
(* A 32-byte frame is two halves, the one with the start marker and the id *)
(* and the one with the end marker: the least that lets an event boundary, *)
(* a flush or an overflow cut a frame. The scan looks at the markers only, *)
(* so it takes a head followed by a tail for a frame, whichever frames     *)
(* they are of. The bytes of an event are history: the code has the size.  *)
(***************************************************************************)
EXTENDS Naturals, Sequences, FiniteSets

CONSTANTS
  MaxFrames,  \* bound: frames the slave writes
  FifoCap,    \* halves the hardware FIFO holds (128 bytes)
  RingCap,    \* halves the driver's ring buffer holds (2 * BUF_SIZE bytes)
  EventCap    \* length of uart0_queue (20)

ASSUME LinkAssumption ==
  /\ MaxFrames \in Nat /\ FifoCap \in Nat \ {0} /\ EventCap \in Nat \ {0}
  /\ RingCap \in Nat /\ FifoCap <= RingCap

VARIABLES
  arrived,      \* halves that came over the line so far
  fifo,         \* halves in the hardware FIFO
  ring,         \* halves in the driver's ring buffer
  full,         \* the interrupt could not empty the FIFO into the ring
  uart0_queue,  \* events for the task
  event,        \* the event the task works on
  flushed,      \* the task is between uart_flush_input and xQueueReset
  got,          \* history: the last frame put in uart_recv_queue, and how many
  silent        \* history: an overflow was never announced since the last flush

vars == <<arrived, fifo, ring, full, uart0_queue, event, flushed, got, silent>>

-----------------------------------------------------------------------------
Half == [frame : Nat \ {0}, part : {"head", "tail"}]

(* The halves come in the order the slave's task writes the frames. *)
NextHalf == [frame |-> arrived \div 2 + 1,
             part  |-> IF arrived % 2 = 0 THEN "head" ELSE "tail"]

Event == [type : {"UART_DATA", "UART_FIFO_OVF", "UART_BUFFER_FULL"}, bytes : Seq(Half)]
NoEvent == [type |-> "none", bytes |-> <<>>]
Data(halves) == [type |-> "UART_DATA", bytes |-> halves]
FifoOverflow == [type |-> "UART_FIFO_OVF", bytes |-> <<>>]
BufferFull == [type |-> "UART_BUFFER_FULL", bytes |-> <<>>]

Init ==
  /\ arrived = 0
  /\ fifo = <<>> /\ ring = <<>> /\ full = FALSE
  /\ uart0_queue = <<>> /\ event = NoEvent /\ flushed = FALSE
  /\ got = [head |-> 0, tail |-> 0, count |-> 0]
  /\ silent = FALSE

-----------------------------------------------------------------------------
(* The interrupt reports e; a full event queue discards the report. *)
Report(e) ==
  \/ /\ Len(uart0_queue) < EventCap
     /\ uart0_queue' = Append(uart0_queue, e)
     /\ UNCHANGED silent
  \/ /\ Len(uart0_queue) >= EventCap
     /\ silent' = (silent \/ e = FifoOverflow)
     /\ UNCHANGED uart0_queue

(* A half of a frame reaches the FIFO, or finds it full: the FIFO is reset. *)
Arrive ==
  /\ arrived < 2 * MaxFrames
  /\ arrived' = arrived + 1
  /\ \/ /\ Len(fifo) < FifoCap
        /\ fifo' = Append(fifo, NextHalf)
        /\ UNCHANGED <<uart0_queue, silent>>
     \/ /\ Len(fifo) = FifoCap
        /\ fifo' = <<>>
        /\ Report(FifoOverflow)
  /\ UNCHANGED <<ring, full, event, flushed, got>>

(* The interrupt empties the FIFO into the ring and reports the bytes. The *)
(* variant RoomAssumed never finds the ring full.                          *)
RoomAssumed == TRUE
RingHasRoom == Len(ring) + Len(fifo) <= RingCap

Interrupt ==
  /\ fifo # <<>> /\ ~full
  /\ \/ /\ RingHasRoom
        /\ ring' = ring \o fifo /\ fifo' = <<>>
        /\ Report(Data(fifo))
        /\ UNCHANGED full
     \/ /\ ~RingHasRoom
        /\ full' = TRUE
        /\ Report(BufferFull)
        /\ UNCHANGED <<ring, fifo>>
  /\ UNCHANGED <<arrived, event, flushed, got>>

(* The ring has room again: the driver moves the bytes and reports nothing. *)
Restock ==
  /\ full /\ RingHasRoom
  /\ ring' = ring \o fifo /\ fifo' = <<>> /\ full' = FALSE
  /\ UNCHANGED <<arrived, uart0_queue, event, flushed, got, silent>>

-----------------------------------------------------------------------------
(* uart_event_task *)

(* xQueueReceive(uart0_queue, &event, portMAX_DELAY) *)
ReceiveEvent ==
  /\ event = NoEvent
  /\ uart0_queue # <<>>
  /\ event' = Head(uart0_queue)
  /\ uart0_queue' = Tail(uart0_queue)
  /\ UNCHANGED <<arrived, fifo, ring, full, flushed, got, silent>>

(* Where the scan finds the markers of a frame in a chunk of bytes. *)
Starts(chunk) == {i \in 1 .. Len(chunk) - 1 : chunk[i].part = "head" /\ chunk[i + 1].part = "tail"}

(* The scan covers event.size bytes; its variant covers what the ring holds. *)
ChunkAll == ring
Chunk == SubSeq(ring, 1, Len(event.bytes))

(* Those of the frames found for which uart_recv_queue has room are sent. *)
Deliver(found) ==
  \E i \in found :
    /\ \A j \in found : j <= i
    /\ got' = [head |-> Chunk[i].frame, tail |-> Chunk[i + 1].frame,
               count |-> got.count + Cardinality(found)]

(* UART_DATA: read event.size bytes, waiting for them if need be, and send *)
(* the frames found in them.                                               *)
HandleData ==
  /\ event.type = "UART_DATA"
  /\ Len(ring) >= Len(event.bytes)
  /\ ring' = SubSeq(ring, Len(event.bytes) + 1, Len(ring))
  /\ \/ UNCHANGED got
     \/ \E found \in SUBSET Starts(Chunk) : Deliver(found)
  /\ event' = NoEvent
  /\ UNCHANGED <<arrived, fifo, full, uart0_queue, flushed, silent>>

(* Variants of Flush and ResetQueue below: the ring is not emptied, and the *)
(* events are kept.                                                         *)
FlushFifoOnly ==
  /\ event \in {FifoOverflow, BufferFull} /\ ~flushed
  /\ flushed' = TRUE
  /\ fifo' = <<>> /\ full' = FALSE
  /\ silent' = FALSE
  /\ UNCHANGED <<arrived, ring, uart0_queue, event, got>>
ResetSkipped ==
  /\ flushed
  /\ flushed' = FALSE
  /\ event' = NoEvent
  /\ UNCHANGED <<arrived, fifo, ring, full, uart0_queue, got, silent>>

(* UART_FIFO_OVF, UART_BUFFER_FULL: first the bytes are thrown away ... *)
Flush ==
  /\ event \in {FifoOverflow, BufferFull} /\ ~flushed
  /\ flushed' = TRUE
  /\ fifo' = <<>> /\ ring' = <<>> /\ full' = FALSE
  /\ silent' = FALSE
  /\ UNCHANGED <<arrived, uart0_queue, event, got>>

(* ... then the events, those of bytes that came in between included. *)
ResetQueue ==
  /\ flushed
  /\ flushed' = FALSE
  /\ silent' = (silent \/ \E i \in DOMAIN uart0_queue : uart0_queue[i] = FifoOverflow)
  /\ uart0_queue' = <<>>
  /\ event' = NoEvent
  /\ UNCHANGED <<arrived, fifo, ring, full, got>>

Next ==
  \/ Arrive
  \/ Interrupt
  \/ Restock
  \/ ReceiveEvent
  \/ HandleData
  \/ Flush
  \/ ResetQueue

Spec == Init /\ [][Next]_vars

-----------------------------------------------------------------------------
TypeOK ==
  /\ arrived \in 0 .. 2 * MaxFrames
  /\ fifo \in Seq(Half) /\ Len(fifo) <= FifoCap
  /\ ring \in Seq(Half) /\ Len(ring) <= RingCap
  /\ uart0_queue \in Seq(Event) /\ Len(uart0_queue) <= EventCap
  /\ event \in Event \cup {NoEvent}
  /\ full \in BOOLEAN /\ flushed \in BOOLEAN /\ silent \in BOOLEAN
  /\ got \in [head : Nat, tail : Nat, count : Nat]

(* uart_read_bytes is given an endless timeout: the task would hang with  *)
(* the events piling up behind it if fewer bytes were there than the event *)
(* announced. They are there, whatever was flushed, reset or discarded.    *)
ReadNeverBlocks == event.type = "UART_DATA" => Len(ring) >= Len(event.bytes)

(* A frame with the beginning of one and the end of another is only built  *)
(* while an overflow is outstanding of which no event tells: it was        *)
(* discarded by a full event queue or by the xQueueReset of an earlier one.*)
TornOnlySilently == [][got' # got /\ got'.head # got'.tail => silent]_vars

(* The link implements the abstract one: frames are lost but neither      *)
(* repeated, reordered nor made up, across cuts, flushes and overflows.    *)
Link == INSTANCE LossyLink WITH sent <- (arrived + 1) \div 2
InOrderLink == Link!Spec
=============================================================================
