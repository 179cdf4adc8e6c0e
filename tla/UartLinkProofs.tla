--------------------------- MODULE UartLinkProofs ---------------------------
(***************************************************************************)
(* Proofs about UartLink for every size of the FIFO, the ring and the      *)
(* event queue: types, that uart_read_bytes finds the bytes an event       *)
(* announced, what a torn frame tells, and the refinement of LossyLink.    *)
(***************************************************************************)
EXTENDS UartLink, FiniteSetTheorems, SequenceTheorems, TLAPS

(* The halves on their way, oldest first, and the place of a half in what  *)
(* the slave wrote.                                                        *)
Line == ring \o fifo
Index(h) == IF h.part = "head" THEN 2 * h.frame - 1 ELSE 2 * h.frame

(* The halves on their way are in the order they were written, and newer   *)
(* than the frame delivered last.                                          *)
Ordered ==
  /\ \A i, j \in 1 .. Len(Line) : i < j => Index(Line[i]) < Index(Line[j])
  /\ \A i \in 1 .. Len(Line) : 2 * got.tail < Index(Line[i]) /\ Index(Line[i]) <= arrived
  /\ 2 * got.tail <= arrived

(* Events without data announce nothing, and only a flush is in two steps. *)
Bare(e) == e.type # "UART_DATA" => e.bytes = <<>>
EventsBare ==
  /\ Bare(event) /\ \A i \in 1 .. Len(uart0_queue) : Bare(uart0_queue[i])
  /\ flushed => event \in {FifoOverflow, BufferFull}

(* cuts[i] is where the bytes end that event e and the first i events of   *)
(* queue q announce: they follow one another and stay within ring r.       *)
Announced(cuts, e, q, r) ==
  /\ cuts[0] = Len(e.bytes)
  /\ \A i \in 1 .. Len(q) : cuts[i] = cuts[i - 1] + Len(q[i].bytes)
  /\ \A i, j \in 0 .. Len(q) : i <= j => cuts[i] <= cuts[j]
  /\ cuts[Len(q)] <= Len(r)

(* Behind the p-th half on the line halves were lost. *)
Gap(p) == IF p < Len(Line) THEN Index(Line[p]) + 1 # Index(Line[p + 1])
                           ELSE Index(Line[p]) # arrived

(* An event tells of a loss before the bytes behind it are announced. *)
Told(p, cuts) ==
  \/ silent
  \/ event = FifoOverflow /\ ~flushed
  \/ \E k \in 1 .. Len(uart0_queue) : uart0_queue[k] = FifoOverflow /\ (flushed \/ cuts[k] <= p)

Accounted ==
  \E cuts \in [0 .. Len(uart0_queue) -> 0 .. RingCap] :
    /\ flushed \/ Announced(cuts, event, uart0_queue, ring)
    /\ \A p \in 1 .. Len(Line) : Gap(p) => Told(p, cuts)

IInv == TypeOK /\ EventsBare /\ Ordered /\ Accounted

USE LinkAssumption

-----------------------------------------------------------------------------
(* The half that comes next is the next one in the order of writing. *)
LEMMA NextHalfIndex ==
  ASSUME arrived \in Nat
  PROVE  NextHalf \in Half /\ Index(NextHalf) = arrived + 1
<1>1. CASE arrived % 2 = 0
  BY <1>1 DEF NextHalf, Index, Half
<1>2. CASE arrived % 2 # 0
  BY <1>2 DEF NextHalf, Index, Half
<1> QED
  BY <1>1, <1>2

(* Places are numbers from 1; a head has an odd one and a tail an even one. *)
LEMMA IndexType ==
  ASSUME NEW h \in Half
  PROVE  /\ Index(h) \in Nat \ {0} /\ h.frame \in Nat \ {0}
         /\ h.part = "head" => Index(h) = 2 * h.frame - 1
         /\ h.part = "tail" => Index(h) = 2 * h.frame
BY DEF Index, Half

(* The halves on the line, place by place: first the ring, then the FIFO. *)
LEMMA LineHalves ==
  ASSUME NEW r \in Seq(Half), NEW f \in Seq(Half)
  PROVE  /\ r \o f \in Seq(Half) /\ Len(r \o f) = Len(r) + Len(f)
         /\ \A i \in 1 .. Len(r) : (r \o f)[i] = r[i]
         /\ \A i \in 1 .. Len(f) : (r \o f)[Len(r) + i] = f[i]
         /\ \A i \in 1 .. Len(r \o f) : (r \o f)[i] \in Half
OBVIOUS

(* What the interrupt's report leaves in the event queue. *)
LEMMA ReportType ==
  ASSUME NEW e \in Event, Report(e), uart0_queue \in Seq(Event), silent \in BOOLEAN,
         Len(uart0_queue) <= EventCap
  PROVE  uart0_queue' \in Seq(Event) /\ Len(uart0_queue') <= EventCap /\ silent' \in BOOLEAN
<1>1. uart0_queue' \in Seq(Event) /\ Len(uart0_queue') <= EventCap
  BY DEF Report
<1>2. silent' \in BOOLEAN
  BY Zenon DEF Report
<1> QED
  BY <1>1, <1>2

(* The reports are events. *)
LEMMA ReportsAreEvents ==
  /\ FifoOverflow \in Event /\ BufferFull \in Event
  /\ \A halves \in Seq(Half) : Data(halves) \in Event
BY DEF FifoOverflow, BufferFull, Data, Event

(* Every step keeps the types. *)
LEMMA TypeStep ==
  ASSUME TypeOK, [Next]_vars
  PROVE  TypeOK'
<1> USE DEF TypeOK
<1>1. CASE Arrive
  <2>1. NextHalf \in Half
    BY NextHalfIndex
  <2>2. uart0_queue' \in Seq(Event) /\ Len(uart0_queue') <= EventCap /\ silent' \in BOOLEAN
    BY <1>1, ReportType, ReportsAreEvents DEF Arrive
  <2>3. fifo' \in Seq(Half) /\ Len(fifo') <= FifoCap
    <3>1. /\ Append(fifo, NextHalf) \in Seq(Half) /\ Len(Append(fifo, NextHalf)) = Len(fifo) + 1
          /\ <<>> \in Seq(Half) /\ Len(<<>>) = 0 /\ Len(fifo) \in Nat
      BY <2>1
    <3>2. \/ Len(fifo) < FifoCap /\ fifo' = Append(fifo, NextHalf)
          \/ fifo' = <<>>
      BY <1>1, Zenon DEF Arrive
    <3>3. CASE Len(fifo) < FifoCap /\ fifo' = Append(fifo, NextHalf)
      BY <3>1, <3>3
    <3>4. CASE fifo' = <<>>
      BY <3>1, <3>4
    <3> QED
      BY <3>2, <3>3, <3>4
  <2>4. full' \in BOOLEAN /\ flushed' \in BOOLEAN
    BY <1>1, Zenon DEF Arrive
  <2>5. arrived' \in 0 .. 2 * MaxFrames
    BY <1>1 DEF Arrive
  <2> QED
    BY <1>1, <2>2, <2>3, <2>4, <2>5 DEF Arrive
<1>2. CASE Interrupt
  <2>1. uart0_queue' \in Seq(Event) /\ Len(uart0_queue') <= EventCap /\ silent' \in BOOLEAN
    BY <1>2, ReportType, ReportsAreEvents DEF Interrupt
  <2>2. /\ fifo' \in Seq(Half) /\ Len(fifo') <= FifoCap
        /\ ring' \in Seq(Half) /\ Len(ring') <= RingCap
    <3>1. /\ ring \o fifo \in Seq(Half) /\ Len(ring \o fifo) = Len(ring) + Len(fifo)
          /\ <<>> \in Seq(Half) /\ Len(<<>>) = 0
      OBVIOUS
    <3> QED
      <4>1. \/ RingHasRoom /\ ring' = ring \o fifo /\ fifo' = <<>>
            \/ ring' = ring /\ fifo' = fifo
        BY <1>2, Zenon DEF Interrupt
      <4>2. CASE RingHasRoom /\ ring' = ring \o fifo /\ fifo' = <<>>
        BY <3>1, <4>2 DEF RingHasRoom
      <4>3. CASE ring' = ring /\ fifo' = fifo
        BY <4>3
      <4> QED
        BY <4>1, <4>2, <4>3
  <2>3. full' \in BOOLEAN /\ flushed' \in BOOLEAN
    BY <1>2, Zenon DEF Interrupt
  <2> QED
    BY <1>2, <2>1, <2>2, <2>3 DEF Interrupt
<1>3. CASE Restock
  <2>1. /\ ring \o fifo \in Seq(Half) /\ Len(ring \o fifo) = Len(ring) + Len(fifo)
        /\ <<>> \in Seq(Half) /\ Len(<<>>) = 0
    OBVIOUS
  <2>2. /\ fifo' \in Seq(Half) /\ Len(fifo') <= FifoCap
        /\ ring' \in Seq(Half) /\ Len(ring') <= RingCap
    BY <1>3, <2>1 DEF Restock, RingHasRoom
  <2>3. full' \in BOOLEAN /\ flushed' \in BOOLEAN /\ silent' \in BOOLEAN
    BY <1>3, Zenon DEF Restock
  <2> QED
    BY <1>3, <2>2, <2>3 DEF Restock
<1>4. CASE ReceiveEvent
  <2>1. /\ Head(uart0_queue) \in Event /\ Tail(uart0_queue) \in Seq(Event)
        /\ Len(Tail(uart0_queue)) <= EventCap
    BY <1>4 DEF ReceiveEvent
  <2> QED
    BY <1>4, <2>1 DEF ReceiveEvent
<1>5. CASE HandleData
  <2>1. event \in Event /\ event.bytes \in Seq(Half)
    BY <1>5 DEF HandleData, NoEvent, Event
  <2>2. ring' \in Seq(Half) /\ Len(ring') <= RingCap
    BY <1>5, <2>1 DEF HandleData
  <2>3. ASSUME NEW found \in SUBSET Starts(Chunk), Deliver(found)
        PROVE  got' \in [head : Nat, tail : Nat, count : Nat]
    <3>1. Chunk \in Seq(Half)
      BY <2>1, <1>5 DEF Chunk, HandleData
    <3>2. IsFiniteSet(found)
      <4>1. found \subseteq 1 .. Len(Chunk) - 1
        BY DEF Starts
      <4>2. IsFiniteSet(1 .. Len(Chunk) - 1)
        BY <3>1, FS_Interval
      <4> QED
        BY <4>1, <4>2, FS_Subset
    <3>3. Cardinality(found) \in Nat
      BY <3>2, FS_CardinalityType
    <3>4. PICK i \in found : got' = [head |-> Chunk[i].frame, tail |-> Chunk[i + 1].frame,
                                     count |-> got.count + Cardinality(found)]
      BY <2>3 DEF Deliver
    <3>5. Chunk[i] \in Half /\ Chunk[i + 1] \in Half
      BY <3>1 DEF Starts
    <3> QED
      BY <3>3, <3>4, <3>5, SMTT(60) DEF Half
  <2>4. got' \in [head : Nat, tail : Nat, count : Nat]
    BY <1>5, <2>3 DEF HandleData
  <2> QED
    BY <1>5, <2>2, <2>4 DEF HandleData
<1>6. CASE Flush
  <2>1. fifo' \in Seq(Half) /\ Len(fifo') <= FifoCap /\ ring' \in Seq(Half) /\ Len(ring') <= RingCap
    BY <1>6 DEF Flush
  <2>2. full' \in BOOLEAN /\ flushed' \in BOOLEAN /\ silent' \in BOOLEAN
    BY <1>6, Zenon DEF Flush
  <2> QED
    BY <1>6, <2>1, <2>2 DEF Flush
<1>7. CASE ResetQueue
  <2>1. flushed' \in BOOLEAN /\ silent' \in BOOLEAN /\ full' \in BOOLEAN
    BY <1>7, Zenon DEF ResetQueue
  <2>2. uart0_queue' \in Seq(Event) /\ Len(uart0_queue') <= EventCap
    BY <1>7 DEF ResetQueue
  <2> QED
    BY <1>7, <2>1, <2>2 DEF ResetQueue
<1>8. CASE UNCHANGED vars
  BY <1>8 DEF vars
<1> QED
  BY <1>1, <1>2, <1>3, <1>4, <1>5, <1>6, <1>7, <1>8 DEF Next

-----------------------------------------------------------------------------
(* The interrupt and the driver move halves, the line stays what it is. *)
LEMMA LineMoved ==
  ASSUME TypeOK, Interrupt \/ Restock
  PROVE  Line' = Line /\ arrived' = arrived /\ got' = got
<1>1. (ring \o fifo) \o <<>> = ring \o fifo
  BY LineHalves, ConcatEmptySeq DEF TypeOK
<1>2. \/ ring' = ring \o fifo /\ fifo' = <<>>
      \/ ring' = ring /\ fifo' = fifo
  BY Zenon DEF Interrupt, Restock
<1>3. Line' = Line
  BY <1>1, <1>2, Zenon DEF Line
<1> QED
  BY <1>3 DEF Interrupt, Restock

(* A half that arrives is added to the line, or the FIFO's are lost. *)
LEMMA LineArrives ==
  ASSUME TypeOK, Arrive
  PROVE  /\ arrived' = arrived + 1 /\ got' = got
         /\ \/ Line' = Append(Line, NextHalf) /\ Len(Line') = Len(Line) + 1
            \/ Line' = ring /\ Len(Line') <= Len(Line)
         /\ \A i \in 1 .. Len(Line') : i <= Len(Line) => Line'[i] = Line[i]
<1>1. NextHalf \in Half /\ Line \in Seq(Half) /\ ring \in Seq(Half) /\ fifo \in Seq(Half)
  BY NextHalfIndex, LineHalves DEF TypeOK, Line
<1>2. ring' = ring /\ arrived' = arrived + 1 /\ got' = got
  BY DEF Arrive
<1>3. CASE fifo' = Append(fifo, NextHalf)
  <2>1. ring \o Append(fifo, NextHalf) = Append(ring \o fifo, NextHalf)
    BY <1>1
  <2>2. Line' = Append(Line, NextHalf)
    BY <1>2, <1>3, <2>1, Zenon DEF Line
  <2> QED
    BY <1>1, <1>2, <2>2
<1>4. CASE fifo' = <<>>
  <2>1. Line' = ring
    BY <1>1, <1>2, <1>4, ConcatEmptySeq DEF Line
  <2>2. Len(ring) <= Len(Line) /\ \A i \in 1 .. Len(ring) : ring[i] = Line[i]
    BY <1>1, LineHalves DEF Line
  <2> QED
    BY <1>1, <1>2, <2>1, <2>2
<1> QED
  BY <1>3, <1>4, Zenon DEF Arrive

(* Handling an event takes the halves it announced off the line. *)
LEMMA LineHandled ==
  ASSUME TypeOK, HandleData
  PROVE  /\ arrived' = arrived /\ event \in Event
         /\ Len(event.bytes) \in 0 .. Len(ring) /\ Len(ring) <= Len(Line)
         /\ Len(ring') = Len(ring) - Len(event.bytes)
         /\ Len(Line') = Len(Line) - Len(event.bytes)
         /\ \A i \in 1 .. Len(Line') : Line'[i] = Line[i + Len(event.bytes)]
         /\ Len(Chunk) = Len(event.bytes)
         /\ \A i \in 1 .. Len(Chunk) : Chunk[i] = Line[i]
<1> DEFINE n == Len(event.bytes)
<1>1. event \in Event /\ n \in 0 .. Len(ring) /\ arrived' = arrived /\ fifo' = fifo
  BY DEF TypeOK, HandleData, Event, NoEvent
<1>2. ring \in Seq(Half) /\ fifo \in Seq(Half)
  BY DEF TypeOK
<1> HIDE DEF n
<1>3. ring' = SubSeq(ring, n + 1, Len(ring)) /\ Chunk = SubSeq(ring, 1, n)
  BY DEF HandleData, Chunk, n
<1>4. /\ ring' \in Seq(Half) /\ Len(ring') = Len(ring) - n
      /\ \A i \in 1 .. Len(ring') : ring'[i] = ring[i + n]
  BY <1>1, <1>2, <1>3
<1>5. Len(Chunk) = n /\ \A i \in 1 .. n : Chunk[i] = ring[i]
  BY <1>1, <1>2, <1>3
<1>6. /\ Len(Line) = Len(ring) + Len(fifo)
      /\ \A i \in 1 .. Len(ring) : Line[i] = ring[i]
      /\ \A i \in 1 .. Len(fifo) : Line[Len(ring) + i] = fifo[i]
  BY <1>2, LineHalves DEF Line
<1>7. /\ Len(Line') = Len(ring') + Len(fifo)
      /\ \A i \in 1 .. Len(ring') : Line'[i] = ring'[i]
      /\ \A i \in 1 .. Len(fifo) : Line'[Len(ring') + i] = fifo[i]
  <2>1. Line' = ring' \o fifo
    BY <1>1, Zenon DEF Line
  <2>2. /\ Len(ring' \o fifo) = Len(ring') + Len(fifo)
        /\ \A i \in 1 .. Len(ring') : (ring' \o fifo)[i] = ring'[i]
        /\ \A i \in 1 .. Len(fifo) : (ring' \o fifo)[Len(ring') + i] = fifo[i]
    BY <1>2, <1>4, LineHalves, Zenon
  <2> QED
    BY <2>1, <2>2, Zenon
<1>8. ASSUME NEW i \in 1 .. Len(Line') PROVE Line'[i] = Line[i + n]
  <2>1. CASE i <= Len(ring')
    <3>1. i \in 1 .. Len(ring')
      BY <1>4, <2>1
    <3>2. i + n \in 1 .. Len(ring)
      BY <1>1, <1>4, <3>1
    <3>3. Line'[i] = ring'[i] /\ ring'[i] = ring[i + n] /\ Line[i + n] = ring[i + n]
      BY <1>4, <1>6, <1>7, <3>1, <3>2, Zenon
    <3> QED
      BY <3>3, Zenon
  <2>2. CASE i > Len(ring')
    <3>1. i - Len(ring') \in 1 .. Len(fifo) /\ i + n = Len(ring) + (i - Len(ring'))
      BY <1>1, <1>2, <1>4, <1>7, <2>2
    <3>2. /\ Line'[Len(ring') + (i - Len(ring'))] = fifo[i - Len(ring')]
          /\ Line[Len(ring) + (i - Len(ring'))] = fifo[i - Len(ring')]
      BY <1>6, <1>7, <3>1
    <3>3. Len(ring') + (i - Len(ring')) = i
      BY <1>4
    <3> QED
      BY <3>1, <3>2, <3>3
  <2> QED
    BY <1>4, <2>1, <2>2
<1>9. Len(ring) <= Len(Line) /\ Len(Line') = Len(Line) - n
  BY <1>1, <1>2, <1>4, <1>6, <1>7
<1> QED
  BY <1>1, <1>4, <1>5, <1>6, <1>8, <1>9 DEF n

-----------------------------------------------------------------------------
(* The frame delivered is made of a head and a tail that were on the line, *)
(* the tail right behind the head, and all others found are before them.   *)
LEMMA Delivered ==
  ASSUME TypeOK, HandleData, NEW found \in SUBSET Starts(Chunk), Deliver(found)
  PROVE  \E i \in found :
           /\ \A j \in found : j <= i
           /\ i \in 1 .. Len(event.bytes) - 1 /\ i + 1 \in 1 .. Len(Line) /\ i \in 1 .. Len(Line)
           /\ Line[i].part = "head" /\ Line[i + 1].part = "tail"
           /\ got'.head = Line[i].frame /\ got'.tail = Line[i + 1].frame
           /\ got'.count = got.count + Cardinality(found)
           /\ got' = [head |-> got'.head, tail |-> got'.tail, count |-> got'.count]
<1>1. PICK i \in found : /\ \A j \in found : j <= i
                         /\ got' = [head |-> Chunk[i].frame, tail |-> Chunk[i + 1].frame,
                                    count |-> got.count + Cardinality(found)]
  BY DEF Deliver
<1>2. /\ Len(Chunk) = Len(event.bytes) /\ \A k \in 1 .. Len(Chunk) : Chunk[k] = Line[k]
      /\ Len(event.bytes) \in Nat /\ Len(ring) \in Nat /\ Len(Line) \in Nat
      /\ Len(event.bytes) <= Len(ring) /\ Len(ring) <= Len(Line)
  <2>1. Len(ring) \in Nat /\ Len(Line) \in Nat
    BY LineHalves DEF TypeOK, Line
  <2> QED
    BY <2>1, LineHandled
<1>3. i \in 1 .. Len(Chunk) - 1 /\ Chunk[i].part = "head" /\ Chunk[i + 1].part = "tail"
  BY DEF Starts
<1>4. i \in 1 .. Len(Chunk) /\ i + 1 \in 1 .. Len(Chunk)
  BY <1>2, <1>3
<1>5. Chunk[i] = Line[i] /\ Chunk[i + 1] = Line[i + 1]
  BY <1>2, <1>4
<1>6. i + 1 \in 1 .. Len(Line) /\ i \in 1 .. Len(Line)
  BY <1>2, <1>4
<1> QED
  BY <1>1, <1>2, <1>3, <1>5, <1>6

(* The halves on the line stay in order and newer than what was delivered. *)
LEMMA OrderedStep ==
  ASSUME TypeOK, TypeOK', Ordered, [Next]_vars
  PROVE  Ordered'
<1>0. /\ Line \in Seq(Half) /\ Len(Line) \in Nat /\ arrived \in Nat /\ got.tail \in Nat
      /\ \A i \in 1 .. Len(Line) : Line[i] \in Half
  BY LineHalves, SMTT(60) DEF TypeOK, Line
<1>1. \A i \in 1 .. Len(Line) : Index(Line[i]) \in Nat
  BY <1>0, IndexType
<1>2. CASE UNCHANGED <<Line, arrived, got>>
  BY <1>2 DEF Ordered
<1>3. CASE Arrive
  <2>1. /\ arrived' = arrived + 1 /\ got' = got
        /\ \A i \in 1 .. Len(Line') : i <= Len(Line) => Line'[i] = Line[i]
    BY <1>3, LineArrives
  <2>2. Len(Line') \in Nat
    BY LineHalves DEF TypeOK, Line
  <2>3. ASSUME NEW i \in 1 .. Len(Line')
        PROVE  \/ i \in 1 .. Len(Line) /\ Line'[i] = Line[i]
               \/ i = Len(Line) + 1 /\ Index(Line'[i]) = arrived + 1
    <3>1. CASE Line' = Append(Line, NextHalf)
      <4>1. NextHalf \in Half /\ Index(NextHalf) = arrived + 1
        BY <1>0, NextHalfIndex
      <4>2. /\ Len(Line') = Len(Line) + 1 /\ Line'[Len(Line) + 1] = NextHalf
        BY <1>0, <3>1, <4>1
      <4> QED
        BY <1>0, <2>1, <4>1, <4>2
    <3>2. CASE Len(Line') <= Len(Line)
      BY <1>0, <2>1, <2>2, <3>2
    <3> QED
      BY <1>3, <3>1, <3>2, LineArrives
  <2>4. ASSUME NEW i \in 1 .. Len(Line'), NEW j \in 1 .. Len(Line'), i < j
        PROVE  Index(Line'[i]) < Index(Line'[j])
    <3>1. i \in 1 .. Len(Line) /\ Line'[i] = Line[i]
      BY <1>0, <2>2, <2>3, <2>4
    <3>2. CASE j \in 1 .. Len(Line) /\ Line'[j] = Line[j]
      BY <2>4, <3>1, <3>2 DEF Ordered
    <3>3. CASE Index(Line'[j]) = arrived + 1
      <4>1. Index(Line[i]) \in Nat /\ Index(Line[i]) <= arrived
        BY <1>1, <3>1 DEF Ordered
      <4> QED
        BY <1>0, <3>1, <3>3, <4>1
    <3> QED
      BY <2>3, <3>2, <3>3
  <2>5. ASSUME NEW i \in 1 .. Len(Line')
        PROVE  2 * got'.tail < Index(Line'[i]) /\ Index(Line'[i]) <= arrived'
    <3>1. CASE i \in 1 .. Len(Line) /\ Line'[i] = Line[i]
      <4>1. /\ Index(Line[i]) \in Nat /\ Index(Line[i]) <= arrived
            /\ 2 * got.tail < Index(Line[i])
        BY <1>1, <3>1 DEF Ordered
      <4> QED
        BY <1>0, <2>1, <3>1, <4>1
    <3>2. CASE Index(Line'[i]) = arrived + 1
      <4>1. 2 * got.tail <= arrived
        BY DEF Ordered
      <4> QED
        BY <1>0, <2>1, <3>2, <4>1
    <3> QED
      BY <2>3, <3>1, <3>2
  <2>6. 2 * got'.tail <= arrived'
    <3>1. 2 * got.tail <= arrived
      BY DEF Ordered
    <3> QED
      BY <1>0, <2>1, <3>1
  <2> QED
    BY <2>4, <2>5, <2>6 DEF Ordered
<1>4. CASE HandleData
  <2> DEFINE n == Len(event.bytes)
  <2>1. /\ arrived' = arrived /\ n \in Nat
        /\ Len(Line') = Len(Line) - n /\ \A i \in 1 .. Len(Line') : Line'[i] = Line[i + n]
    <3>1. Len(ring) \in Nat
      BY DEF TypeOK
    <3> QED
      BY <1>4, <3>1, LineHandled
  <2> HIDE DEF n
  <2>2. \A i \in 1 .. Len(Line') : i + n \in 1 .. Len(Line)
    BY <1>0, <2>1
  <2>3. \A i, j \in 1 .. Len(Line') : i < j => Index(Line'[i]) < Index(Line'[j])
    <3> SUFFICES ASSUME NEW i \in 1 .. Len(Line'), NEW j \in 1 .. Len(Line'), i < j
                 PROVE  Index(Line'[i]) < Index(Line'[j])
      OBVIOUS
    <3>1. i + n < j + n
      BY <1>0, <2>1
    <3> QED
      BY <2>1, <2>2, <3>1 DEF Ordered
  <2>4. /\ \A i \in 1 .. Len(Line') : 2 * got'.tail < Index(Line'[i])
        /\ 2 * got'.tail <= arrived
    <3>1. CASE got' = got
      BY <2>1, <2>2, <3>1 DEF Ordered
    <3>2. CASE \E found \in SUBSET Starts(Chunk) : Deliver(found)
      <4>1. PICK found \in SUBSET Starts(Chunk) : Deliver(found)
        BY <3>2
      <4>2. PICK k \in found : /\ k \in 1 .. Len(event.bytes) - 1 /\ k + 1 \in 1 .. Len(Line)
                               /\ Line[k + 1].part = "tail" /\ got'.tail = Line[k + 1].frame
        BY <1>4, <4>1, Delivered
      <4>3. /\ k \in Nat /\ k + 1 \in 1 .. Len(Line) /\ k + 1 <= n
            /\ Line[k + 1].part = "tail" /\ got'.tail = Line[k + 1].frame
        BY <2>1, <4>2 DEF n
      <4>4. 2 * got'.tail = Index(Line[k + 1]) /\ Index(Line[k + 1]) <= arrived
        BY <1>0, <4>3, IndexType DEF Ordered
      <4>5. ASSUME NEW i \in 1 .. Len(Line') PROVE Index(Line[k + 1]) < Index(Line'[i])
        <5>1. k + 1 < i + n
          BY <1>0, <2>1, <4>3
        <5> QED
          BY <2>1, <2>2, <4>3, <5>1 DEF Ordered
      <4> QED
        BY <4>4, <4>5
    <3> QED
      BY <1>4, <3>1, <3>2, Zenon DEF HandleData
  <2>5. \A i \in 1 .. Len(Line') : Index(Line'[i]) <= arrived
    BY <2>1, <2>2 DEF Ordered
  <2> QED
    BY <2>1, <2>3, <2>4, <2>5 DEF Ordered
<1>5. CASE Flush
  <2>1. Len(Line') = 0 /\ arrived' = arrived /\ got' = got
    BY <1>5 DEF Flush, Line
  <2> QED
    BY <1>0, <2>1 DEF Ordered
<1>6. CASE Interrupt \/ Restock
  BY <1>2, <1>6, LineMoved
<1>7. CASE ReceiveEvent \/ ResetQueue \/ UNCHANGED vars
  <2>1. UNCHANGED <<ring, fifo, arrived, got>>
    BY <1>7 DEF ReceiveEvent, ResetQueue, vars
  <2> QED
    BY <1>2, <2>1 DEF Line
<1> QED
  BY <1>3, <1>4, <1>5, <1>6, <1>7 DEF Next

-----------------------------------------------------------------------------
(* Only data events have bytes, and a flush ends with the event at hand. *)
LEMMA EventsBareStep ==
  ASSUME TypeOK, EventsBare, [Next]_vars
  PROVE  EventsBare'
<1>1. ASSUME NEW e \in Event, Bare(e), Report(e)
      PROVE  \A i \in 1 .. Len(uart0_queue') : Bare(uart0_queue'[i])
  <2>1. CASE uart0_queue' = Append(uart0_queue, e)
    <3>1. uart0_queue \in Seq(Event)
      BY DEF TypeOK
    <3>2. /\ Len(uart0_queue') = Len(uart0_queue) + 1 /\ uart0_queue'[Len(uart0_queue) + 1] = e
          /\ \A i \in 1 .. Len(uart0_queue) : uart0_queue'[i] = uart0_queue[i]
      BY <2>1, <3>1
    <3>3. \A i \in 1 .. Len(uart0_queue') : i \in 1 .. Len(uart0_queue) \/ i = Len(uart0_queue) + 1
      BY <3>1, <3>2
    <3> QED
      BY <1>1, <3>2, <3>3, Zenon DEF EventsBare
  <2>2. CASE uart0_queue' = uart0_queue
    BY <2>2 DEF EventsBare
  <2> QED
    BY <1>1, <2>1, <2>2, Zenon DEF Report
<1>2. /\ Bare(FifoOverflow) /\ Bare(BufferFull) /\ Bare(NoEvent)
      /\ \A halves : Bare(Data(halves))
  BY DEF Bare, FifoOverflow, BufferFull, NoEvent, Data
<1>3. CASE Arrive
  <2>1. UNCHANGED <<event, flushed>> /\ (uart0_queue' = uart0_queue \/ Report(FifoOverflow))
    BY <1>3, Zenon DEF Arrive
  <2>2. \A i \in 1 .. Len(uart0_queue') : Bare(uart0_queue'[i])
    BY <1>1, <1>2, <2>1, ReportsAreEvents, Zenon DEF EventsBare
  <2> QED
    BY <2>1, <2>2, Zenon DEF EventsBare
<1>4. CASE Interrupt
  <2>1. UNCHANGED <<event, flushed>> /\ (Report(Data(fifo)) \/ Report(BufferFull))
    BY <1>4, Zenon DEF Interrupt
  <2>2. fifo \in Seq(Half)
    BY DEF TypeOK
  <2>3. \A i \in 1 .. Len(uart0_queue') : Bare(uart0_queue'[i])
    BY <1>1, <1>2, <2>1, <2>2, ReportsAreEvents, Zenon
  <2> QED
    BY <2>1, <2>3, Zenon DEF EventsBare
<1>5. CASE ReceiveEvent
  <2>1. /\ event' = uart0_queue[1] /\ 1 \in 1 .. Len(uart0_queue)
        /\ \A i \in 1 .. Len(uart0_queue') : /\ i + 1 \in 1 .. Len(uart0_queue)
                                             /\ uart0_queue'[i] = uart0_queue[i + 1]
    BY <1>5 DEF ReceiveEvent, TypeOK
  <2>2. NoEvent \notin {FifoOverflow, BufferFull}
    BY DEF NoEvent, FifoOverflow, BufferFull
  <2>3. event = NoEvent /\ flushed' = flushed
    BY <1>5 DEF ReceiveEvent
  <2>4. ~ flushed
    BY <2>2, <2>3, Zenon DEF EventsBare
  <2> QED
    BY <2>1, <2>3, <2>4, Zenon DEF EventsBare
<1>6. CASE HandleData
  <2>1. event' = NoEvent /\ uart0_queue' = uart0_queue /\ flushed' = flushed
    BY <1>6 DEF HandleData
  <2>2. event \notin {FifoOverflow, BufferFull}
    BY <1>6 DEF HandleData, FifoOverflow, BufferFull
  <2> QED
    BY <1>2, <2>1, <2>2, Zenon DEF EventsBare
<1>7. CASE Flush
  BY <1>7, Zenon DEF Flush, EventsBare
<1>8. CASE ResetQueue
  <2>1. Len(uart0_queue') = 0 /\ event' = NoEvent /\ ~ flushed'
    BY <1>8 DEF ResetQueue
  <2>2. 1 .. Len(uart0_queue') = {}
    BY <2>1
  <2> QED
    BY <1>2, <2>1, <2>2, Zenon DEF EventsBare
<1>9. CASE Restock \/ UNCHANGED vars
  <2>1. UNCHANGED <<event, uart0_queue, flushed>>
    BY <1>9, Zenon DEF Restock, vars
  <2> QED
    BY <2>1, Zenon DEF EventsBare
<1> QED
  BY <1>3, <1>4, <1>5, <1>6, <1>7, <1>8, <1>9, Zenon DEF Next

-----------------------------------------------------------------------------
(* An event behind the others announces the bytes put in behind theirs. *)
LEMMA CutsAppended ==
  ASSUME event \in Event \cup {NoEvent}, uart0_queue \in Seq(Event), ring \in Seq(Half),
         NEW cuts \in [0 .. Len(uart0_queue) -> 0 .. RingCap],
         Announced(cuts, event, uart0_queue, ring),
         NEW x \in Event, ring' \in Seq(Half),
         Len(ring') <= RingCap, Len(ring) + Len(x.bytes) <= Len(ring')
  PROVE  \E cuts2 \in [0 .. Len(uart0_queue) + 1 -> 0 .. RingCap] :
           /\ Announced(cuts2, event, Append(uart0_queue, x), ring')
           /\ \A k \in 0 .. Len(uart0_queue) : cuts2[k] = cuts[k]
           /\ cuts2[Len(uart0_queue) + 1] = cuts[Len(uart0_queue)] + Len(x.bytes)
<1> DEFINE m == Len(uart0_queue)  b == Len(x.bytes)
           cuts2 == [k \in 0 .. m + 1 |-> IF k <= m THEN cuts[k] ELSE cuts[m] + b]
<1>1. m \in Nat /\ b \in Nat /\ Len(ring') \in Nat /\ Len(ring) \in Nat
  BY DEF Event
<1>2. cuts[m] \in Nat /\ cuts[m] <= Len(ring) /\ \A k \in 0 .. m : cuts[k] \in 0 .. RingCap
  <2>1. \A k \in 0 .. m : cuts[k] \in 0 .. RingCap
    OBVIOUS
  <2>2. cuts[m] <= Len(ring)
    BY DEF Announced
  <2> QED
    BY <1>1, <2>1, <2>2
<1>3. /\ Append(uart0_queue, x) \in Seq(Event) /\ Len(Append(uart0_queue, x)) = m + 1
      /\ Append(uart0_queue, x)[m + 1] = x
  OBVIOUS
<1>4. \A k \in 1 .. m : Append(uart0_queue, x)[k] = uart0_queue[k]
  OBVIOUS
<1>5. cuts2[m + 1] = cuts[m] + b /\ \A k \in 0 .. m : cuts2[k] = cuts[k]
  BY <1>1
<1>6. cuts[m] + b \in 0 .. RingCap /\ cuts[m] + b <= Len(ring')
  BY <1>1, <1>2, SMTT(60)
<1>7. cuts2 \in [0 .. m + 1 -> 0 .. RingCap]
  BY <1>1, <1>2, <1>6
<1> HIDE DEF m, b, cuts2
<1>8. \A i \in 1 .. m + 1 : cuts2[i] = cuts2[i - 1] + Len(Append(uart0_queue, x)[i].bytes)
  <2> SUFFICES ASSUME NEW i \in 1 .. m + 1
               PROVE  cuts2[i] = cuts2[i - 1] + Len(Append(uart0_queue, x)[i].bytes)
    OBVIOUS
  <2>1. CASE i = m + 1
    BY <1>1, <1>3, <1>5, <2>1 DEF b
  <2>2. CASE i \in 1 .. m
    <3>1. i - 1 \in 0 .. m /\ i \in 0 .. m
      BY <1>1, <2>2
    <3>2. cuts[i] = cuts[i - 1] + Len(uart0_queue[i].bytes)
      BY <2>2 DEF Announced, m
    <3> QED
      BY <1>4, <1>5, <2>2, <3>1, <3>2
  <2>3. i = m + 1 \/ i \in 1 .. m
    BY <1>1
  <2> QED
    BY <2>1, <2>2, <2>3
<1>9. \A i, j \in 0 .. m + 1 : i <= j => cuts2[i] <= cuts2[j]
  <2> SUFFICES ASSUME NEW i \in 0 .. m + 1, NEW j \in 0 .. m + 1, i <= j
               PROVE  cuts2[i] <= cuts2[j]
    OBVIOUS
  <2>1. \A k, l \in 0 .. m : k <= l => cuts[k] <= cuts[l]
    BY DEF Announced, m
  <2>2. CASE i \in 0 .. m /\ j \in 0 .. m
    BY <1>5, <2>1, <2>2
  <2>3. CASE i \in 0 .. m /\ j = m + 1
    <3>1. cuts[i] <= cuts[m] /\ cuts[i] \in Nat
      BY <1>1, <1>2, <2>1, <2>3
    <3> QED
      BY <1>1, <1>2, <1>5, <2>3, <3>1
  <2>4. CASE i = m + 1 /\ j = m + 1
    BY <1>1, <1>2, <1>5, <2>4
  <2> QED
    BY <1>1, <2>2, <2>3, <2>4
<1>10. cuts2[0] = Len(event.bytes)
  BY <1>1, <1>5 DEF Announced
<1>11. Announced(cuts2, event, Append(uart0_queue, x), ring')
  BY <1>1, <1>3, <1>5, <1>6, <1>8, <1>9, <1>10 DEF Announced
<1> QED
  BY <1>5, <1>7, <1>11 DEF m, b

(* The first event of the queue becomes the one in hand. *)
LEMMA CutsReceived ==
  ASSUME NEW q \in Seq(Event), q # <<>>, NEW r \in Seq(Half),
         NEW cuts \in [0 .. Len(q) -> 0 .. RingCap], Announced(cuts, NoEvent, q, r)
  PROVE  \E cuts2 \in [0 .. Len(q) - 1 -> 0 .. RingCap] :
           /\ Announced(cuts2, Head(q), Tail(q), r)
           /\ \A k \in 0 .. Len(q) - 1 : cuts2[k] = cuts[k + 1]
<1> DEFINE m == Len(q)
           cuts2 == [k \in 0 .. m - 1 |-> cuts[k + 1]]
<1>1. m \in Nat \ {0} /\ Len(Tail(q)) = m - 1 /\ Head(q) = q[1]
  OBVIOUS
<1>2. \A i \in 1 .. m - 1 : Tail(q)[i] = q[i + 1]
  OBVIOUS
<1>3. \A k \in 0 .. m : cuts[k] \in 0 .. RingCap
  OBVIOUS
<1>4. cuts2 \in [0 .. m - 1 -> 0 .. RingCap] /\ \A k \in 0 .. m - 1 : cuts2[k] = cuts[k + 1]
  BY <1>1, <1>3
<1>5. cuts[0] = 0
  BY DEF Announced, NoEvent
<1> HIDE DEF m, cuts2
<1>6. \A i \in 1 .. m : cuts[i] = cuts[i - 1] + Len(q[i].bytes)
  BY DEF Announced, m
<1>7. cuts2[0] = Len(Head(q).bytes)
  <2>1. cuts[1] = cuts[0] + Len(q[1].bytes)
    BY <1>1, <1>6
  <2>2. cuts[1] = Len(q[1].bytes)
    <3>1. q[1] \in Event
      BY <1>1 DEF m
    <3>2. Len(q[1].bytes) \in Nat
      BY <3>1 DEF Event
    <3> QED
      BY <1>5, <2>1, <3>2
  <2> QED
    BY <1>1, <1>4, <2>2
<1>8. \A i \in 1 .. m - 1 : cuts2[i] = cuts2[i - 1] + Len(Tail(q)[i].bytes)
  <2> SUFFICES ASSUME NEW i \in 1 .. m - 1
               PROVE  cuts2[i] = cuts2[i - 1] + Len(Tail(q)[i].bytes)
    OBVIOUS
  <2>1. /\ i \in 0 .. m - 1 /\ i - 1 \in 0 .. m - 1 /\ i + 1 \in 1 .. m
        /\ (i + 1) - 1 = i /\ (i - 1) + 1 = i
    BY <1>1
  <2>2. cuts[i + 1] = cuts[i] + Len(q[i + 1].bytes)
    BY <1>6, <2>1
  <2> QED
    BY <1>2, <1>4, <2>1, <2>2
<1>9. \A i, j \in 0 .. m - 1 : i <= j => cuts2[i] <= cuts2[j]
  <2>1. \A i, j \in 0 .. m : i <= j => cuts[i] <= cuts[j]
    BY DEF Announced, m
  <2> SUFFICES ASSUME NEW i \in 0 .. m - 1, NEW j \in 0 .. m - 1, i <= j
               PROVE  cuts2[i] <= cuts2[j]
    OBVIOUS
  <2>2. i + 1 \in 0 .. m /\ j + 1 \in 0 .. m /\ i + 1 <= j + 1
    BY <1>1
  <2> QED
    BY <1>4, <2>1, <2>2
<1>10. cuts2[m - 1] <= Len(r)
  <2>1. cuts[m] <= Len(r)
    BY DEF Announced, m
  <2>2. m - 1 \in 0 .. m - 1 /\ (m - 1) + 1 = m
    BY <1>1
  <2> QED
    BY <1>4, <2>1, <2>2
<1>11. Announced(cuts2, Head(q), Tail(q), r)
  BY <1>1, <1>7, <1>8, <1>9, <1>10 DEF Announced
<1> QED
  BY <1>4, <1>11 DEF m

(* With the bytes of the event in hand gone the others are closer. *)
LEMMA CutsHandled ==
  ASSUME event \in Event, uart0_queue \in Seq(Event), ring \in Seq(Half), ring' \in Seq(Half),
         NEW cuts \in [0 .. Len(uart0_queue) -> 0 .. RingCap],
         Announced(cuts, event, uart0_queue, ring),
         Len(ring') = Len(ring) - Len(event.bytes)
  PROVE  \E cuts2 \in [0 .. Len(uart0_queue) -> 0 .. RingCap] :
           /\ Announced(cuts2, NoEvent, uart0_queue, ring')
           /\ \A k \in 0 .. Len(uart0_queue) : cuts2[k] = cuts[k] - Len(event.bytes)
<1> DEFINE m == Len(uart0_queue)  n == Len(event.bytes)
           cuts2 == [k \in 0 .. m |-> cuts[k] - n]
<1>1. m \in Nat /\ n \in Nat /\ Len(ring) \in Nat
  BY DEF Event
<1>2. /\ cuts[0] = n /\ cuts[m] <= Len(ring)
      /\ \A i \in 1 .. m : cuts[i] = cuts[i - 1] + Len(uart0_queue[i].bytes)
      /\ \A i, j \in 0 .. m : i <= j => cuts[i] <= cuts[j]
  BY DEF Announced
<1>3. \A k \in 0 .. m : cuts[k] \in 0 .. RingCap /\ n <= cuts[k]
  <2>1. \A k \in 0 .. m : cuts[k] \in 0 .. RingCap
    OBVIOUS
  <2>2. \A k \in 0 .. m : 0 <= k /\ 0 \in 0 .. m
    BY <1>1
  <2> QED
    BY <1>2, <2>1, <2>2
<1>4. /\ cuts2 \in [0 .. m -> 0 .. RingCap] /\ \A k \in 0 .. m : cuts2[k] = cuts[k] - n
  <2>1. ASSUME NEW k \in 0 .. m PROVE cuts[k] - n \in 0 .. RingCap
    <3>1. cuts[k] \in 0 .. RingCap /\ n <= cuts[k]
      BY <1>3
    <3> HIDE DEF m, n, cuts2
    <3> QED
      BY <1>1, <3>1, SMTT(60)
  <2> QED
    BY <2>1, Zenon
<1>5. \A i \in 1 .. m : Len(uart0_queue[i].bytes) \in Nat
  BY DEF Event
<1> HIDE DEF m, n, cuts2
<1>6. cuts2[0] = 0
  BY <1>1, <1>2, <1>4
<1>7. \A i \in 1 .. m : cuts2[i] = cuts2[i - 1] + Len(uart0_queue[i].bytes)
  <2> SUFFICES ASSUME NEW i \in 1 .. m PROVE cuts2[i] = cuts2[i - 1] + Len(uart0_queue[i].bytes)
    OBVIOUS
  <2>1. i \in 0 .. m /\ i - 1 \in 0 .. m
    BY <1>1
  <2>2. cuts[i] \in Nat /\ cuts[i - 1] \in Nat /\ Len(uart0_queue[i].bytes) \in Nat
    BY <1>3, <1>5, <2>1
  <2>3. cuts[i] = cuts[i - 1] + Len(uart0_queue[i].bytes)
    BY <1>2
  <2>4. cuts2[i] = cuts[i] - n /\ cuts2[i - 1] = cuts[i - 1] - n
    BY <1>4, <2>1
  <2>5. (cuts[i - 1] + Len(uart0_queue[i].bytes)) - n = (cuts[i - 1] - n) + Len(uart0_queue[i].bytes)
    BY <1>1, <2>2, SMTT(60)
  <2> QED
    BY <2>3, <2>4, <2>5, Zenon
<1>8. \A i, j \in 0 .. m : i <= j => cuts2[i] <= cuts2[j]
  <2> SUFFICES ASSUME NEW i \in 0 .. m, NEW j \in 0 .. m, i <= j PROVE cuts2[i] <= cuts2[j]
    OBVIOUS
  <2>1. cuts[i] <= cuts[j] /\ cuts[i] \in 0 .. RingCap /\ cuts[j] \in 0 .. RingCap
    BY <1>2, <1>3
  <2>2. cuts2[i] = cuts[i] - n /\ cuts2[j] = cuts[j] - n
    BY <1>4
  <2> QED
    BY <1>1, <2>1, <2>2
<1>9. cuts2[m] <= Len(ring')
  <2>1. m \in 0 .. m
    BY <1>1
  <2>2. cuts2[m] = cuts[m] - n /\ cuts[m] \in 0 .. RingCap
    BY <1>3, <1>4, <2>1
  <2>3. Len(ring') = Len(ring) - n
    BY DEF n
  <2> QED
    BY <1>1, <1>2, <2>2, <2>3, SMTT(60)
<1>10. Announced(cuts2, NoEvent, uart0_queue, ring')
  BY <1>6, <1>7, <1>8, <1>9 DEF Announced, NoEvent, m
<1> QED
  BY <1>4, <1>10 DEF m, n

-----------------------------------------------------------------------------
(* A report extends the account; one of an overflow tells of what is lost  *)
(* behind the ring, unless it is discarded.                                *)
LEMMA ReportAccounts ==
  ASSUME TypeOK, NEW x \in Event, Report(x), event' = event, flushed' = flushed,
         ring' \in Seq(Half), Len(ring') <= RingCap, Len(ring) + Len(x.bytes) <= Len(ring'),
         NEW cuts \in [0 .. Len(uart0_queue) -> 0 .. RingCap],
         flushed \/ Announced(cuts, event, uart0_queue, ring)
  PROVE  \E cuts2 \in [0 .. Len(uart0_queue') -> 0 .. RingCap] :
           /\ flushed' \/ Announced(cuts2, event', uart0_queue', ring')
           /\ \A p : Told(p, cuts) => Told(p, cuts2)'
           /\ x = FifoOverflow /\ x.bytes = <<>> => \A p : p = Len(ring) => Told(p, cuts2)'
<1>1. /\ uart0_queue \in Seq(Event) /\ ring \in Seq(Half) /\ event \in Event \cup {NoEvent}
      /\ Len(uart0_queue) \in Nat /\ Len(ring) \in Nat
  BY DEF TypeOK
<1> DEFINE m == Len(uart0_queue)
<1>2. CASE uart0_queue' = Append(uart0_queue, x) /\ silent' = silent
  <2>1. /\ Len(uart0_queue') = m + 1 /\ uart0_queue'[m + 1] = x
        /\ \A k \in 1 .. m : uart0_queue'[k] = uart0_queue[k]
    BY <1>1, <1>2
  <2>2. PICK cuts2 \in [0 .. m + 1 -> 0 .. RingCap] :
          /\ flushed \/ Announced(cuts2, event, uart0_queue', ring')
          /\ flushed \/ \A k \in 0 .. m : cuts2[k] = cuts[k]
          /\ flushed \/ cuts2[m + 1] = cuts[m] + Len(x.bytes)
    <3>1. CASE flushed
      <4>1. [k \in 0 .. m + 1 |-> 0] \in [0 .. m + 1 -> 0 .. RingCap]
        OBVIOUS
      <4> QED
        BY <3>1, <4>1, Zenon
    <3>2. CASE Announced(cuts, event, uart0_queue, ring)
      <4>1. \E cuts2 \in [0 .. m + 1 -> 0 .. RingCap] :
              /\ Announced(cuts2, event, Append(uart0_queue, x), ring')
              /\ \A k \in 0 .. m : cuts2[k] = cuts[k]
              /\ cuts2[m + 1] = cuts[m] + Len(x.bytes)
        <5>1. x \in Event /\ ring' \in Seq(Half) /\ Len(ring') <= RingCap
          OBVIOUS
        <5>2. Len(ring) + Len(x.bytes) <= Len(ring')
          OBVIOUS
        <5> QED
          BY <1>1, <3>2, <5>1, <5>2, CutsAppended, Zenon
      <4> QED
        BY <1>2, <4>1, Zenon
    <3> QED
      BY <3>1, <3>2
  <2>3. ASSUME NEW p, Told(p, cuts) PROVE Told(p, cuts2)'
    <3>1. CASE silent \/ (event = FifoOverflow /\ ~flushed)
      BY <1>2, <3>1, Zenon DEF Told, FifoOverflow
    <3>2. CASE \E k \in 1 .. m : uart0_queue[k] = FifoOverflow /\ (flushed \/ cuts[k] <= p)
      <4>1. PICK k \in 1 .. m : uart0_queue[k] = FifoOverflow /\ (flushed \/ cuts[k] <= p)
        BY <3>2
      <4>2. k \in 1 .. Len(uart0_queue') /\ k \in 0 .. m
        BY <1>1, <2>1
      <4>3. flushed \/ cuts2[k] <= p
        BY <2>2, <4>1, <4>2, Zenon
      <4> QED
        BY <2>1, <4>1, <4>2, <4>3, Zenon DEF Told, FifoOverflow
    <3> QED
      BY <2>3, <3>1, <3>2, Zenon DEF Told
  <2>4. ASSUME x = FifoOverflow, x.bytes = <<>>, NEW p, p = Len(ring) PROVE Told(p, cuts2)'
    <3>1. m + 1 \in 1 .. Len(uart0_queue')
      BY <1>1, <2>1
    <3>2. flushed \/ cuts2[m + 1] <= p
      <4>1. CASE flushed
        BY <4>1
      <4>2. CASE Announced(cuts, event, uart0_queue, ring) /\ cuts2[m + 1] = cuts[m] + Len(x.bytes)
        <5>1. m \in 0 .. m /\ Len(x.bytes) = 0
          BY <1>1, <2>4
        <5>2. cuts[m] <= Len(ring) /\ cuts[m] \in 0 .. RingCap
          BY <4>2, <5>1 DEF Announced
        <5> QED
          BY <2>4, <4>2, <5>1, <5>2
      <4> QED
        BY <2>2, <4>1, <4>2
    <3> QED
      BY <2>1, <2>4, <3>1, <3>2, Zenon DEF Told, FifoOverflow
  <2> QED
    BY <2>1, <2>2, <2>3, <2>4
<1>3. CASE uart0_queue' = uart0_queue /\ silent' = (silent \/ x = FifoOverflow)
  <2>1. flushed' \/ Announced(cuts, event', uart0_queue', ring')
    <3>1. Len(ring) <= Len(ring')
      <4>1. Len(x.bytes) \in Nat /\ Len(ring') \in Nat
        BY DEF Event
      <4> QED
        BY <1>1, <4>1
    <3>2. CASE Announced(cuts, event, uart0_queue, ring)
      <4>1. m \in 0 .. m /\ Len(ring') \in Nat
        BY <1>1
      <4>2. cuts[m] \in 0 .. RingCap /\ cuts[m] <= Len(ring)
        BY <3>2, <4>1 DEF Announced
      <4>3. cuts[m] <= Len(ring')
        BY <1>1, <3>1, <4>1, <4>2
      <4> QED
        BY <1>3, <3>2, <4>3, Zenon DEF Announced
    <3> QED
      BY <3>2
  <2>2. \A p : Told(p, cuts) => Told(p, cuts)'
    BY <1>3, Zenon DEF Told, FifoOverflow
  <2>3. x = FifoOverflow => \A p : Told(p, cuts)'
    BY <1>3, Zenon DEF Told
  <2> QED
    BY <1>3, <2>1, <2>2, <2>3, Zenon
<1> QED
  BY <1>2, <1>3, Zenon DEF Report

-----------------------------------------------------------------------------
(* A half that arrives leaves no gap; one that finds the FIFO full leaves  *)
(* one behind the ring, of which the report tells.                         *)
LEMMA ArriveAccounts ==
  ASSUME TypeOK, TypeOK', Accounted, Arrive
  PROVE  Accounted'
<1>1. /\ Line \in Seq(Half) /\ Len(Line) \in Nat /\ arrived \in Nat /\ Len(ring) \in Nat
      /\ ring \in Seq(Half) /\ Len(Line') \in Nat
      /\ \A i \in 1 .. Len(Line) : Line[i] \in Half
  <2>1. Line' \in Seq(Half)
    BY LineHalves DEF TypeOK, Line
  <2>2. Line \in Seq(Half) /\ ring \in Seq(Half) /\ arrived \in Nat
    BY LineHalves DEF TypeOK, Line
  <2>3. \A i \in 1 .. Len(Line) : Line[i] \in Half
    BY LineHalves DEF TypeOK, Line
  <2> QED
    BY <2>1, <2>2, <2>3
<1>2. /\ arrived' = arrived + 1 /\ ring' = ring /\ event' = event /\ flushed' = flushed
      /\ \/ Line' = Append(Line, NextHalf) /\ Len(Line') = Len(Line) + 1
         \/ Line' = ring /\ Len(Line') <= Len(Line)
      /\ \A i \in 1 .. Len(Line') : i <= Len(Line) => Line'[i] = Line[i]
  BY LineArrives DEF Arrive
<1>3. PICK cuts \in [0 .. Len(uart0_queue) -> 0 .. RingCap] :
        /\ flushed \/ Announced(cuts, event, uart0_queue, ring)
        /\ \A p \in 1 .. Len(Line) : Gap(p) => Told(p, cuts)
  BY DEF Accounted
<1>4. \A i \in 1 .. Len(Line) : Index(Line[i]) \in Nat
  BY <1>1, IndexType
<1>5. CASE fifo' = Append(fifo, NextHalf) /\ uart0_queue' = uart0_queue /\ silent' = silent
  <2>1. Line' = Append(Line, NextHalf) /\ Len(Line') = Len(Line) + 1
    <3>1. NextHalf \in Half /\ fifo \in Seq(Half)
      BY <1>1, NextHalfIndex DEF TypeOK
    <3>2. ring \o Append(fifo, NextHalf) = Append(ring \o fifo, NextHalf)
      BY <1>1, <3>1
    <3>3. Line' = Append(Line, NextHalf)
      BY <1>2, <1>5, <3>2, Zenon DEF Line
    <3> QED
      BY <1>1, <3>1, <3>3
  <2>2. ASSUME NEW p \in 1 .. Len(Line'), Gap(p)' PROVE p \in 1 .. Len(Line) /\ Gap(p)
    <3>1. NextHalf \in Half /\ Index(NextHalf) = arrived + 1 /\ Line'[Len(Line) + 1] = NextHalf
      BY <1>1, <2>1, NextHalfIndex
    <3>2. CASE p = Len(Line) + 1
      BY <1>1, <1>2, <2>1, <2>2, <3>1, <3>2 DEF Gap
    <3>3. CASE p = Len(Line)
      <4>1. Line'[p] = Line[p] /\ p \in 1 .. Len(Line) /\ p < Len(Line')
        BY <1>1, <1>2, <2>1, <3>3
      <4>2. Index(Line[p]) + 1 # arrived + 1
        BY <2>2, <3>1, <3>3, <4>1 DEF Gap
      <4> QED
        BY <1>1, <1>4, <3>3, <4>1, <4>2 DEF Gap
    <3>4. CASE p < Len(Line)
      <4>1. /\ p \in 1 .. Len(Line) /\ p + 1 \in 1 .. Len(Line) /\ p < Len(Line')
            /\ p + 1 \in 1 .. Len(Line')
        BY <1>1, <2>1, <3>4
      <4>2. Line'[p] = Line[p] /\ Line'[p + 1] = Line[p + 1]
        BY <1>2, <4>1
      <4> QED
        BY <2>2, <3>4, <4>1, <4>2 DEF Gap
    <3>5. p < Len(Line) \/ p = Len(Line) \/ p = Len(Line) + 1
      BY <1>1, <2>1
    <3> QED
      BY <3>2, <3>3, <3>4, <3>5
  <2>3. \A p : Told(p, cuts) => Told(p, cuts)'
    BY <1>2, <1>5, Zenon DEF Told, FifoOverflow
  <2>4. \A p \in 1 .. Len(Line') : Gap(p)' => Told(p, cuts)'
    BY <1>3, <2>2, <2>3
  <2>5. flushed' \/ Announced(cuts, event', uart0_queue', ring')
    BY <1>2, <1>3, <1>5, Zenon
  <2> QED
    BY <1>3, <1>5, <2>4, <2>5, Zenon DEF Accounted
<1>6. CASE fifo' = <<>> /\ Report(FifoOverflow)
  <2>1. Line' = ring /\ Len(Line') <= Len(Line)
    <3>1. Line' = ring
      BY <1>1, <1>2, <1>6, ConcatEmptySeq DEF Line
    <3>2. Len(ring) <= Len(Line)
      BY LineHalves DEF TypeOK, Line
    <3> QED
      BY <3>1, <3>2
  <2>2. /\ FifoOverflow \in Event /\ FifoOverflow.bytes = <<>> /\ Len(FifoOverflow.bytes) = 0
        /\ Len(ring) <= RingCap
    BY DEF FifoOverflow, Event, TypeOK
  <2>3. PICK cuts2 \in [0 .. Len(uart0_queue') -> 0 .. RingCap] :
          /\ flushed' \/ Announced(cuts2, event', uart0_queue', ring')
          /\ \A p : Told(p, cuts) => Told(p, cuts2)'
          /\ \A p : p = Len(ring) => Told(p, cuts2)'
    <3>1. Len(ring) + Len(FifoOverflow.bytes) <= Len(ring') /\ Len(ring') <= RingCap
      BY <1>1, <1>2, <2>2
    <3> QED
      BY <1>1, <1>2, <1>3, <1>6, <2>2, <3>1, ReportAccounts
  <2>4. ASSUME NEW p \in 1 .. Len(Line'), Gap(p)' PROVE Told(p, cuts2)'
    <3>1. CASE p = Len(ring)
      BY <2>3, <3>1
    <3>2. CASE p < Len(ring)
      <4>1. /\ p \in 1 .. Len(Line) /\ p + 1 \in 1 .. Len(Line) /\ p < Len(Line') /\ p < Len(Line)
            /\ p + 1 \in 1 .. Len(Line') /\ p + 1 <= Len(Line)
        BY <1>1, <2>1, <3>2
      <4>2. Line'[p] = Line[p] /\ Line'[p + 1] = Line[p + 1]
        BY <1>2, <4>1
      <4>3. Gap(p)
        BY <2>4, <4>1, <4>2 DEF Gap
      <4> QED
        BY <1>3, <2>3, <4>1, <4>3
    <3> QED
      BY <1>1, <2>1, <3>1, <3>2
  <2> QED
    BY <2>3, <2>4 DEF Accounted
<1> QED
  BY <1>5, <1>6, Zenon DEF Arrive

(* What moves into the ring is announced behind the rest, or not at all. *)
LEMMA MoveAccounts ==
  ASSUME TypeOK, TypeOK', Accounted, Interrupt \/ Restock
  PROVE  Accounted'
<1>1. Line' = Line /\ arrived' = arrived
  BY LineMoved
<1>2. event' = event /\ flushed' = flushed
  BY Zenon DEF Interrupt, Restock
<1>3. PICK cuts \in [0 .. Len(uart0_queue) -> 0 .. RingCap] :
        /\ flushed \/ Announced(cuts, event, uart0_queue, ring)
        /\ \A p \in 1 .. Len(Line) : Gap(p) => Told(p, cuts)
  BY DEF Accounted
<1>4. \A p : Gap(p)' <=> Gap(p)
  BY <1>1, Zenon DEF Gap, Index
<1>5. /\ ring \in Seq(Half) /\ fifo \in Seq(Half) /\ Len(ring) \in Nat /\ Len(fifo) \in Nat
      /\ ring' \in Seq(Half) /\ Len(ring') \in Nat /\ Len(ring') <= RingCap
      /\ Len(ring \o fifo) = Len(ring) + Len(fifo)
  BY SMTT(60) DEF TypeOK
<1>6. ASSUME NEW x \in Event, Report(x), Len(ring) + Len(x.bytes) <= Len(ring')
      PROVE  Accounted'
  <2>1. PICK cuts2 \in [0 .. Len(uart0_queue') -> 0 .. RingCap] :
          /\ flushed' \/ Announced(cuts2, event', uart0_queue', ring')
          /\ \A p : Told(p, cuts) => Told(p, cuts2)'
    BY <1>2, <1>3, <1>5, <1>6, ReportAccounts
  <2> QED
    BY <1>1, <1>3, <1>4, <2>1, Zenon DEF Accounted
<1>7. CASE ring' = ring \o fifo /\ Report(Data(fifo))
  <2>1. Data(fifo) \in Event /\ Len(Data(fifo).bytes) = Len(fifo)
    BY <1>5 DEF Data, Event
  <2> QED
    BY <1>5, <1>6, <1>7, <2>1
<1>8. CASE ring' = ring /\ Report(BufferFull)
  <2>1. BufferFull \in Event /\ Len(BufferFull.bytes) = 0
    BY DEF BufferFull, Event
  <2> QED
    BY <1>5, <1>6, <1>8, <2>1
<1>9. CASE ring' = ring \o fifo /\ UNCHANGED <<uart0_queue, silent>>
  <2>1. Announced(cuts, event, uart0_queue, ring) => Announced(cuts, event, uart0_queue, ring')
    <3> SUFFICES ASSUME Announced(cuts, event, uart0_queue, ring)
                 PROVE  Announced(cuts, event, uart0_queue, ring')
      OBVIOUS
    <3>1. Len(uart0_queue) \in 0 .. Len(uart0_queue)
      BY DEF TypeOK
    <3>2. cuts[Len(uart0_queue)] \in 0 .. RingCap
      BY <3>1
    <3>3. cuts[Len(uart0_queue)] <= Len(ring)
      BY DEF Announced
    <3>4. cuts[Len(uart0_queue)] <= Len(ring')
      BY <1>5, <1>9, <3>2, <3>3
    <3> QED
      BY <3>4, Zenon DEF Announced
  <2>2. \A p : Told(p, cuts) => Told(p, cuts)'
    BY <1>2, <1>9, Zenon DEF Told, FifoOverflow
  <2> QED
    BY <1>1, <1>2, <1>3, <1>4, <1>9, <2>1, <2>2, Zenon DEF Accounted
<1> QED
  BY <1>7, <1>8, <1>9, Zenon DEF Interrupt, Restock

(* The event the task takes up still tells what it told in the queue. *)
LEMMA ReceiveAccounts ==
  ASSUME TypeOK, EventsBare, Accounted, ReceiveEvent
  PROVE  Accounted'
<1>1. /\ Line' = Line /\ arrived' = arrived /\ ring' = ring /\ silent' = silent
      /\ flushed' = flushed /\ event = NoEvent /\ uart0_queue # <<>>
      /\ event' = Head(uart0_queue) /\ uart0_queue' = Tail(uart0_queue)
  BY DEF ReceiveEvent, Line
<1>2. /\ uart0_queue \in Seq(Event) /\ ring \in Seq(Half) /\ Len(uart0_queue) \in Nat \ {0}
      /\ Len(uart0_queue') = Len(uart0_queue) - 1 /\ event' = uart0_queue[1]
      /\ \A k \in 1 .. Len(uart0_queue) - 1 : uart0_queue'[k] = uart0_queue[k + 1]
  BY <1>1 DEF TypeOK
<1>3. ~ flushed
  <2>1. NoEvent \notin {FifoOverflow, BufferFull}
    BY DEF NoEvent, FifoOverflow, BufferFull
  <2> QED
    BY <1>1, <2>1, Zenon DEF EventsBare
<1>4. PICK cuts \in [0 .. Len(uart0_queue) -> 0 .. RingCap] :
        /\ Announced(cuts, NoEvent, uart0_queue, ring)
        /\ \A p \in 1 .. Len(Line) : Gap(p) => Told(p, cuts)
  BY <1>1, <1>3, Zenon DEF Accounted
<1>5. PICK cuts2 \in [0 .. Len(uart0_queue) - 1 -> 0 .. RingCap] :
        /\ Announced(cuts2, event', uart0_queue', ring)
        /\ \A k \in 0 .. Len(uart0_queue) - 1 : cuts2[k] = cuts[k + 1]
  <2>1. \E cuts2 \in [0 .. Len(uart0_queue) - 1 -> 0 .. RingCap] :
          /\ Announced(cuts2, Head(uart0_queue), Tail(uart0_queue), ring)
          /\ \A k \in 0 .. Len(uart0_queue) - 1 : cuts2[k] = cuts[k + 1]
    <3>1. uart0_queue \in Seq(Event) /\ uart0_queue # <<>> /\ ring \in Seq(Half)
      BY <1>1, <1>2
    <3> QED
      BY <1>4, <3>1, CutsReceived, Zenon
  <2> QED
    BY <1>1, <2>1, Zenon
<1>6. ASSUME NEW p, Told(p, cuts) PROVE Told(p, cuts2)'
  <2>1. CASE silent
    BY <1>1, <2>1, Zenon DEF Told
  <2>2. CASE event = FifoOverflow
    BY <1>1, <2>2 DEF NoEvent, FifoOverflow
  <2>3. CASE \E k \in 1 .. Len(uart0_queue) : uart0_queue[k] = FifoOverflow /\ (flushed \/ cuts[k] <= p)
    <3>1. PICK k \in 1 .. Len(uart0_queue) : uart0_queue[k] = FifoOverflow /\ cuts[k] <= p
      BY <1>3, <2>3
    <3>2. CASE k = 1
      BY <1>1, <1>2, <1>3, <3>1, <3>2, Zenon DEF Told, FifoOverflow
    <3>3. CASE k # 1
      <4>1. /\ k - 1 \in 1 .. Len(uart0_queue') /\ k - 1 \in 1 .. Len(uart0_queue) - 1
            /\ k - 1 \in 0 .. Len(uart0_queue) - 1 /\ (k - 1) + 1 = k
        BY <1>2, <3>1, <3>3
      <4>2. uart0_queue'[k - 1] = FifoOverflow /\ cuts2[k - 1] <= p
        BY <1>2, <1>5, <3>1, <4>1
      <4> QED
        BY <4>1, <4>2, Zenon DEF Told, FifoOverflow
    <3> QED
      BY <3>2, <3>3
  <2> QED
    BY <1>6, <2>1, <2>2, <2>3, Zenon DEF Told
<1>7. \A p : Gap(p)' <=> Gap(p)
  BY <1>1, Zenon DEF Gap, Index
<1>8. cuts2 \in [0 .. Len(uart0_queue') -> 0 .. RingCap]
  BY <1>2, <1>5
<1> QED
  BY <1>1, <1>4, <1>5, <1>6, <1>7, <1>8, Zenon DEF Accounted

(* Where a gap is within the bytes handled, nothing tells of it. *)
LEMMA GapAnnounced ==
  ASSUME TypeOK, EventsBare, Accounted, HandleData,
         NEW p \in 1 .. Len(event.bytes) - 1, Gap(p)
  PROVE  silent
<1>1. ~ flushed /\ event # FifoOverflow /\ event \in Event
  <2>1. event \notin {FifoOverflow, BufferFull} /\ event \in Event
    BY DEF HandleData, FifoOverflow, BufferFull, TypeOK, NoEvent
  <2> QED
    BY <2>1, Zenon DEF EventsBare
<1>2. PICK cuts \in [0 .. Len(uart0_queue) -> 0 .. RingCap] :
        /\ Announced(cuts, event, uart0_queue, ring)
        /\ \A q \in 1 .. Len(Line) : Gap(q) => Told(q, cuts)
  BY <1>1, Zenon DEF Accounted
<1>3. p \in 1 .. Len(Line) /\ Len(event.bytes) \in Nat /\ Len(uart0_queue) \in Nat
  <2>1. Len(ring) \in Nat /\ Len(Line) \in Nat /\ Len(uart0_queue) \in Nat
    BY LineHalves DEF TypeOK, Line
  <2>2. Len(event.bytes) \in 0 .. Len(ring) /\ Len(ring) <= Len(Line)
    BY LineHandled
  <2> QED
    BY <2>1, <2>2
<1>4. ASSUME NEW k \in 1 .. Len(uart0_queue) PROVE ~(cuts[k] <= p)
  <2>1. 0 \in 0 .. Len(uart0_queue) /\ k \in 0 .. Len(uart0_queue) /\ 0 <= k
    BY <1>3
  <2>2. cuts[0] = Len(event.bytes) /\ cuts[0] <= cuts[k] /\ cuts[k] \in 0 .. RingCap
    BY <1>2, <2>1 DEF Announced
  <2> QED
    BY <1>3, <2>2
<1> QED
  BY <1>1, <1>2, <1>3, <1>4, Zenon DEF Told

(* Handling an event brings the rest of the account nearer. *)
LEMMA HandleAccounts ==
  ASSUME TypeOK, TypeOK', EventsBare, Accounted, HandleData
  PROVE  Accounted'
<1> DEFINE n == Len(event.bytes)
<1>1. ~ flushed /\ event # FifoOverflow /\ event \in Event
  <2>1. event \notin {FifoOverflow, BufferFull} /\ event \in Event
    BY DEF HandleData, FifoOverflow, BufferFull, TypeOK, NoEvent
  <2> QED
    BY <2>1, Zenon DEF EventsBare
<1>2. /\ event' = NoEvent /\ uart0_queue' = uart0_queue /\ silent' = silent /\ flushed' = flushed
      /\ arrived' = arrived
  BY DEF HandleData
<1>3. /\ n \in Nat /\ Len(Line) \in Nat /\ Len(Line') = Len(Line) - n
      /\ \A i \in 1 .. Len(Line') : Line'[i] = Line[i + n]
      /\ Len(ring') = Len(ring) - n
  <2>1. Len(Line) \in Nat /\ Len(ring) \in Nat
    BY LineHalves, SMTT(60) DEF TypeOK, Line
  <2> QED
    BY <2>1, LineHandled
<1>4. PICK cuts \in [0 .. Len(uart0_queue) -> 0 .. RingCap] :
        /\ Announced(cuts, event, uart0_queue, ring)
        /\ \A q \in 1 .. Len(Line) : Gap(q) => Told(q, cuts)
  BY <1>1, Zenon DEF Accounted
<1>5. PICK cuts2 \in [0 .. Len(uart0_queue) -> 0 .. RingCap] :
        /\ Announced(cuts2, NoEvent, uart0_queue, ring')
        /\ \A k \in 0 .. Len(uart0_queue) : cuts2[k] = cuts[k] - n
  <2>1. uart0_queue \in Seq(Event) /\ ring \in Seq(Half) /\ ring' \in Seq(Half)
    BY DEF TypeOK
  <2> QED
    <3>1. Len(ring') = Len(ring) - Len(event.bytes)
      BY <1>3
    <3>2. Announced(cuts, event, uart0_queue, ring) /\ event \in Event
      BY <1>1, <1>4
    <3> QED
      BY <2>1, <3>1, <3>2, CutsHandled, Zenon
<1> HIDE DEF n
<1>6. ASSUME NEW p \in 1 .. Len(Line'), Gap(p)' PROVE Told(p, cuts2)'
  <2>1. p + n \in 1 .. Len(Line) /\ p \in Nat
    BY <1>3
  <2>2. Gap(p + n)
    <3>1. CASE p < Len(Line')
      <4>1. p + 1 \in 1 .. Len(Line') /\ (p + 1) + n = (p + n) + 1 /\ p + n < Len(Line)
        BY <1>3, <3>1
      <4>2. Line'[p] = Line[p + n] /\ Line'[p + 1] = Line[(p + n) + 1]
        BY <1>3, <4>1
      <4> QED
        BY <1>6, <3>1, <4>1, <4>2 DEF Gap
    <3>2. CASE p = Len(Line')
      <4>1. Line'[p] = Line[p + n]
        BY <1>3
      <4>2. Len(Line') = Len(Line) - n /\ n \in Nat /\ Len(Line) \in Nat
        BY <1>3
      <4>3. ~(p + n < Len(Line)) /\ ~(p < Len(Line'))
        BY <3>2, <4>2
      <4> QED
        BY <1>2, <1>6, <4>1, <4>3 DEF Gap
    <3>3. p < Len(Line') \/ p = Len(Line')
      <4>1. Len(Line') = Len(Line) - n /\ n \in Nat /\ Len(Line) \in Nat
        BY <1>3
      <4>2. Len(Line') \in Int
        BY <4>1
      <4> QED
        BY <4>2
    <3> QED
      BY <3>1, <3>2, <3>3
  <2>3. Told(p + n, cuts)
    BY <1>4, <2>1, <2>2
  <2>4. CASE silent
    BY <1>2, <2>4, Zenon DEF Told
  <2>5. CASE \E k \in 1 .. Len(uart0_queue) : uart0_queue[k] = FifoOverflow /\ cuts[k] <= p + n
    <3>1. PICK k \in 1 .. Len(uart0_queue) : uart0_queue[k] = FifoOverflow /\ cuts[k] <= p + n
      BY <2>5
    <3>2. k \in 0 .. Len(uart0_queue)
      BY DEF TypeOK
    <3>3. cuts2[k] = cuts[k] - n /\ cuts[k] \in 0 .. RingCap
      BY <1>5, <3>2
    <3>4. cuts2[k] <= p
      BY <1>3, <2>1, <3>1, <3>3
    <3> QED
      BY <1>2, <3>1, <3>4, Zenon DEF Told, FifoOverflow
  <2> QED
    BY <1>1, <2>3, <2>4, <2>5, Zenon DEF Told
<1>7. Announced(cuts2, event', uart0_queue', ring') /\ cuts2 \in [0 .. Len(uart0_queue') -> 0 .. RingCap]
  BY <1>2, <1>5, Zenon
<1> QED
  BY <1>6, <1>7, Zenon DEF Accounted

(* A flush leaves nothing to tell of; a reset of the queue ends what the   *)
(* events in it told, which is from then on silent.                        *)
LEMMA FlushAccounts ==
  ASSUME TypeOK, Accounted, Flush \/ ResetQueue
  PROVE  Accounted'
<1>1. CASE Flush
  <2>1. Len(Line') = 0 /\ flushed' /\ uart0_queue' = uart0_queue
    BY <1>1 DEF Flush, Line
  <2>2. 1 .. Len(Line') = {}
    BY <2>1
  <2> QED
    BY <2>1, <2>2, Zenon DEF Accounted
<1>2. CASE ResetQueue
  <2>1. /\ Line' = Line /\ arrived' = arrived /\ uart0_queue' = <<>> /\ Len(uart0_queue') = 0
        /\ event' = NoEvent /\ flushed
    BY <1>2 DEF ResetQueue, Line
  <2>2. DOMAIN uart0_queue = 1 .. Len(uart0_queue)
    BY DEF TypeOK
  <2>3. PICK cuts \in [0 .. Len(uart0_queue) -> 0 .. RingCap] :
          \A q \in 1 .. Len(Line) : Gap(q) => Told(q, cuts)
    BY DEF Accounted
  <2>4. ASSUME NEW q \in 1 .. Len(Line), Gap(q) PROVE silent'
    BY <1>2, <2>1, <2>2, <2>3, <2>4, Zenon DEF Told, ResetQueue
  <2>5. \A q \in 1 .. Len(Line') : \A c : Gap(q)' => Told(q, c)'
    <3>1. \A q : Gap(q)' <=> Gap(q)
      <4>1. Line' = Line /\ arrived' = arrived
        BY <2>1
      <4> QED
        BY <4>1, Zenon DEF Gap, Index
    <3> QED
      BY <2>1, <2>4, <3>1, Zenon DEF Told
  <2> DEFINE none == [k \in 0 .. 0 |-> 0]
  <2>6. none \in [0 .. 0 -> 0 .. RingCap] /\ none[0] = 0
    OBVIOUS
  <2>7. Announced(none, NoEvent, <<>>, ring')
    <3>1. Len(ring') \in Nat
      BY <1>2 DEF ResetQueue, TypeOK
    <3> QED
      BY <2>6, <3>1 DEF Announced, NoEvent
  <2> HIDE DEF none
  <2>8. \E c \in [0 .. Len(uart0_queue') -> 0 .. RingCap] : Announced(c, event', uart0_queue', ring')
    BY <2>1, <2>6, <2>7
  <2> QED
    BY <2>5, <2>8, Zenon DEF Accounted
<1> QED
  BY <1>1, <1>2

-----------------------------------------------------------------------------
(* The account of the losses holds initially and after every step. *)
LEMMA Invariance ==
  /\ Init => IInv
  /\ IInv /\ [Next]_vars => IInv'
<1>1. Init => IInv
  <2> SUFFICES ASSUME Init PROVE IInv
    OBVIOUS
  <2> USE DEF Init
  <2>1. TypeOK
    <3>1. full \in BOOLEAN /\ flushed \in BOOLEAN /\ silent \in BOOLEAN
      BY Zenon
    <3>2. <<>> \in Seq(Half) /\ <<>> \in Seq(Event) /\ Len(<<>>) = 0
      OBVIOUS
    <3>3. /\ arrived \in 0 .. 2 * MaxFrames
          /\ Len(fifo) <= FifoCap /\ Len(ring) <= RingCap /\ Len(uart0_queue) <= EventCap
          /\ got \in [head : Nat, tail : Nat, count : Nat]
      BY <3>2
    <3> QED
      BY <3>1, <3>2, <3>3, Zenon DEF TypeOK
  <2>2. EventsBare
    BY DEF EventsBare, Bare, NoEvent
  <2>3. Line = <<>> /\ Len(Line) = 0
    BY DEF Line
  <2>4. Ordered
    BY <2>3 DEF Ordered
  <2>5. Accounted
    <3> DEFINE none == [k \in 0 .. 0 |-> 0]
    <3>1. none \in [0 .. Len(uart0_queue) -> 0 .. RingCap] /\ none[0] = 0
      OBVIOUS
    <3>2. Announced(none, event, uart0_queue, ring)
      BY <3>1 DEF Announced, NoEvent
    <3> HIDE DEF none
    <3> QED
      BY <2>3, <3>1, <3>2 DEF Accounted
  <2> QED
    BY <2>1, <2>2, <2>4, <2>5 DEF IInv
<1>2. IInv /\ [Next]_vars => IInv'
  <2> SUFFICES ASSUME IInv, [Next]_vars PROVE IInv'
    OBVIOUS
  <2>1. TypeOK /\ TypeOK' /\ EventsBare /\ EventsBare' /\ Ordered'
    BY TypeStep, EventsBareStep, OrderedStep DEF IInv
  <2>2. CASE UNCHANGED vars
    <3>1. Line' = Line
      BY <2>2 DEF Line, vars
    <3>2. UNCHANGED <<arrived, ring, uart0_queue, event, flushed, silent>>
      BY <2>2 DEF vars
    <3>3. \A p : /\ Gap(p)' <=> Gap(p)
                 /\ \A c : Told(p, c)' <=> Told(p, c)
      BY <3>1, <3>2, Zenon DEF Gap, Index, Told, FifoOverflow
    <3> QED
      BY <2>1, <3>1, <3>2, <3>3, Zenon DEF IInv, Accounted
  <2>3. Next => Accounted'
    BY <2>1, ArriveAccounts, MoveAccounts, ReceiveAccounts, HandleAccounts, FlushAccounts, Zenon
       DEF IInv, Next
  <2> QED
    BY <2>1, <2>2, <2>3, Zenon DEF IInv
<1> QED
  BY <1>1, <1>2

(* The invariant holds in every state of every behaviour. *)
THEOREM LinkInvariant == Spec => []IInv
BY Invariance, PTL DEF Spec

(* Types hold, whatever the sizes of FIFO, ring and event queue. *)
THEOREM LinkTypes == Spec => []TypeOK
<1>1. IInv => TypeOK
  BY DEF IInv
<1> QED
  BY <1>1, LinkInvariant, PTL

(* uart_read_bytes never waits for bytes: those an event announced are in  *)
(* the ring when the task comes to it, after any flush, reset or discard.  *)
THEOREM NeverBlocks == Spec => []ReadNeverBlocks
<1>1. IInv => ReadNeverBlocks
  <2> SUFFICES ASSUME IInv, event.type = "UART_DATA" PROVE Len(ring) >= Len(event.bytes)
    BY DEF ReadNeverBlocks
  <2>1. ~ flushed
    <3>1. event \notin {FifoOverflow, BufferFull}
      BY DEF FifoOverflow, BufferFull
    <3> QED
      BY <3>1, Zenon DEF IInv, EventsBare
  <2>2. PICK cuts \in [0 .. Len(uart0_queue) -> 0 .. RingCap] :
          Announced(cuts, event, uart0_queue, ring)
    BY <2>1, Zenon DEF IInv, Accounted
  <2>3. 0 \in 0 .. Len(uart0_queue) /\ Len(uart0_queue) \in 0 .. Len(uart0_queue)
        /\ 0 <= Len(uart0_queue) /\ Len(ring) \in Nat
    BY DEF IInv, TypeOK
  <2>4. /\ cuts[0] = Len(event.bytes) /\ cuts[0] <= cuts[Len(uart0_queue)]
        /\ cuts[Len(uart0_queue)] <= Len(ring)
    BY <2>2, <2>3 DEF Announced
  <2>5. cuts[0] \in 0 .. RingCap /\ cuts[Len(uart0_queue)] \in 0 .. RingCap
    BY <2>3
  <2> QED
    BY <2>3, <2>4, <2>5
<1> QED
  BY <1>1, LinkInvariant, PTL

(* A frame with the head of one and the tail of another is only built when *)
(* an overflow went unannounced: any other is told of before its bytes.    *)
THEOREM TornSilently == Spec => TornOnlySilently
<1>1. IInv /\ [Next]_vars => [got' # got /\ got'.head # got'.tail => silent]_vars
  <2> SUFFICES ASSUME IInv, Next, got' # got, got'.head # got'.tail PROVE silent
    BY DEF vars
  <2>1. HandleData
    BY Zenon DEF Next, Arrive, Interrupt, Restock, ReceiveEvent, Flush, ResetQueue
  <2>2. PICK found \in SUBSET Starts(Chunk) : Deliver(found)
    BY <2>1 DEF HandleData
  <2>3. PICK i \in found :
          /\ i \in 1 .. Len(event.bytes) - 1 /\ i + 1 \in 1 .. Len(Line) /\ i \in 1 .. Len(Line)
          /\ Line[i].part = "head" /\ Line[i + 1].part = "tail"
          /\ got'.head = Line[i].frame /\ got'.tail = Line[i + 1].frame
    BY <2>1, <2>2, Delivered DEF IInv
  <2>4. Line \in Seq(Half) /\ Len(Line) \in Nat
    BY LineHalves DEF IInv, TypeOK, Line
  <2>5. Line[i] \in Half /\ Line[i + 1] \in Half
    BY <2>3, <2>4
  <2>6. /\ Index(Line[i]) = 2 * got'.head - 1 /\ Index(Line[i + 1]) = 2 * got'.tail
        /\ got'.head \in Nat /\ got'.tail \in Nat
    BY <2>3, <2>5, IndexType
  <2>7. Gap(i)
    <3>1. i < Len(Line)
      BY <2>3, <2>4
    <3>2. Index(Line[i]) + 1 # Index(Line[i + 1])
      BY <2>6
    <3> QED
      BY <3>1, <3>2 DEF Gap
  <2> QED
    BY <2>1, <2>3, <2>7, GapAnnounced DEF IInv
<1> QED
  BY <1>1, LinkInvariant, PTL DEF Spec, TornOnlySilently

-----------------------------------------------------------------------------
(* Frames found in one event are no more than there are numbers from the   *)
(* last frame delivered to the last one found: each has a tail of its own. *)
LEMMA BatchBounded ==
  ASSUME TypeOK, Ordered, HandleData, NEW found \in SUBSET Starts(Chunk), Deliver(found)
  PROVE  /\ got.tail < got'.tail /\ got'.tail \in Nat
         /\ Cardinality(found) \in 1 .. got'.tail - got.tail
<1>1. PICK i \in found :
        /\ \A j \in found : j <= i
        /\ i \in 1 .. Len(event.bytes) - 1 /\ i + 1 \in 1 .. Len(Line)
        /\ Line[i + 1].part = "tail" /\ got'.tail = Line[i + 1].frame
  BY Delivered
<1>2. /\ Line \in Seq(Half) /\ Len(Line) \in Nat /\ got.tail \in Nat
      /\ \A k \in 1 .. Len(Line) : Line[k] \in Half
  BY LineHalves DEF TypeOK, Line
<1>3. /\ Len(Chunk) \in Nat /\ Len(Chunk) <= Len(Line)
      /\ \A k \in 1 .. Len(Chunk) : Chunk[k] = Line[k]
  <2>1. Len(ring) \in Nat
    BY DEF TypeOK
  <2>2. /\ Len(event.bytes) \in 0 .. Len(ring) /\ Len(ring) <= Len(Line)
        /\ Len(Chunk) = Len(event.bytes)
    BY LineHandled
  <2>3. Len(Chunk) \in Nat /\ Len(Chunk) <= Len(Line)
    BY <1>2, <2>1, <2>2
  <2> QED
    BY <2>3, LineHandled
<1>4. \A j \in found : /\ j \in 1 .. Len(Chunk) - 1 /\ Chunk[j + 1].part = "tail"
  BY DEF Starts
<1>5. \A j \in found : j \in Nat /\ j + 1 \in 1 .. Len(Line) /\ Line[j + 1].part = "tail"
  BY <1>2, <1>3, <1>4
<1>6. \A j \in found : /\ 2 * Line[j + 1].frame = Index(Line[j + 1])
                       /\ Line[j + 1].frame \in Nat
                       /\ 2 * got.tail < Index(Line[j + 1])
  BY <1>2, <1>5, IndexType DEF Ordered
<1>7. ASSUME NEW j \in found, NEW k \in found, j < k
      PROVE  Line[j + 1].frame < Line[k + 1].frame
  <2>1. j + 1 < k + 1
    BY <1>5, <1>7
  <2>2. Index(Line[j + 1]) < Index(Line[k + 1])
    BY <1>5, <2>1 DEF Ordered
  <2> QED
    BY <1>6, <2>2
<1>8. ASSUME NEW j \in found
      PROVE  Line[j + 1].frame \in got.tail + 1 .. got'.tail
  <2>1. got.tail < Line[j + 1].frame /\ Line[j + 1].frame \in Nat /\ Line[i + 1].frame \in Nat
    BY <1>2, <1>6
  <2>2. j = i \/ j < i
    BY <1>1, <1>5
  <2>3. Line[j + 1].frame <= got'.tail
    BY <1>1, <1>7, <2>1, <2>2
  <2> QED
    BY <1>1, <1>2, <2>1, <2>3
<1>9. got'.tail \in Nat /\ got.tail < got'.tail
  <2>1. got'.tail \in got.tail + 1 .. got'.tail /\ got'.tail \in Nat
    BY <1>1, <1>6, <1>8
  <2> QED
    BY <1>2, <2>1
<1> DEFINE T == got.tail + 1 .. got'.tail
           frameOf == [j \in found |-> Line[j + 1].frame]
<1>10. IsFiniteSet(T) /\ Cardinality(T) = got'.tail - got.tail
  <2>1. got.tail + 1 \in Int /\ got'.tail \in Int /\ got.tail + 1 <= got'.tail
    BY <1>2, <1>9
  <2>2. IsFiniteSet(T) /\ Cardinality(T) = got'.tail - (got.tail + 1) + 1
    BY <2>1, FS_Interval
  <2> QED
    BY <1>2, <1>9, <2>2
<1>11. frameOf \in Injection(found, T)
  <2>1. frameOf \in [found -> T]
    BY <1>8
  <2>2. ASSUME NEW j \in found, NEW k \in found, frameOf[j] = frameOf[k] PROVE j = k
    <3>1. Line[j + 1].frame = Line[k + 1].frame
      BY <2>2
    <3>2. ~(j < k) /\ ~(k < j)
      BY <1>6, <1>7, <3>1
    <3> QED
      BY <1>5, <3>2
  <2> QED
    BY <2>1, <2>2 DEF Injection, IsInjective
<1> HIDE DEF T, frameOf
<1>12. IsFiniteSet(found) /\ Cardinality(found) <= Cardinality(T)
  BY <1>10, <1>11, FS_Injection
<1>13. Cardinality(found) \in Nat /\ Cardinality(found) # 0
  BY <1>1, <1>12, FS_CardinalityType, FS_EmptySet
<1> QED
  BY <1>2, <1>9, <1>10, <1>12, <1>13

(* Every step writes at most one frame or delivers a batch of newer ones.  *)
LEMMA LinkStep ==
  ASSUME IInv, IInv', [Next]_vars
  PROVE  [Link!Next]_<<(arrived + 1) \div 2, got>>
<1>1. CASE Arrive
  <2>1. got' = got /\ arrived' = arrived + 1 /\ arrived \in Nat /\ arrived < 2 * MaxFrames
    BY <1>1 DEF Arrive, IInv, TypeOK
  <2>2. \/ (arrived' + 1) \div 2 = (arrived + 1) \div 2
        \/ /\ (arrived' + 1) \div 2 = (arrived + 1) \div 2 + 1
           /\ (arrived + 1) \div 2 < MaxFrames
    BY <2>1
  <2> QED
    BY <2>1, <2>2 DEF Link!Next, Link!Write
<1>2. CASE HandleData /\ got' # got
  <2>1. PICK found \in SUBSET Starts(Chunk) : Deliver(found)
    BY <1>2 DEF HandleData
  <2>2. TypeOK /\ Ordered
    BY DEF IInv
  <2>3. PICK i \in found :
          /\ i \in 1 .. Len(event.bytes) - 1 /\ i + 1 \in 1 .. Len(Line) /\ i \in 1 .. Len(Line)
          /\ Line[i].part = "head" /\ Line[i + 1].part = "tail"
          /\ got'.head = Line[i].frame /\ got'.tail = Line[i + 1].frame
          /\ got'.count = got.count + Cardinality(found)
          /\ got' = [head |-> got'.head, tail |-> got'.tail, count |-> got'.count]
    BY <1>2, <2>1, <2>2, Delivered
  <2>4. Cardinality(found) \in 1 .. got'.tail - got.tail
    BY <1>2, <2>1, <2>2, BatchBounded
  <2>5. /\ Line \in Seq(Half) /\ Len(Line) \in Nat /\ got.tail \in Nat /\ arrived \in Nat
        /\ \A k \in 1 .. Len(Line) : Line[k] \in Half
    BY <2>2, LineHalves DEF TypeOK, Line
  <2>6. /\ Index(Line[i]) = 2 * got'.head - 1 /\ Index(Line[i + 1]) = 2 * got'.tail
        /\ got'.head \in Nat /\ got'.tail \in Nat
    BY <2>3, <2>5, IndexType
  <2>7. /\ 2 * got.tail < Index(Line[i]) /\ Index(Line[i]) < Index(Line[i + 1])
        /\ Index(Line[i + 1]) <= arrived
    <3>1. i < i + 1
      BY <2>3
    <3> QED
      BY <2>2, <2>3, <3>1 DEF Ordered
  <2>8. /\ got'.head \in got.tail + 1 .. (arrived + 1) \div 2
        /\ got'.tail \in got'.head .. (arrived + 1) \div 2
    <3> DEFINE a == arrived  h == got'.head  t == got'.tail  o == got.tail
    <3>1. /\ a \in Nat /\ h \in Nat /\ t \in Nat /\ o \in Nat
          /\ 2 * o < 2 * h - 1 /\ 2 * h - 1 < 2 * t /\ 2 * t <= a
      BY <2>5, <2>6, <2>7
    <3> HIDE DEF a, h, t, o
    <3>2. h \in o + 1 .. (a + 1) \div 2 /\ t \in h .. (a + 1) \div 2
      BY <3>1
    <3> QED
      BY <3>2 DEF a, h, t, o
  <2>9. Link!Deliver
    <3>1. arrived' = arrived
      BY <1>2 DEF HandleData
    <3>2. got' = [head |-> got'.head, tail |-> got'.tail, count |-> got.count + Cardinality(found)]
      BY <2>3
    <3> QED
      BY <2>4, <2>8, <3>1, <3>2 DEF Link!Deliver
  <2> QED
    BY <2>9 DEF Link!Next
<1>3. CASE UNCHANGED <<arrived, got>>
  BY <1>3
<1>4. Interrupt \/ Restock \/ ReceiveEvent \/ Flush \/ ResetQueue \/ UNCHANGED vars
        => UNCHANGED <<arrived, got>>
  BY Zenon DEF Interrupt, Restock, ReceiveEvent, Flush, ResetQueue, vars
<1>5. HandleData => arrived' = arrived
  BY DEF HandleData
<1> QED
  BY <1>1, <1>2, <1>3, <1>4, <1>5, Zenon DEF Next

(* The driver and the task implement LossyLink: across cuts, flushes and   *)
(* overflows frames are lost but none is repeated, reordered or made up,   *)
(* for every number of frames and every size of the buffers.               *)
THEOREM LinkImplements == Spec => InOrderLink
<1>1. Init => Link!Init
  BY DEF Init, Link!Init
<1>2. IInv /\ IInv' /\ [Next]_vars => [Link!Next]_<<(arrived + 1) \div 2, got>>
  BY LinkStep
<1> QED
  BY <1>1, <1>2, LinkInvariant, PTL DEF Spec, InOrderLink, Link!Spec
=============================================================================
