--------------------------- MODULE EspCrabProofs ---------------------------
(***************************************************************************)
(* Proofs about EspCrab for every value of its constants: types, the heap  *)
(* accounting of both receivers, the five causes of a wrong pair, and the  *)
(* order of what is plotted.                                               *)
(***************************************************************************)
EXTENDS EspCrab, SequenceTheorems, TLAPS

USE CapsAssumption, TableAssumption

(* What the receive queues point to was really transmitted. *)
QueuesGenuine ==
  \A r \in Receivers :
    /\ Len(rxq[r]) <= RxCap
    /\ \A i \in 1 .. Len(rxq[r]) : rxq[r][i].epoch > 0
    /\ job[r] # NoTx => job[r].epoch > 0

(* While a row is being stored, it already has the id of the block in hand. *)
StoreHeadDone ==
  storing => /\ job["master"] # NoTx
             /\ master_data[Slot(job["master"].id)].id = job["master"].id

(* A row no store is in the middle of holds one capture and its own id. *)
Coherent(row) == row = ZeroRow \/ (row.cir.epoch > 0 /\ row.cir.id = row.id)

BeingStored(s) == storing /\ Slot(job["master"].id) = s

TableCoherent ==
  \A s \in 0 .. TableSize - 1 : BeingStored(s) \/ Coherent(master_data[s])

(* A read of a row that no store overlapped saw one and the same row. *)
ReadCoherent ==
  copying /\ ~overlap =>
    /\ ~BeingStored(Slot(csi_display_data.id))
    /\ copied_id = master_data[Slot(csi_display_data.id)].id

-----------------------------------------------------------------------------
(* A slot is a row of the table. *)
LEMMA SlotInTable ==
  ASSUME NEW id \in Nat
  PROVE  Slot(id) \in 0 .. TableSize - 1
BY DEF Slot

(* What a callback's offer leaves in a receive queue: within the capacity, *)
(* one item more unless it was full, and genuine transmissions only.       *)
LEMMA OfferCapture ==
  ASSUME NEW q \in Seq(Transmission), NEW p \in Transmission, p.epoch > 0,
         Len(q) <= RxCap, \A i \in 1 .. Len(q) : q[i].epoch > 0
  PROVE  /\ Offer(q, p, RxCap) \in Seq(Transmission)
         /\ Len(Offer(q, p, RxCap)) <= RxCap
         /\ Len(q) = RxCap => Len(Offer(q, p, RxCap)) = Len(q)
         /\ Len(q) # RxCap => Len(Offer(q, p, RxCap)) = Len(q) + 1
         /\ \A i \in 1 .. Len(Offer(q, p, RxCap)) : Offer(q, p, RxCap)[i].epoch > 0
<1>1. CASE Len(q) = RxCap
  BY <1>1, CapsAssumption DEF Offer
<1>2. CASE Len(q) < RxCap
  <2>1. Offer(q, p, RxCap) = Append(q, p)
    BY <1>2 DEF Offer
  <2>2. /\ Append(q, p) \in Seq(Transmission) /\ Len(Append(q, p)) = Len(q) + 1
        /\ Append(q, p)[Len(q) + 1] = p
        /\ \A i \in 1 .. Len(q) : Append(q, p)[i] = q[i]
    OBVIOUS
  <2>3. \A i \in 1 .. Len(q) + 1 : i \in 1 .. Len(q) \/ i = Len(q) + 1
    OBVIOUS
  <2> QED
    BY <1>2, <2>1, <2>2, <2>3, CapsAssumption
<1> QED
  BY <1>1, <1>2, CapsAssumption

(* A queue that is offered a transmission stays a queue of them. *)
LEMMA OfferType ==
  ASSUME NEW S, NEW q \in Seq(S), NEW item \in S, NEW cap \in Nat
  PROVE  Offer(q, item, cap) \in Seq(S)
BY DEF Offer

(* A queue that loses one item keeps the others in their order. *)
LEMMA WithoutSeq ==
  ASSUME NEW S, NEW q \in Seq(S), NEW i \in 1 .. Len(q)
  PROVE  /\ Without(q, i) \in Seq(S) /\ Len(Without(q, i)) = Len(q) - 1
         /\ \A n \in 1 .. Len(q) - 1 :
              Without(q, i)[n] = IF n < i THEN q[n] ELSE q[n + 1]
BY DEF Without

(* A transmission is a frame of its own. *)
LEMMA WholeFrame ==
  ASSUME NEW p \in Transmission
  PROVE  /\ Whole(p) \in Frame
         /\ Whole(p).id = p.id /\ Whole(p).head = p /\ Whole(p).tail = p
BY DEF Whole, Frame, Transmission

(* A frame cut from two has the id bytes of the one and of the other. *)
LEMMA SplicedFrame ==
  ASSUME NEW p \in Transmission, NEW q \in Transmission, NEW id \in SplicedIds(p, q)
  PROVE  [id |-> id, head |-> p, tail |-> q] \in Frame
<1>1. PICK cut \in IdCuts : id = (p.id % cut) + (q.id \div cut) * cut
  BY DEF SplicedIds
<1>2. cut \in Nat /\ cut > 0 /\ p.id \in Nat /\ q.id \in Nat
  BY IdsAssumption DEF Transmission
<1>3. p.id % cut \in Nat /\ q.id \div cut \in Nat
  BY <1>2
<1>4. (q.id \div cut) * cut \in Nat
  BY <1>2, <1>3
<1>5. id \in Nat
  BY <1>1, <1>3, <1>4
<1> QED
  BY <1>5 DEF Frame

(* What is left of a queue after a receive. *)
LEMMA TailSeq ==
  ASSUME NEW S, NEW q \in Seq(S), q # <<>>
  PROVE  /\ Head(q) \in S /\ Head(q) = q[1]
         /\ Tail(q) \in Seq(S)
         /\ Len(Tail(q)) = Len(q) - 1 /\ Len(q) > 0
         /\ \A i \in 1 .. Len(Tail(q)) : Tail(q)[i] = q[i + 1]
OBVIOUS

(* What is left of a queue that lost its first two items. *)
LEMMA TwoTails ==
  ASSUME NEW S, NEW q \in Seq(S), Len(q) > 1
  PROVE  /\ q # <<>> /\ Tail(q) \in Seq(S) /\ Tail(q) # <<>>
         /\ Tail(Tail(q)) \in Seq(S) /\ Len(Tail(Tail(q))) = Len(q) - 2
         /\ \A i \in 1 .. Len(q) - 2 : Tail(Tail(q))[i] = q[i + 2]
<1>1. q # <<>> /\ Len(q) \in Nat
  OBVIOUS
<1>2. /\ Tail(q) \in Seq(S) /\ Len(Tail(q)) = Len(q) - 1
      /\ \A i \in 1 .. Len(Tail(q)) : Tail(q)[i] = q[i + 1]
  BY <1>1, TailSeq
<1>3. Tail(q) # <<>>
  <2> DEFINE rest == Tail(q)
  <2>1. Len(rest) > 0
    BY <1>1, <1>2
  <2> HIDE DEF rest
  <2>2. rest # <<>>
    BY <2>1
  <2> QED
    BY <2>2 DEF rest
<1>4. /\ Tail(Tail(q)) \in Seq(S) /\ Len(Tail(Tail(q))) = Len(Tail(q)) - 1
      /\ \A i \in 1 .. Len(Tail(Tail(q))) : Tail(Tail(q))[i] = Tail(q)[i + 1]
  BY <1>2, <1>3, TailSeq
<1>5. Len(Tail(Tail(q))) = Len(q) - 2
  BY <1>1, <1>2, <1>4
<1>6. ASSUME NEW i \in 1 .. Len(q) - 2 PROVE Tail(Tail(q))[i] = q[i + 2]
  <2>1. i \in 1 .. Len(Tail(Tail(q))) /\ i + 1 \in 1 .. Len(Tail(q)) /\ (i + 1) + 1 = i + 2
    BY <1>1, <1>2, <1>5
  <2> QED
    BY <1>2, <1>4, <2>1
<1> QED
  BY <1>1, <1>2, <1>3, <1>4, <1>5, <1>6

-----------------------------------------------------------------------------
(* The flags stay Booleans. *)
LEMMA FlagsStep == TypeOK /\ [Next]_vars => FlagsOK'
<1> SUFFICES ASSUME FlagsOK, [Next]_vars PROVE FlagsOK'
  BY DEF TypeOK
<1> USE DEF FlagsOK, sender, capture, display
<1>1. CASE Send
  BY <1>1, Zenon DEF Send
<1>2. CASE SenderRestart
  BY <1>2, Zenon DEF SenderRestart
<1>3. ASSUME NEW r \in Receivers, gpio_isr_handler(r) \/ TaskReceive(r) PROVE FlagsOK'
  BY <1>3, Zenon DEF gpio_isr_handler, TaskReceive
<1>4. CASE StoreHead
  BY <1>4, Zenon DEF StoreHead
<1>5. CASE StoreBody
  BY <1>5, Zenon DEF StoreBody
<1>6. CASE SlaveSendFrame \/ UartLoss \/ UartFrame
  BY <1>6, Zenon DEF SlaveSendFrame, UartLoss, UartFrame
<1>7. CASE DisplaySelf
  BY <1>7, Zenon DEF DisplaySelf
<1>8. CASE DisplayReceive
  BY <1>8, Zenon DEF DisplayReceive
<1>9. CASE DisplayPair
  BY <1>9, Zenon DEF DisplayPair
<1>10. CASE UNCHANGED vars
  BY <1>10, Zenon DEF vars
<1> QED
  BY <1>1, <1>2, <1>3, <1>4, <1>5, <1>6, <1>7, <1>8, <1>9, <1>10 DEF Next

(* What the callbacks, the tasks and the interrupt do to queues and heap: *)
(* the queued pointers and the blocks are accounted for in every step.    *)
CaptureOK ==
  /\ rxq \in [Receivers -> Seq(Transmission)]
  /\ job \in [Receivers -> Transmission]
  /\ live \in [Receivers -> Nat] /\ leaked \in [Receivers -> Nat]
  /\ QueuesGenuine
  /\ HeapAccounted

(* The callback queues a block that it has allocated, or frees it again. *)
LEMMA CallbackCapture ==
  ASSUME CaptureOK, NEW heard \in SUBSET Receivers, NEW p \in Transmission, p.epoch > 0,
         wifi_csi_rx_cb(heard, p)
  PROVE  CaptureOK'
<1>1. ASSUME NEW r \in Receivers
      PROVE  /\ rxq'[r] \in Seq(Transmission)
             /\ Len(rxq'[r]) <= RxCap
             /\ \A i \in 1 .. Len(rxq'[r]) : rxq'[r][i].epoch > 0
             /\ live'[r] \in Nat /\ leaked'[r] \in Nat
             /\ live'[r] = Len(rxq'[r]) + InHand(r) + leaked'[r]
  <2>1. /\ rxq[r] \in Seq(Transmission) /\ Len(rxq[r]) <= RxCap
        /\ \A i \in 1 .. Len(rxq[r]) : rxq[r][i].epoch > 0
    BY DEF CaptureOK, QueuesGenuine
  <2>2. /\ live[r] \in Nat /\ leaked[r] \in Nat /\ InHand(r) \in Nat
        /\ live[r] = Len(rxq[r]) + InHand(r) + leaked[r]
    BY DEF CaptureOK, HeapAccounted, InHand
  <2>3. CASE r \in heard
    <3>1. /\ rxq'[r] = Offer(rxq[r], p, RxCap)
          /\ live'[r] = live[r] + 1
          /\ Len(rxq[r]) = RxCap => leaked'[r] = leaked[r] + 1
          /\ Len(rxq[r]) # RxCap => leaked'[r] = leaked[r]
      BY <2>3 DEF wifi_csi_rx_cb
    <3>2. /\ rxq'[r] \in Seq(Transmission) /\ Len(rxq'[r]) <= RxCap
          /\ Len(rxq[r]) = RxCap => Len(rxq'[r]) = Len(rxq[r])
          /\ Len(rxq[r]) # RxCap => Len(rxq'[r]) = Len(rxq[r]) + 1
          /\ \A i \in 1 .. Len(rxq'[r]) : rxq'[r][i].epoch > 0
      BY <2>1, <3>1, OfferCapture
    <3>3. Len(rxq[r]) \in Nat /\ Len(rxq'[r]) \in Nat
      BY <2>1, <3>2
    <3>4. live'[r] \in Nat /\ leaked'[r] \in Nat
      BY <2>2, <3>1
    <3>5. live'[r] = Len(rxq'[r]) + InHand(r) + leaked'[r]
      <4>1. CASE Len(rxq[r]) = RxCap
        <5>1. leaked'[r] = leaked[r] + 1 /\ Len(rxq'[r]) = Len(rxq[r]) /\ live'[r] = live[r] + 1
          BY <3>1, <3>2, <4>1
        <5> QED
          BY <2>2, <3>3, <5>1
      <4>2. CASE Len(rxq[r]) # RxCap
        <5>1. leaked'[r] = leaked[r] /\ Len(rxq'[r]) = Len(rxq[r]) + 1 /\ live'[r] = live[r] + 1
          BY <3>1, <3>2, <4>2
        <5> QED
          BY <2>2, <3>3, <5>1, SMTT(60)
      <4> QED
        BY <4>1, <4>2
    <3> QED
      BY <3>2, <3>4, <3>5
  <2>4. CASE r \notin heard
    BY <2>1, <2>2, <2>4 DEF wifi_csi_rx_cb
  <2> QED
    BY <2>3, <2>4
<1>2. /\ rxq' \in [Receivers -> Seq(Transmission)]
      /\ live' \in [Receivers -> Nat] /\ leaked' \in [Receivers -> Nat]
      /\ job' = job
  BY <1>1 DEF wifi_csi_rx_cb
<1>3. QueuesGenuine'
  BY <1>1, <1>2 DEF CaptureOK, QueuesGenuine
<1>4. HeapAccounted'
  BY <1>1, <1>2 DEF HeapAccounted, InHand
<1> QED
  BY <1>2, <1>3, <1>4 DEF CaptureOK

(* A step that leaves the receivers' queues and heaps alone. *)
LEMMA CaptureUnchanged == CaptureOK /\ UNCHANGED capture => CaptureOK'
BY DEF capture, CaptureOK, QueuesGenuine, HeapAccounted, InHand

(* The interrupt moves every queued block to the leaked ones. *)
LEMMA InterruptCapture ==
  ASSUME CaptureOK, NEW r0 \in Receivers, gpio_isr_handler(r0)
  PROVE  CaptureOK'
<1>1. /\ rxq' = [rxq EXCEPT ![r0] = <<>>]
      /\ leaked' = [leaked EXCEPT ![r0] = @ + Len(rxq[r0])]
      /\ live' = live /\ job' = job
  BY DEF gpio_isr_handler
<1>2. ASSUME NEW r \in Receivers
      PROVE  /\ rxq[r] \in Seq(Transmission) /\ Len(rxq[r]) \in Nat /\ InHand(r) \in Nat
             /\ live[r] \in Nat /\ leaked[r] \in Nat
             /\ live[r] = Len(rxq[r]) + InHand(r) + leaked[r]
  BY DEF CaptureOK, HeapAccounted, InHand
<1>3. /\ rxq' \in [Receivers -> Seq(Transmission)]
      /\ leaked' \in [Receivers -> Nat]
      /\ live' \in [Receivers -> Nat] /\ job' \in [Receivers -> Transmission]
  BY <1>1, <1>2 DEF CaptureOK
<1>4. ASSUME NEW r \in Receivers
      PROVE  /\ Len(rxq'[r]) <= RxCap
             /\ \A i \in 1 .. Len(rxq'[r]) : rxq'[r][i].epoch > 0
  <2>1. CASE r = r0
    BY <1>1, <2>1, CapsAssumption DEF CaptureOK
  <2>2. CASE r # r0
    BY <1>1, <2>2 DEF CaptureOK, QueuesGenuine
  <2> QED
    BY <2>1, <2>2
<1>5. QueuesGenuine'
  BY <1>1, <1>4 DEF CaptureOK, QueuesGenuine
<1>6. ASSUME NEW r \in Receivers
      PROVE  live'[r] = Len(rxq'[r]) + InHand(r) + leaked'[r]
  <2>1. CASE r = r0
    <3>1. rxq'[r] = <<>> /\ leaked'[r] = leaked[r] + Len(rxq[r]) /\ live'[r] = live[r]
      BY <1>1, <2>1 DEF CaptureOK
    <3>2. Len(rxq'[r]) = 0
      BY <3>1
    <3> QED
      BY <1>2, <3>1, <3>2
  <2>2. CASE r # r0
    BY <1>1, <1>2, <2>2
  <2> QED
    BY <2>1, <2>2
<1>7. HeapAccounted'
  BY <1>1, <1>6 DEF HeapAccounted, InHand
<1> QED
  BY <1>3, <1>5, <1>7 DEF CaptureOK

(* A receive moves one block from the queue into the task's hands. *)
LEMMA ReceiveCapture ==
  ASSUME CaptureOK, NEW r0 \in Receivers, TaskReceive(r0)
  PROVE  CaptureOK'
<1>1. /\ rxq' = [rxq EXCEPT ![r0] = Tail(@)]
      /\ job' = [job EXCEPT ![r0] = Head(rxq[r0])]
      /\ live' = live /\ leaked' = leaked
      /\ job[r0] = NoTx /\ rxq[r0] # <<>>
  BY DEF TaskReceive
<1>2. ASSUME NEW r \in Receivers
      PROVE  /\ rxq[r] \in Seq(Transmission) /\ Len(rxq[r]) \in Nat /\ InHand(r) \in Nat
             /\ live[r] \in Nat /\ leaked[r] \in Nat
             /\ live[r] = Len(rxq[r]) + InHand(r) + leaked[r]
  BY DEF CaptureOK, HeapAccounted, InHand
<1>3. /\ rxq[r0][1].epoch > 0 /\ Head(rxq[r0]) = rxq[r0][1]
      /\ Head(rxq[r0]) \in Transmission
      /\ Tail(rxq[r0]) \in Seq(Transmission)
      /\ Len(Tail(rxq[r0])) = Len(rxq[r0]) - 1
      /\ \A i \in 1 .. Len(Tail(rxq[r0])) : Tail(rxq[r0])[i] = rxq[r0][i + 1]
  BY <1>1, <1>2, TailSeq DEF CaptureOK, QueuesGenuine
<1>4. /\ rxq' \in [Receivers -> Seq(Transmission)]
      /\ leaked' \in [Receivers -> Nat]
      /\ live' \in [Receivers -> Nat] /\ job' \in [Receivers -> Transmission]
  BY <1>1, <1>3 DEF CaptureOK
<1>5. ASSUME NEW r \in Receivers
      PROVE  /\ Len(rxq'[r]) <= RxCap
             /\ \A i \in 1 .. Len(rxq'[r]) : rxq'[r][i].epoch > 0
             /\ job'[r] # NoTx => job'[r].epoch > 0
             /\ live'[r] = Len(rxq'[r]) + InHand(r)' + leaked'[r]
  <2>1. CASE r = r0
    <3>1. rxq'[r] = Tail(rxq[r0]) /\ job'[r] = Head(rxq[r0])
      BY <1>1, <2>1 DEF CaptureOK
    <3>2. /\ Len(Tail(rxq[r0])) <= RxCap
          /\ \A i \in 1 .. Len(Tail(rxq[r0])) : Tail(rxq[r0])[i].epoch > 0
      <4>1. Len(rxq[r0]) <= RxCap /\ \A i \in 1 .. Len(rxq[r0]) : rxq[r0][i].epoch > 0
        BY DEF CaptureOK, QueuesGenuine
      <4>2. \A i \in 1 .. Len(rxq[r0]) - 1 : i + 1 \in 1 .. Len(rxq[r0])
        BY <1>2
      <4> QED
        BY <1>2, <1>3, <4>1, <4>2, CapsAssumption
    <3>3. job'[r].epoch > 0
      BY <1>3, <3>1
    <3>4. InHand(r) = 0 /\ InHand(r)' = 1
      BY <1>1, <2>1, <3>3 DEF InHand, NoTx
    <3>5. Len(rxq'[r]) = Len(rxq[r]) - 1 /\ live'[r] = live[r] /\ leaked'[r] = leaked[r]
      BY <1>1, <1>3, <2>1, <3>1
    <3>6. live'[r] = Len(rxq'[r]) + InHand(r)' + leaked'[r]
      BY <1>2, <3>4, <3>5
    <3> QED
      BY <3>1, <3>2, <3>3, <3>6
  <2>2. CASE r # r0
    <3>1. rxq'[r] = rxq[r] /\ job'[r] = job[r]
      BY <1>1, <2>2
    <3>2. InHand(r)' = InHand(r)
      BY <3>1 DEF InHand
    <3> QED
      BY <1>1, <1>2, <3>1, <3>2 DEF CaptureOK, QueuesGenuine
  <2> QED
    BY <2>1, <2>2
<1>6. QueuesGenuine' /\ HeapAccounted'
  BY <1>5 DEF QueuesGenuine, HeapAccounted
<1> QED
  BY <1>4, <1>6 DEF CaptureOK

(* A free ends the task's hold on its block. *)
LEMMA FreeCapture ==
  ASSUME CaptureOK, NEW r0 \in Receivers, job[r0] # NoTx, FreeJob(r0)
  PROVE  CaptureOK'
<1>1. /\ job' = [job EXCEPT ![r0] = NoTx]
      /\ live' = [live EXCEPT ![r0] = @ - 1]
      /\ rxq' = rxq /\ leaked' = leaked
  BY DEF FreeJob
<1>2. ASSUME NEW r \in Receivers
      PROVE  /\ Len(rxq[r]) \in Nat /\ InHand(r) \in Nat
             /\ live[r] \in Nat /\ leaked[r] \in Nat
             /\ live[r] = Len(rxq[r]) + InHand(r) + leaked[r]
  BY DEF CaptureOK, HeapAccounted, InHand
<1>3. ASSUME NEW r \in Receivers
      PROVE  /\ live'[r] \in Nat
             /\ live'[r] = Len(rxq'[r]) + InHand(r)' + leaked'[r]
             /\ job'[r] \in Transmission
             /\ job'[r] # NoTx => job'[r].epoch > 0
  <2>1. CASE r = r0
    <3>1. job'[r] = NoTx /\ live'[r] = live[r] - 1
      BY <1>1, <2>1 DEF CaptureOK
    <3>2. InHand(r) = 1 /\ InHand(r)' = 0
      BY <2>1, <3>1 DEF InHand
    <3>3. NoTx \in Transmission
      BY DEF NoTx, Transmission
    <3> QED
      BY <1>1, <1>2, <3>1, <3>2, <3>3, SMTT(60)
  <2>2. CASE r # r0
    <3>1. job'[r] = job[r] /\ live'[r] = live[r]
      BY <1>1, <2>2
    <3>2. InHand(r)' = InHand(r)
      BY <3>1 DEF InHand
    <3> QED
      BY <1>1, <1>2, <3>1, <3>2 DEF CaptureOK, QueuesGenuine
  <2> QED
    BY <2>1, <2>2
<1>4. /\ live' \in [Receivers -> Nat] /\ job' \in [Receivers -> Transmission]
      /\ rxq' \in [Receivers -> Seq(Transmission)] /\ leaked' \in [Receivers -> Nat]
  BY <1>1, <1>3 DEF CaptureOK
<1>5. QueuesGenuine' /\ HeapAccounted'
  BY <1>1, <1>3 DEF CaptureOK, QueuesGenuine, HeapAccounted
<1> QED
  BY <1>4, <1>5 DEF CaptureOK

(* Every step keeps the receivers' queues and heaps accounted for. *)
LEMMA CaptureStep ==
  TypeOK /\ CaptureOK /\ StoreHeadDone /\ [Next]_vars => CaptureOK'
<1> SUFFICES ASSUME TypeOK, CaptureOK, StoreHeadDone, [Next]_vars PROVE CaptureOK'
  OBVIOUS
<1>1. CASE Send
  <2>1. PICK heard \in SUBSET Listening :
          wifi_csi_rx_cb(heard, [epoch |-> epoch, id |-> count])
    BY <1>1 DEF Send
  <2>2. heard \in SUBSET Receivers
    BY DEF Listening, Receivers
  <2>3. epoch \in Nat /\ epoch > 0 /\ count \in Nat
    BY DEF TypeOK, DataOK
  <2> DEFINE p == [epoch |-> epoch, id |-> count]
  <2>4. p \in Transmission /\ p.epoch > 0
    BY <2>3 DEF Transmission
  <2> QED
    BY <2>1, <2>2, <2>4, CallbackCapture
<1>2. CASE SenderRestart
  BY <1>2, CaptureUnchanged DEF SenderRestart
<1>3. ASSUME NEW r \in Receivers, gpio_isr_handler(r) PROVE CaptureOK'
  BY <1>3, InterruptCapture
<1>4. ASSUME NEW r \in Receivers, TaskReceive(r) PROVE CaptureOK'
  BY <1>4, ReceiveCapture
<1>5. CASE StoreHead
  BY <1>5, CaptureUnchanged DEF StoreHead
<1>6. CASE StoreBody
  <2>1. job["master"] # NoTx /\ FreeJob("master") /\ "master" \in Receivers
    BY <1>6 DEF StoreBody, StoreHeadDone, Receivers
  <2> QED
    BY <2>1, FreeCapture
<1>7. CASE SlaveSendFrame
  <2>1. job["slave"] # NoTx /\ FreeJob("slave") /\ "slave" \in Receivers
    BY <1>7 DEF SlaveSendFrame, Receivers
  <2> QED
    BY <2>1, FreeCapture
<1>8. CASE UartLoss \/ UartFrame
  BY <1>8, CaptureUnchanged DEF UartLoss, UartFrame
<1>9. CASE DisplaySelf
  BY <1>9, CaptureUnchanged DEF DisplaySelf
<1>10. CASE DisplayReceive
  BY <1>10, CaptureUnchanged DEF DisplayReceive
<1>11. CASE DisplayPair
  BY <1>11, CaptureUnchanged DEF DisplayPair
<1>12. CASE UNCHANGED vars
  BY <1>12, CaptureUnchanged DEF vars
<1> QED
  BY <1>1, <1>2, <1>3, <1>4, <1>5, <1>6, <1>7, <1>8, <1>9, <1>10, <1>11, <1>12 DEF Next

-----------------------------------------------------------------------------
(* The types of what the tasks after the receive queues keep. *)
TasksOK ==
  /\ epoch \in Nat \ {0} /\ count \in Nat
  /\ master_data \in [0 .. TableSize - 1 -> Row]
  /\ csi_display_queue \in Seq(Transmission)
  /\ wire \in Seq(Transmission) /\ uart_recv_queue \in Seq(Frame)

ScreenOK ==
  /\ csi_display_data \in Frame /\ csi_display_data_new \in Frame
  /\ copied_id \in Nat /\ chart \in Nat
  /\ shown \in [frame : Frame, master : Transmission, overlap : BOOLEAN]

(* The tasks stay where their loops have them. *)
LEMMA TasksStep ==
  TypeOK /\ [Next]_vars => TasksOK'
<1> SUFFICES ASSUME TypeOK, [Next]_vars PROVE TasksOK'
  OBVIOUS
<1>0. TasksOK /\ job \in [Receivers -> Transmission]
  BY DEF TypeOK, DataOK, TasksOK
<1>1. CASE Send
  BY <1>0, <1>1 DEF Send, TasksOK
<1>2. CASE SenderRestart
  BY <1>0, <1>2 DEF SenderRestart, TasksOK
<1>3. ASSUME NEW r \in Receivers, gpio_isr_handler(r) \/ TaskReceive(r) PROVE TasksOK'
  BY <1>0, <1>3 DEF gpio_isr_handler, TaskReceive, sender, TasksOK
<1>4. CASE StoreHead
  <2>1. job["master"].id \in Nat
    BY <1>0 DEF Receivers, Transmission
  <2>2. Slot(job["master"].id) \in 0 .. TableSize - 1
    BY <2>1, SlotInTable
  <2>3. master_data' \in [0 .. TableSize - 1 -> Row]
    BY <1>0, <1>4, <2>1, <2>2 DEF StoreHead, TasksOK, Row
  <2> QED
    BY <1>0, <1>4, <2>3 DEF StoreHead, sender, TasksOK
<1>5. CASE StoreBody
  <2>1. job["master"] \in Transmission /\ job["master"].id \in Nat
    BY <1>0 DEF Receivers, Transmission
  <2>2. Slot(job["master"].id) \in 0 .. TableSize - 1
    BY <2>1, SlotInTable
  <2>3. master_data' \in [0 .. TableSize - 1 -> Row]
    BY <1>0, <1>5, <2>1, <2>2 DEF StoreBody, TasksOK, Row
  <2>4. csi_display_queue' \in Seq(Transmission)
    BY <1>0, <1>5, <2>1, OfferType, CapsAssumption DEF StoreBody, TasksOK
  <2> QED
    BY <1>0, <1>5, <2>3, <2>4 DEF StoreBody, sender, TasksOK
<1>6. CASE SlaveSendFrame
  <2>1. job["slave"] \in Transmission
    BY <1>0 DEF Receivers
  <2> QED
    BY <1>0, <1>6, <2>1 DEF SlaveSendFrame, sender, TasksOK
<1>7. CASE UartFrame
  <2>1. wire \in Seq(Transmission) /\ uart_recv_queue \in Seq(Frame) /\ UartCap \in Nat
    BY <1>0, CapsAssumption DEF TasksOK
  <2>2. Head(wire) \in Transmission /\ Tail(wire) \in Seq(Transmission)
    BY <1>7, <2>1, TailSeq DEF UartFrame
  <2>3. CASE /\ uart_recv_queue' = Offer(uart_recv_queue, Whole(Head(wire)), UartCap)
             /\ wire' = Tail(wire)
    BY <1>0, <1>7, <2>1, <2>2, <2>3, WholeFrame, OfferType DEF UartFrame, sender, TasksOK
  <2>4. ASSUME Len(wire) > 1, wire' = Tail(Tail(wire)), NEW id \in SplicedIds(wire[1], wire[2]),
               uart_recv_queue' = Offer(uart_recv_queue,
                 [id |-> id, head |-> wire[1], tail |-> wire[2]], UartCap)
        PROVE  TasksOK'
    <3>1. wire[1] \in Transmission /\ wire[2] \in Transmission
      BY <2>1, <2>4
    <3>2. wire' \in Seq(Transmission)
      BY <2>1, <2>4, TwoTails
    <3>3. [id |-> id, head |-> wire[1], tail |-> wire[2]] \in Frame
      BY <3>1, SplicedFrame
    <3>4. uart_recv_queue' \in Seq(Frame)
      BY <2>1, <2>4, <3>3, OfferType
    <3> QED
      BY <1>0, <1>7, <3>2, <3>4 DEF UartFrame, sender, TasksOK
  <2> QED
    BY <1>7, <2>3, <2>4 DEF UartFrame
<1>12. CASE UartLoss
  BY <1>0, <1>12, WithoutSeq DEF UartLoss, sender, TasksOK
<1>8. CASE DisplaySelf
  BY <1>0, <1>8, TailSeq DEF DisplaySelf, sender, TasksOK
<1>9. CASE DisplayReceive
  BY <1>0, <1>9, TailSeq DEF DisplayReceive, sender, TasksOK
<1>10. CASE DisplayPair
  BY <1>0, <1>10 DEF DisplayPair, sender, TasksOK
<1>11. CASE UNCHANGED vars
  BY <1>0, <1>11 DEF vars, sender, TasksOK
<1> QED
  BY <1>1, <1>2, <1>3, <1>4, <1>5, <1>6, <1>7, <1>8, <1>9, <1>10, <1>11, <1>12 DEF Next

(* What is displayed and plotted keeps its types. *)
LEMMA ScreenStep ==
  TypeOK /\ [Next]_vars => ScreenOK'
<1> SUFFICES ASSUME TypeOK, [Next]_vars PROVE ScreenOK'
  OBVIOUS
<1>0. /\ ScreenOK /\ FlagsOK /\ master_data \in [0 .. TableSize - 1 -> Row]
      /\ csi_display_queue \in Seq(Transmission) /\ uart_recv_queue \in Seq(Frame)
  BY DEF TypeOK, DataOK, ScreenOK
<1>1. master_data[Slot(csi_display_data.id)] \in Row
  BY <1>0, SlotInTable DEF ScreenOK, Frame
<1>2. (chart + 1) % ChartPoints \in Nat
  BY <1>0, CapsAssumption DEF ScreenOK
<1>3. CASE DisplaySelf
  <2>1. Head(csi_display_queue) \in Transmission /\ Whole(Head(csi_display_queue)) \in Frame
    BY <1>0, <1>3, TailSeq, WholeFrame DEF DisplaySelf
  <2>2. shown' \in [frame : Frame, master : Transmission, overlap : BOOLEAN]
    BY <1>0, <1>3, <2>1, Zenon DEF DisplaySelf, Plot, FlagsOK
  <2>3. /\ csi_display_data' \in Frame /\ csi_display_data_new' \in Frame
        /\ copied_id' \in Nat /\ chart' \in Nat
    BY <1>0, <1>2, <1>3, <2>1 DEF DisplaySelf, Plot, ScreenOK
  <2> QED
    BY <2>2, <2>3 DEF ScreenOK
<1>4. CASE DisplayReceive
  <2>1. Head(uart_recv_queue) \in Frame
    BY <1>0, <1>4, TailSeq DEF DisplayReceive
  <2>2. master_data[Slot(csi_display_data.id)].id \in Nat
    BY <1>1 DEF Row
  <2> QED
    BY <1>0, <1>4, <2>1, <2>2 DEF DisplayReceive, ScreenOK
<1>5. CASE DisplayPair
  <2>1. master_data[Slot(csi_display_data.id)].cir \in Transmission
    BY <1>1 DEF Row
  <2>2. shown' \in [frame : Frame, master : Transmission, overlap : BOOLEAN]
    <3>1. \/ shown' = shown
          \/ shown' = [frame   |-> csi_display_data,
                       master  |-> master_data[Slot(csi_display_data.id)].cir,
                       overlap |-> overlap]
      BY <1>5, Zenon DEF DisplayPair, Plot
    <3>2. overlap \in BOOLEAN /\ csi_display_data \in Frame
      BY <1>0, Zenon DEF FlagsOK, ScreenOK
    <3>3. [frame   |-> csi_display_data,
           master  |-> master_data[Slot(csi_display_data.id)].cir,
           overlap |-> overlap]
             \in [frame : Frame, master : Transmission, overlap : BOOLEAN]
      BY <2>1, <3>2, Zenon
    <3>4. shown \in [frame : Frame, master : Transmission, overlap : BOOLEAN]
      BY <1>0 DEF ScreenOK
    <3> QED
      BY <3>1, <3>3, <3>4, Zenon
  <2>3. chart' \in Nat
    BY <1>0, <1>2, <1>5 DEF DisplayPair, Plot, ScreenOK
  <2>4. /\ csi_display_data' \in Frame /\ csi_display_data_new' \in Frame
        /\ copied_id' \in Nat
    BY <1>0, <1>5 DEF DisplayPair, NextFrame, ScreenOK
  <2> QED
    BY <2>2, <2>3, <2>4 DEF ScreenOK
<1>6. CASE UNCHANGED display
  BY <1>0, <1>6 DEF display, ScreenOK
<1>7. ASSUME NEW r \in Receivers, gpio_isr_handler(r) \/ TaskReceive(r) PROVE UNCHANGED display
  BY <1>7 DEF gpio_isr_handler, TaskReceive
<1>8. CASE Send \/ SenderRestart \/ StoreHead \/ StoreBody \/ SlaveSendFrame \/ UartLoss \/ UartFrame
  BY <1>6, <1>8 DEF Send, SenderRestart, StoreHead, StoreBody, SlaveSendFrame, UartLoss,
                 UartFrame
<1>9. CASE UNCHANGED vars
  BY <1>6, <1>9 DEF vars
<1> QED
  BY <1>3, <1>4, <1>5, <1>6, <1>7, <1>8, <1>9 DEF Next

-----------------------------------------------------------------------------
(* The store and the read of a row: what each half may rely on. *)
RowsOK == StoreHeadDone /\ TableCoherent /\ ReadCoherent

(* Steps that touch neither the table nor what its reader and writer hold. *)
LEMMA RowsUnchanged ==
  ASSUME RowsOK, storing' = storing, master_data' = master_data, overlap' = overlap,
         copying' = copying, copied_id' = copied_id, csi_display_data' = csi_display_data,
         storing => job'["master"] = job["master"]
  PROVE  RowsOK'
<1>1. StoreHeadDone'
  BY DEF RowsOK, StoreHeadDone
<1>2. \A s : BeingStored(s)' <=> BeingStored(s)
  BY DEF BeingStored
<1>3. TableCoherent'
  BY <1>2 DEF RowsOK, TableCoherent
<1>4. ReadCoherent'
  BY <1>2 DEF RowsOK, ReadCoherent
<1> QED
  BY <1>1, <1>3, <1>4 DEF RowsOK

(* The first half of a store: the row gets the id of the block in hand and *)
(* is exempt from coherence; a read of that row is marked.                 *)
LEMMA StoreHeadRows ==
  ASSUME TypeOK, RowsOK, StoreHead
  PROVE  RowsOK'
<1> DEFINE k == job["master"].id
<1>1. /\ job["master"] # NoTx /\ ~storing /\ storing' = TRUE /\ job' = job
      /\ master_data' = [master_data EXCEPT ![Slot(k)].id = k]
      /\ overlap' = (overlap \/ ReadsRow(k))
      /\ copying' = copying /\ copied_id' = copied_id
      /\ csi_display_data' = csi_display_data
  BY DEF StoreHead, capture, display
<1>2. /\ master_data \in [0 .. TableSize - 1 -> Row] /\ k \in Nat
      /\ csi_display_data.id \in Nat
  BY DEF TypeOK, DataOK, Transmission, Frame, Receivers
<1>3. Slot(k) \in 0 .. TableSize - 1 /\ Slot(csi_display_data.id) \in 0 .. TableSize - 1
  BY <1>2, SlotInTable
<1> HIDE DEF k
<1>4. master_data'[Slot(k)].id = k
  BY <1>1, <1>2, <1>3 DEF Row
<1>5. \A s \in 0 .. TableSize - 1 : s # Slot(k) => master_data'[s] = master_data[s]
  BY <1>1, <1>2
<1>6. \A s : BeingStored(s)' <=> Slot(k) = s
  BY <1>1 DEF BeingStored, k
<1>7. StoreHeadDone'
  BY <1>1, <1>4 DEF StoreHeadDone, k
<1>8. TableCoherent'
  <2> SUFFICES ASSUME NEW s \in 0 .. TableSize - 1, s # Slot(k)
               PROVE  Coherent(master_data'[s])
    BY <1>6 DEF TableCoherent
  <2> QED
    BY <1>1, <1>5 DEF RowsOK, TableCoherent, BeingStored
<1>9. ReadCoherent'
  <2> SUFFICES ASSUME copying', ~overlap'
               PROVE  /\ Slot(k) # Slot(csi_display_data.id)
                      /\ copied_id = master_data'[Slot(csi_display_data.id)].id
    BY <1>1, <1>6 DEF ReadCoherent
  <2>1. copying /\ ~overlap /\ ~ReadsRow(k)
    BY <1>1
  <2>2. Slot(k) # Slot(csi_display_data.id)
    BY <2>1 DEF ReadsRow
  <2> QED
    BY <1>3, <1>5, <2>1, <2>2 DEF RowsOK, ReadCoherent
<1> QED
  BY <1>7, <1>8, <1>9 DEF RowsOK

(* The second half: the row holds the capture its id names. *)
LEMMA StoreBodyRows ==
  ASSUME TypeOK, QueuesGenuine, RowsOK, StoreBody
  PROVE  RowsOK'
<1> DEFINE p == job["master"]
<1>1. /\ storing /\ storing' = FALSE
      /\ master_data' = [master_data EXCEPT ![Slot(p.id)].cir = p]
      /\ overlap' = (overlap \/ ReadsRow(p.id))
      /\ copying' = copying /\ copied_id' = copied_id
      /\ csi_display_data' = csi_display_data
  BY DEF StoreBody, display
<1>2. /\ master_data \in [0 .. TableSize - 1 -> Row] /\ p.id \in Nat
      /\ csi_display_data.id \in Nat
  BY DEF TypeOK, DataOK, Transmission, Frame, Receivers
<1>3. Slot(p.id) \in 0 .. TableSize - 1 /\ Slot(csi_display_data.id) \in 0 .. TableSize - 1
  BY <1>2, SlotInTable
<1>4. p # NoTx /\ p.epoch > 0 /\ master_data[Slot(p.id)].id = p.id
  BY <1>1 DEF RowsOK, StoreHeadDone, QueuesGenuine, Receivers
<1>5. \A s : BeingStored(s) <=> Slot(p.id) = s
  BY <1>1 DEF BeingStored
<1> HIDE DEF p
<1>6. master_data'[Slot(p.id)].cir = p /\ master_data'[Slot(p.id)].id = p.id
  BY <1>1, <1>2, <1>3, <1>4 DEF Row
<1>7. \A s \in 0 .. TableSize - 1 : s # Slot(p.id) => master_data'[s] = master_data[s]
  BY <1>1, <1>2
<1>8. StoreHeadDone' /\ \A s : ~BeingStored(s)'
  BY <1>1 DEF StoreHeadDone, BeingStored
<1>9. TableCoherent'
  <2> SUFFICES ASSUME NEW s \in 0 .. TableSize - 1 PROVE Coherent(master_data'[s])
    BY DEF TableCoherent
  <2>1. CASE s = Slot(p.id)
    BY <1>4, <1>6, <2>1 DEF Coherent
  <2>2. CASE s # Slot(p.id)
    BY <1>5, <1>7, <2>2 DEF RowsOK, TableCoherent
  <2> QED
    BY <2>1, <2>2
<1>10. ReadCoherent'
  <2> SUFFICES ASSUME copying', ~overlap'
               PROVE  copied_id = master_data'[Slot(csi_display_data.id)].id
    BY <1>1, <1>8 DEF ReadCoherent
  <2>1. copying /\ ~overlap /\ ~ReadsRow(p.id)
    BY <1>1
  <2>2. Slot(p.id) # Slot(csi_display_data.id)
    BY <2>1 DEF ReadsRow
  <2> QED
    BY <1>3, <1>7, <2>1, <2>2 DEF RowsOK, ReadCoherent
<1> QED
  BY <1>8, <1>9, <1>10 DEF RowsOK

(* The read begins: unless a store of that very row is under way, the id  *)
(* copied is the one of a coherent row.                                   *)
LEMMA ReadHeadRows ==
  ASSUME TypeOK, RowsOK, DisplayReceive
  PROVE  RowsOK'
<1>1. /\ master_data' = master_data /\ storing' = storing /\ job' = job
  BY DEF DisplayReceive, capture
<1>2. \A s : BeingStored(s)' <=> BeingStored(s)
  BY <1>1 DEF BeingStored
<1>3. StoreHeadDone' /\ TableCoherent'
  BY <1>1, <1>2 DEF RowsOK, StoreHeadDone, TableCoherent
<1>4. CASE ~display_start
  <2>1. ~copying /\ copying' = copying
    BY <1>4 DEF DisplayReceive
  <2> QED
    BY <1>3, <2>1 DEF RowsOK, ReadCoherent
<1>5. CASE display_start
  <2>1. /\ copied_id' = master_data[Slot(csi_display_data.id)].id
        /\ overlap' = BeingStored(Slot(csi_display_data.id))
        /\ csi_display_data' = csi_display_data
    BY <1>5 DEF DisplayReceive, BeingStored
  <2>2. ReadCoherent'
    BY <1>1, <1>2, <2>1 DEF ReadCoherent
  <2> QED
    BY <1>3, <2>2 DEF RowsOK
<1> QED
  BY <1>4, <1>5

(* After the read ended nothing is being copied. *)
LEMMA ReadEndRows ==
  ASSUME TypeOK, RowsOK, DisplayPair
  PROVE  RowsOK'
<1>1. master_data' = master_data /\ storing' = storing /\ job' = job /\ copying' = FALSE
  BY DEF DisplayPair, capture
<1>2. \A s : BeingStored(s)' <=> BeingStored(s)
  BY <1>1 DEF BeingStored
<1>3. StoreHeadDone' /\ TableCoherent'
  BY <1>1, <1>2 DEF RowsOK, StoreHeadDone, TableCoherent
<1>4. ReadCoherent'
  BY <1>1 DEF ReadCoherent
<1> QED
  BY <1>3, <1>4 DEF RowsOK

(* The display plots its own captures in self mode, where nothing is read *)
(* from the table.                                                        *)
SelfModeReadsNothing == csi_mode => ~copying

(* The mode is the one the display task was created with. *)
LEMMA ModeKept == [Next]_vars => csi_mode' = csi_mode
BY DEF Next, vars, Send, SenderRestart, gpio_isr_handler, TaskReceive, StoreHead, StoreBody,
       SlaveSendFrame, UartLoss, UartFrame, DisplaySelf, DisplayReceive, DisplayPair

(* The mode does not change, so a copy begins in dual mode only. *)
LEMMA SelfModeStep ==
  TypeOK /\ SelfModeReadsNothing /\ [Next]_vars => SelfModeReadsNothing'
<1> SUFFICES ASSUME SelfModeReadsNothing, [Next]_vars PROVE SelfModeReadsNothing'
  OBVIOUS
<1>1. csi_mode' = csi_mode
  BY ModeKept
<1>2. CASE DisplayReceive
  BY <1>1, <1>2 DEF DisplayReceive, SelfModeReadsNothing
<1>3. CASE DisplayPair
  BY <1>3 DEF DisplayPair, SelfModeReadsNothing
<1>4. CASE ~DisplayReceive /\ ~DisplayPair
  <2>1. copying' = copying
    BY <1>4 DEF Next, vars, display, Send, SenderRestart, gpio_isr_handler, TaskReceive,
           StoreHead, StoreBody, SlaveSendFrame, UartLoss, UartFrame, DisplaySelf
  <2> QED
    BY <1>1, <2>1 DEF SelfModeReadsNothing
<1> QED
  BY <1>2, <1>3, <1>4

(* Every step keeps what a row can hold, and what a copy has seen of it. *)
LEMMA RowsStep ==
  TypeOK /\ QueuesGenuine /\ SelfModeReadsNothing /\ RowsOK /\ [Next]_vars => RowsOK'
<1> SUFFICES ASSUME TypeOK, QueuesGenuine, SelfModeReadsNothing, RowsOK, [Next]_vars
             PROVE  RowsOK'
  OBVIOUS
<1>1. CASE Send
  BY <1>1, RowsUnchanged DEF Send, wifi_csi_rx_cb, display
<1>2. CASE SenderRestart
  BY <1>2, RowsUnchanged DEF SenderRestart, capture, display
<1>3. ASSUME NEW r \in Receivers, gpio_isr_handler(r) PROVE RowsOK'
  BY <1>3, RowsUnchanged DEF gpio_isr_handler, display
<1>4. ASSUME NEW r \in Receivers, TaskReceive(r) PROVE RowsOK'
  <2>1. storing => job'["master"] = job["master"]
    BY <1>4 DEF TaskReceive, RowsOK, StoreHeadDone, TypeOK, DataOK, Receivers
  <2> QED
    BY <1>4, <2>1, RowsUnchanged DEF TaskReceive, display
<1>5. CASE StoreHead
  BY <1>5, StoreHeadRows
<1>6. CASE StoreBody
  BY <1>6, StoreBodyRows
<1>7. CASE SlaveSendFrame
  <2>1. job'["master"] = job["master"]
    BY <1>7 DEF SlaveSendFrame, FreeJob, TypeOK, DataOK, Receivers
  <2> QED
    BY <1>7, <2>1, RowsUnchanged DEF SlaveSendFrame, display
<1>8. CASE UartLoss \/ UartFrame
  BY <1>8, RowsUnchanged DEF UartLoss, UartFrame, capture, display
<1>9. CASE DisplaySelf
  <2>1. ~copying /\ ~copying'
    BY <1>9 DEF DisplaySelf, SelfModeReadsNothing
  <2>2. \A s : BeingStored(s)' <=> BeingStored(s)
    BY <1>9 DEF DisplaySelf, capture, BeingStored
  <2> QED
    BY <1>9, <2>1, <2>2 DEF DisplaySelf, capture, RowsOK, StoreHeadDone, TableCoherent,
                            ReadCoherent
<1>10. CASE DisplayReceive
  BY <1>10, ReadHeadRows
<1>11. CASE DisplayPair
  BY <1>11, ReadEndRows
<1>12. CASE UNCHANGED vars
  BY <1>12, RowsUnchanged DEF vars, capture, display
<1> QED
  BY <1>1, <1>2, <1>3, <1>4, <1>5, <1>6, <1>7, <1>8, <1>9, <1>10, <1>11, <1>12 DEF Next

-----------------------------------------------------------------------------
(* The stages a frame passes on its way to the screen, the last one *)
(* plotted first and the one that is sent next last. Garbage has no place. *)
Stages == 1 .. 8
One(f) == IF f.tail.epoch = 0 THEN <<>> ELSE <<f>>
Wholes(q) == [i \in 1 .. Len(q) |-> Whole(q[i])]
Chip == IF csi_mode THEN "master" ELSE "slave"
Line == [k \in Stages |->
  CASE k = 1 -> One(shown.frame)
    [] k = 2 -> IF csi_mode THEN <<>> ELSE One(csi_display_data)
    [] k = 3 -> IF copying THEN One(csi_display_data_new) ELSE <<>>
    [] k = 4 -> IF csi_mode THEN Wholes(csi_display_queue) ELSE uart_recv_queue
    [] k = 5 -> IF csi_mode THEN <<>> ELSE Wholes(wire)
    [] k = 6 -> One(Whole(job[Chip]))
    [] k = 7 -> Wholes(rxq[Chip])
    [] OTHER -> <<Whole([epoch |-> epoch, id |-> count])>>]

(* Whatever is further back, by its stage or within it, begins later than *)
(* what is before it ends.                                                *)
Behind(k, i, l, n) == k < l \/ (k = l /\ i < n)
Sent(f) == f.head.epoch > 0 /\ f.tail.epoch > 0
After(f, g) == Later(f.head, g.tail)
InLine(L) ==
  /\ \A k \in Stages : \A i \in 1 .. Len(L[k]) : Sent(L[k][i])
  /\ \A k, l \in Stages : \A i \in 1 .. Len(L[k]), n \in 1 .. Len(L[l]) :
       Behind(k, i, l, n) => After(L[l][n], L[k][i])
AreQueues(L) == \A k \in Stages : L[k] \in Seq(Frame)

(* Between two stages nothing is on its way. *)
EmptyBetween(L, k, l) == \A s \in Stages : k < s /\ s < l => L[s] = <<>>
SameBut(L, M, some) == \A s \in Stages \ some : M[s] = L[s]

(* The order of transmissions is transitive. *)
LEMMA LaterTransitive ==
  ASSUME NEW p \in Transmission, NEW q \in Transmission, NEW r \in Transmission,
         Later(p, q), Later(q, r)
  PROVE  Later(p, r)
BY DEF Later, Transmission

(* The first of a stage goes to the end of another, with nothing between. *)
LEMMA PassOn ==
  ASSUME NEW L, NEW M, AreQueues(L), InLine(L),
         NEW k \in Stages, NEW l \in Stages, k < l, EmptyBetween(L, k, l),
         L[l] # <<>>, M[k] = Append(L[k], Head(L[l])), M[l] = Tail(L[l]), SameBut(L, M, {k, l})
  PROVE  InLine(M)
<1>0. L[k] \in Seq(Frame) /\ L[l] \in Seq(Frame)
  BY Zenon DEF AreQueues
<1>1. /\ L[k] \in Seq(Frame) /\ L[l] \in Seq(Frame) /\ k \in Nat /\ l \in Nat
  BY <1>0 DEF Stages
<1>2. /\ Len(M[k]) = Len(L[k]) + 1 /\ M[k][Len(L[k]) + 1] = L[l][1]
      /\ \A i \in 1 .. Len(L[k]) : M[k][i] = L[k][i]
      /\ Len(M[l]) = Len(L[l]) - 1 /\ \A i \in 1 .. Len(M[l]) : M[l][i] = L[l][i + 1]
      /\ Len(L[l]) > 0 /\ Len(L[l]) \in Nat /\ Len(L[k]) \in Nat
  BY <1>1
<1> DEFINE s1(s, i) == IF s = l \/ (s = k /\ i = Len(L[k]) + 1) THEN l ELSE s
           i1(s, i) == IF s = l THEN i + 1 ELSE IF s = k /\ i = Len(L[k]) + 1 THEN 1 ELSE i
<1>3. ASSUME NEW s \in Stages, NEW i \in 1 .. Len(M[s])
      PROVE  /\ s1(s, i) \in Stages /\ i1(s, i) \in 1 .. Len(L[s1(s, i)])
             /\ M[s][i] = L[s1(s, i)][i1(s, i)]
  <2>1. CASE s = l
    <3>1. i \in 1 .. Len(L[l]) - 1 /\ M[l][i] = L[l][i + 1]
      BY <1>2, <2>1
    <3>2. i + 1 \in 1 .. Len(L[l])
      BY <1>2, <3>1
    <3> QED
      BY <2>1, <3>1, <3>2
  <2>2. CASE s = k
    <3>1. k # l /\ 1 \in 1 .. Len(L[l])
      BY <1>1, <1>2
    <3>2. CASE i = Len(L[k]) + 1
      BY <1>2, <2>2, <3>1, <3>2
    <3>3. CASE i # Len(L[k]) + 1
      <4>1. i \in 1 .. Len(L[k]) + 1
        BY <1>2, <2>2
      <4>2. i \in 1 .. Len(L[k])
        BY <1>2, <3>3, <4>1
      <4> QED
        BY <1>2, <2>2, <3>1, <3>3, <4>2
    <3> QED
      BY <3>2, <3>3
  <2>3. CASE s # l /\ s # k
    BY <2>3 DEF SameBut
  <2> QED
    BY <2>1, <2>2, <2>3
<1>4. ASSUME NEW s \in Stages, NEW i \in 1 .. Len(M[s]), NEW t \in Stages,
             NEW n \in 1 .. Len(M[t]), Behind(s, i, t, n)
      PROVE  Behind(s1(s, i), i1(s, i), s1(t, n), i1(t, n))
  <2>1. s \in Nat /\ t \in Nat /\ i \in Nat /\ n \in Nat /\ i >= 1 /\ n >= 1
    BY DEF Stages
  <2>2. ~(k < s /\ s < l) /\ ~(k < t /\ t < l)
    BY <1>1, <2>1, SMTT(60) DEF EmptyBetween, SameBut
  <2> QED
    BY <1>1, <1>2, <1>4, <2>1, <2>2 DEF Behind
<1> HIDE DEF s1, i1
<1>5. ASSUME NEW s \in Stages, NEW i \in 1 .. Len(M[s]) PROVE Sent(M[s][i])
  BY <1>3 DEF InLine
<1>6. ASSUME NEW s \in Stages, NEW t \in Stages, NEW i \in 1 .. Len(M[s]),
             NEW n \in 1 .. Len(M[t]), Behind(s, i, t, n)
      PROVE  After(M[t][n], M[s][i])
  <2>1. Behind(s1(s, i), i1(s, i), s1(t, n), i1(t, n))
    BY <1>4, <1>6
  <2> QED
    BY <1>3, <2>1, SMTT(60) DEF InLine
<1> QED
  BY <1>5, <1>6 DEF InLine

(* A stage loses its first or all it has. *)
LEMMA Lose ==
  ASSUME NEW L, NEW M, AreQueues(L), InLine(L), NEW k \in Stages, SameBut(L, M, {k}),
         M[k] = L[k] \/ M[k] = <<>> \/ (L[k] # <<>> /\ M[k] = Tail(L[k]))
  PROVE  InLine(M)
<1>1. L[k] \in Seq(Frame) /\ \A s \in Stages : s # k => M[s] = L[s]
  BY DEF AreQueues, SameBut
<1>2. CASE M[k] = L[k]
  BY <1>1, <1>2 DEF InLine
<1>3. CASE M[k] = <<>>
  BY <1>1, <1>3, SMTT(60) DEF InLine
<1>4. CASE L[k] # <<>> /\ M[k] = Tail(L[k])
  <2>1. /\ Len(M[k]) = Len(L[k]) - 1 /\ \A i \in 1 .. Len(M[k]) : M[k][i] = L[k][i + 1]
        /\ \A i \in 1 .. Len(M[k]) : i + 1 \in 1 .. Len(L[k])
    BY <1>1, <1>4
  <2>2. ASSUME NEW s \in Stages, NEW i \in 1 .. Len(M[s]) PROVE Sent(M[s][i])
    <3>1. CASE s = k
      BY <2>1, <3>1 DEF InLine
    <3>2. CASE s # k
      BY <1>1, <3>2 DEF InLine
    <3> QED
      BY <3>1, <3>2
  <2>3. ASSUME NEW s \in Stages, NEW t \in Stages, NEW i \in 1 .. Len(M[s]),
               NEW n \in 1 .. Len(M[t]), Behind(s, i, t, n)
        PROVE  After(M[t][n], M[s][i])
    <3> DEFINE i1 == IF s = k THEN i + 1 ELSE i
               n1 == IF t = k THEN n + 1 ELSE n
    <3>1. /\ i1 \in 1 .. Len(L[s]) /\ n1 \in 1 .. Len(L[t])
          /\ M[s][i] = L[s][i1] /\ M[t][n] = L[t][n1]
      BY <1>1, <2>1
    <3>2. Behind(s, i1, t, n1)
      BY <2>3 DEF Behind, Stages
    <3> QED
      BY <3>1, <3>2 DEF InLine
  <2> QED
    BY <2>2, <2>3 DEF InLine
<1> QED
  BY <1>2, <1>3, <1>4

(* A stage is overtaken by the next one. *)
LEMMA Overtake ==
  ASSUME NEW L, NEW M, AreQueues(L), InLine(L), NEW k \in Stages, k + 1 \in Stages,
         M[k] = L[k + 1], M[k + 1] = <<>>, SameBut(L, M, {k, k + 1})
  PROVE  InLine(M)
<1>1. \A s \in Stages : s # k /\ s # k + 1 => M[s] = L[s]
  BY DEF SameBut
<1>2. k \in Nat
  BY DEF Stages
<1> DEFINE s1(s) == IF s = k THEN k + 1 ELSE s
<1>3. ASSUME NEW s \in Stages, NEW i \in 1 .. Len(M[s])
      PROVE  s1(s) \in Stages /\ i \in 1 .. Len(L[s1(s)]) /\ M[s][i] = L[s1(s)][i] /\ s # k + 1
  BY <1>1, <1>2
<1>4. ASSUME NEW s \in Stages, NEW i \in 1 .. Len(M[s]), NEW t \in Stages,
             NEW n \in 1 .. Len(M[t]), Behind(s, i, t, n)
      PROVE  Behind(s1(s), i, s1(t), n)
  BY <1>2, <1>3, <1>4, SMTT(60) DEF Behind, Stages
<1> HIDE DEF s1
<1>5. ASSUME NEW s \in Stages, NEW i \in 1 .. Len(M[s]) PROVE Sent(M[s][i])
  BY <1>3 DEF InLine
<1>6. ASSUME NEW s \in Stages, NEW t \in Stages, NEW i \in 1 .. Len(M[s]),
             NEW n \in 1 .. Len(M[t]), Behind(s, i, t, n)
      PROVE  After(M[t][n], M[s][i])
  <2>1. Behind(s1(s), i, s1(t), n)
    BY <1>4, <1>6
  <2> QED
    BY <1>3, <2>1 DEF InLine
<1> QED
  BY <1>5, <1>6 DEF InLine

(* A stage loses one item, wherever it is. *)
LEMMA LoseOne ==
  ASSUME NEW L, NEW M, AreQueues(L), InLine(L), NEW k \in Stages, SameBut(L, M, {k}),
         NEW lost \in 1 .. Len(L[k]), M[k] = Without(L[k], lost)
  PROVE  InLine(M)
<1>1. L[k] \in Seq(Frame) /\ \A s \in Stages : s # k => M[s] = L[s]
  BY DEF AreQueues, SameBut
<1>2. /\ Len(M[k]) = Len(L[k]) - 1 /\ Len(L[k]) \in Nat
      /\ \A i \in 1 .. Len(L[k]) - 1 : M[k][i] = IF i < lost THEN L[k][i] ELSE L[k][i + 1]
  <2>1. Len(L[k]) \in Nat
    BY <1>1
  <2> DEFINE q == L[k]
  <2>2. q \in Seq(Frame) /\ lost \in 1 .. Len(q) /\ M[k] = Without(q, lost)
    BY <1>1
  <2> HIDE DEF q
  <2>3. /\ Len(M[k]) = Len(q) - 1
        /\ \A i \in 1 .. Len(q) - 1 : M[k][i] = IF i < lost THEN q[i] ELSE q[i + 1]
    BY <2>2, WithoutSeq
  <2> QED
    BY <2>1, <2>3 DEF q
<1> DEFINE at(s, i) == IF s = k /\ i >= lost THEN i + 1 ELSE i
<1>3. ASSUME NEW s \in Stages, NEW i \in 1 .. Len(M[s])
      PROVE  at(s, i) \in 1 .. Len(L[s]) /\ M[s][i] = L[s][at(s, i)]
  <2>1. CASE s = k
    BY <1>2, <2>1
  <2>2. CASE s # k
    BY <1>1, <2>2
  <2> QED
    BY <2>1, <2>2
<1>4. ASSUME NEW s \in Stages, NEW i \in 1 .. Len(M[s]), NEW t \in Stages,
             NEW n \in 1 .. Len(M[t]), Behind(s, i, t, n)
      PROVE  Behind(s, at(s, i), t, at(t, n))
  BY <1>4 DEF Behind, Stages
<1> HIDE DEF at
<1>5. ASSUME NEW s \in Stages, NEW i \in 1 .. Len(M[s]) PROVE Sent(M[s][i])
  BY <1>3 DEF InLine
<1>6. ASSUME NEW s \in Stages, NEW t \in Stages, NEW i \in 1 .. Len(M[s]),
             NEW n \in 1 .. Len(M[t]), Behind(s, i, t, n)
      PROVE  After(M[t][n], M[s][i])
  <2>1. Behind(s, at(s, i), t, at(t, n))
    BY <1>4, <1>6
  <2>2. /\ s \in Stages /\ at(s, i) \in 1 .. Len(L[s]) /\ M[s][i] = L[s][at(s, i)]
        /\ t \in Stages /\ at(t, n) \in 1 .. Len(L[t]) /\ M[t][n] = L[t][at(t, n)]
    BY <1>3, <1>6, Zenon
  <2>3. After(L[t][at(t, n)], L[s][at(s, i)])
    BY <2>1, <2>2, Zenon DEF InLine
  <2> QED
    BY <2>2, <2>3, Zenon
<1> QED
  BY <1>5, <1>6 DEF InLine

(* The first two of a stage go as one frame to the end of another, which   *)
(* has the beginning of the first and the end of the second.               *)
LEMMA Join ==
  ASSUME NEW L, NEW M, AreQueues(L), InLine(L),
         NEW k \in Stages, NEW l \in Stages, k < l, EmptyBetween(L, k, l),
         Len(L[l]) > 1, NEW f \in Frame, f.head = L[l][1].head, f.tail = L[l][2].tail,
         M[k] = Append(L[k], f), M[l] = Tail(Tail(L[l])), SameBut(L, M, {k, l})
  PROVE  InLine(M)
<1>0. L[k] \in Seq(Frame) /\ L[l] \in Seq(Frame)
  BY Zenon DEF AreQueues
<1>1. /\ L[k] \in Seq(Frame) /\ L[l] \in Seq(Frame) /\ k \in Nat /\ l \in Nat
      /\ Len(L[l]) \in Nat /\ Len(L[k]) \in Nat
  BY <1>0 DEF Stages
<1>2. /\ Len(M[k]) = Len(L[k]) + 1 /\ M[k][Len(L[k]) + 1] = f
      /\ \A i \in 1 .. Len(L[k]) : M[k][i] = L[k][i]
  BY <1>1
<1>3. Len(M[l]) = Len(L[l]) - 2 /\ \A i \in 1 .. Len(L[l]) - 2 : M[l][i] = L[l][i + 2]
  BY <1>0, TwoTails, SMTT(60)
<1> DEFINE joined(s, i) == s = k /\ i = Len(L[k]) + 1
           from(s, i) == IF joined(s, i) THEN l ELSE s
           first(s, i) == IF s = l THEN i + 2 ELSE IF joined(s, i) THEN 1 ELSE i
           last(s, i) == IF s = l THEN i + 2 ELSE IF joined(s, i) THEN 2 ELSE i
<1>4. ASSUME NEW s \in Stages, NEW i \in 1 .. Len(M[s])
      PROVE  /\ from(s, i) \in Stages
             /\ first(s, i) \in 1 .. Len(L[from(s, i)]) /\ last(s, i) \in 1 .. Len(L[from(s, i)])
             /\ M[s][i].head = L[from(s, i)][first(s, i)].head
             /\ M[s][i].tail = L[from(s, i)][last(s, i)].tail
  <2>1. CASE s = l
    <3>0. s # k
      BY <1>1, <2>1
    <3>2. M[s] = M[l]
      BY <2>1
    <3>3. i \in 1 .. Len(L[l]) - 2
      BY <1>3, <3>2
    <3>4. i + 2 \in 1 .. Len(L[l])
      BY <1>1, <3>3
    <3>5. M[s][i] = L[l][i + 2]
      BY <1>3, <3>2, <3>3
    <3>1. ~joined(s, i) /\ i + 2 \in 1 .. Len(L[l]) /\ M[s][i] = L[l][i + 2]
      BY <3>0, <3>4, <3>5
    <3> QED
      BY <2>1, <3>1
  <2>2. CASE joined(s, i)
    <3>1. s # l /\ M[s][i] = f /\ 1 \in 1 .. Len(L[l]) /\ 2 \in 1 .. Len(L[l])
      BY <1>1, <1>2, <2>2
    <3> QED
      BY <2>2, <3>1
  <2>3. CASE s = k /\ ~joined(s, i)
    <3>1. s # l /\ i \in 1 .. Len(L[k]) /\ M[s][i] = L[k][i]
      BY <1>1, <1>2, <2>3
    <3> QED
      BY <2>3, <3>1
  <2>4. CASE s # l /\ s # k
    BY <2>4 DEF SameBut
  <2> QED
    BY <2>1, <2>2, <2>3, <2>4
<1>5. ASSUME NEW s \in Stages, NEW i \in 1 .. Len(M[s]), NEW t \in Stages,
             NEW n \in 1 .. Len(M[t]), Behind(s, i, t, n)
      PROVE  Behind(from(s, i), last(s, i), from(t, n), first(t, n))
  <2>1. s \in Nat /\ t \in Nat /\ i \in Nat /\ n \in Nat /\ i >= 1 /\ n >= 1
    BY DEF Stages
  <2>2. ~(k < s /\ s < l) /\ ~(k < t /\ t < l)
    BY <1>1, <2>1, SMTT(60) DEF EmptyBetween, SameBut
  <2> QED
    BY <1>1, <1>2, <1>5, <2>1, <2>2 DEF Behind
<1> HIDE DEF from, first, last
<1>6. ASSUME NEW s \in Stages, NEW i \in 1 .. Len(M[s]) PROVE Sent(M[s][i])
  <2>1. \A t \in Stages : \A n \in 1 .. Len(L[t]) : Sent(L[t][n])
    BY Zenon DEF InLine
  <2>2. /\ Sent(L[from(s, i)][first(s, i)]) /\ Sent(L[from(s, i)][last(s, i)])
        /\ M[s][i].head = L[from(s, i)][first(s, i)].head
        /\ M[s][i].tail = L[from(s, i)][last(s, i)].tail
    BY <1>4, <2>1, Zenon
  <2> QED
    BY <2>2 DEF Sent
<1>7. ASSUME NEW s \in Stages, NEW t \in Stages, NEW i \in 1 .. Len(M[s]),
             NEW n \in 1 .. Len(M[t]), Behind(s, i, t, n)
      PROVE  After(M[t][n], M[s][i])
  <2>1. Behind(from(s, i), last(s, i), from(t, n), first(t, n))
    BY <1>5, <1>7
  <2>2. After(L[from(t, n)][first(t, n)], L[from(s, i)][last(s, i)])
    BY <1>4, <2>1 DEF InLine
  <2>3. /\ M[s][i].tail = L[from(s, i)][last(s, i)].tail
        /\ M[t][n].head = L[from(t, n)][first(t, n)].head
    BY <1>4
  <2> QED
    BY <2>2, <2>3 DEF After
<1> QED
  BY <1>6, <1>7 DEF InLine

(* What is sent enters last, and the next to be sent is later still. *)
LEMMA Enter ==
  ASSUME NEW L, NEW M, AreQueues(L), InLine(L), SameBut(L, M, {7, 8}),
         NEW now \in Transmission, NEW next \in Transmission, L[8] = <<Whole(now)>>,
         M[8] = <<Whole(next)>>,
         Later(next, now), M[7] = L[7] \/ M[7] = Append(L[7], Whole(now)),
         next.epoch > 0
  PROVE  InLine(M)
<1>1. 7 \in Stages /\ 8 \in Stages
  BY DEF Stages
<1>2. L[7] \in Seq(Frame) /\ \A s \in Stages : s # 7 /\ s # 8 => M[s] = L[s]
  BY <1>1 DEF AreQueues, SameBut
<1>3. Len(L[8]) = 1 /\ L[8][1] = Whole(now) /\ Len(M[8]) = 1 /\ M[8][1] = Whole(next)
  OBVIOUS
<1>30. /\ Whole(now) \in Frame /\ Whole(now).head = now /\ Whole(now).tail = now
       /\ Whole(next) \in Frame /\ Whole(next).head = next /\ Whole(next).tail = next
  BY WholeFrame
<1>4. /\ Sent(Whole(now))
      /\ \A s \in Stages : s # 8 => \A i \in 1 .. Len(L[s]) : Later(now, L[s][i].tail)
  <2>1. 1 \in 1 .. Len(L[8])
    BY <1>3
  <2>2. \A s \in Stages : s # 8 => s < 8
    BY DEF Stages
  <2> QED
    BY <1>1, <1>3, <1>30, <2>1, <2>2 DEF InLine, Behind, After
<1>5. ASSUME NEW s \in Stages, s # 8, NEW i \in 1 .. Len(M[s])
      PROVE  /\ Sent(M[s][i]) /\ M[s][i] \in Frame
             /\ (i \in 1 .. Len(L[s]) /\ M[s][i] = L[s][i])
                \/ (s = 7 /\ i = Len(L[7]) + 1 /\ M[s][i] = Whole(now))
  <2>1. L[s] \in Seq(Frame)
    BY DEF AreQueues
  <2>2. CASE M[s] = L[s]
    BY <2>1, <2>2 DEF InLine
  <2>3. CASE s = 7 /\ M[7] = Append(L[7], Whole(now))
    BY <1>2, <1>30, <1>4, <2>3 DEF InLine
  <2> QED
    BY <1>2, <1>5, <2>2, <2>3
<1>6. ASSUME NEW s \in Stages, s # 8, NEW i \in 1 .. Len(M[s]) PROVE After(Whole(next), M[s][i])
  <2>1. CASE M[s][i] = Whole(now)
    BY <1>30, <2>1 DEF After
  <2>2. CASE Later(now, M[s][i].tail)
    <3>1. M[s][i].tail \in Transmission
      BY <1>5, <1>6 DEF Frame
    <3> QED
      BY <1>30, <2>2, <3>1, LaterTransitive DEF After
  <2> QED
    BY <1>4, <1>5, <1>6, <2>1, <2>2
<1>7. ASSUME NEW s \in Stages, NEW i \in 1 .. Len(M[s]) PROVE Sent(M[s][i])
  <2>1. CASE s # 8
    BY <1>5, <2>1
  <2>2. CASE s = 8
    <3>1. M[s] = M[8] /\ Len(M[s]) = 1
      BY <1>3, <2>2
    <3>2. i = 1
      BY <3>1
    <3> QED
      BY <1>3, <1>30, <3>1, <3>2 DEF Sent
  <2> QED
    BY <2>1, <2>2
<1>8. ASSUME NEW s \in Stages, NEW t \in Stages, NEW i \in 1 .. Len(M[s]),
             NEW n \in 1 .. Len(M[t]), Behind(s, i, t, n)
      PROVE  After(M[t][n], M[s][i])
  <2>1. CASE t = 8
    <3>1. n = 1
      <4>1. M[t] = M[8] /\ Len(M[t]) = 1
        BY <1>3, <2>1
      <4> QED
        BY <4>1
    <3>2. ASSUME s = 8 PROVE FALSE
      <4>1. Len(M[s]) = 1
        BY <1>3, <3>2
      <4>2. i = 1
        BY <4>1
      <4> QED
        BY <1>8, <2>1, <3>1, <3>2, <4>2 DEF Behind
    <3> QED
      BY <1>3, <1>6, <2>1, <3>1, <3>2
  <2>2. CASE t # 8
    <3>1. s # 8 /\ i \in Nat /\ n \in Nat /\ s \in Nat /\ t \in Nat
      BY <1>8, <2>2 DEF Behind, Stages
    <3>2. CASE n \in 1 .. Len(L[t]) /\ M[t][n] = L[t][n]
      <4>1. i \in 1 .. Len(L[s]) /\ M[s][i] = L[s][i]
        <5>1. Len(L[7]) \in Nat
          BY <1>2
        <5>2. ~(s = 7 /\ i = Len(L[7]) + 1)
          <6> SUFFICES ASSUME s = 7, i = Len(L[7]) + 1 PROVE FALSE
            OBVIOUS
          <6>1. t = 7 /\ i < n
            BY <1>8, <2>2, <3>1 DEF Behind, Stages
          <6> QED
            BY <3>1, <3>2, <5>1, <6>1
        <5> QED
          BY <1>5, <3>1, <5>2
      <4> QED
        BY <1>8, <3>2, <4>1 DEF InLine
    <3>3. CASE t = 7 /\ n = Len(L[7]) + 1 /\ M[t][n] = Whole(now)
      <4>1. i \in 1 .. Len(L[s]) /\ M[s][i] = L[s][i]
        BY <1>5, <1>8, <3>1, <3>3, SMTT(60) DEF Behind
      <4> QED
        BY <1>30, <1>4, <3>1, <3>3, <4>1 DEF After
    <3> QED
      BY <1>5, <2>2, <3>2, <3>3
  <2> QED
    BY <2>1, <2>2
<1> QED
  BY <1>7, <1>8 DEF InLine

(* The first of a stage replaces what another holds. *)
LEMMA Replace ==
  ASSUME NEW L \in [Stages -> Seq(Frame)], NEW M, InLine(L),
         NEW k \in Stages, NEW l \in Stages, k < l, EmptyBetween(L, k, l),
         L[l] # <<>>, M[k] = <<Head(L[l])>>, M[l] = Tail(L[l]), SameBut(L, M, {k, l})
  PROVE  InLine(M)
<1> DEFINE N == [L EXCEPT ![k] = <<>>]
<1>1. /\ k # l /\ N[k] = <<>> /\ \A s \in Stages : s # k => N[s] = L[s]
      /\ AreQueues(N) /\ AreQueues(L)
  BY DEF AreQueues, Stages
<1> HIDE DEF N
<1>2. InLine(N)
  BY <1>1, Lose DEF SameBut
<1>3. Append(N[k], Head(L[l])) = <<Head(L[l])>> /\ N[l] = L[l]
  BY <1>1
<1>4. EmptyBetween(N, k, l) /\ SameBut(N, M, {k, l})
  BY <1>1 DEF EmptyBetween, SameBut, Stages
<1> QED
  BY <1>1, <1>2, <1>3, <1>4, PassOn

-----------------------------------------------------------------------------
(* A queue of transmissions as one of frames. *)
LEMMA WholesSeq ==
  ASSUME NEW q \in Seq(Transmission)
  PROVE  /\ Wholes(q) \in Seq(Frame) /\ Len(Wholes(q)) = Len(q)
         /\ \A i \in 1 .. Len(q) : Wholes(q)[i] = Whole(q[i])
<1>1. \A i \in 1 .. Len(q) : Whole(q[i]) \in Frame
  BY WholeFrame
<1> QED
  BY <1>1 DEF Wholes

(* What is done to a queue of transmissions is done to its frames. *)
LEMMA WholesSteps ==
  ASSUME NEW q \in Seq(Transmission)
  PROVE  /\ q = <<>> => Wholes(q) = <<>>
         /\ q # <<>> => /\ Wholes(q) # <<>> /\ Head(Wholes(q)) = Whole(Head(q))
                        /\ Wholes(Tail(q)) = Tail(Wholes(q))
         /\ \A p \in Transmission : Wholes(Append(q, p)) = Append(Wholes(q), Whole(p))
         /\ \A i \in 1 .. Len(q) : Wholes(Without(q, i)) = Without(Wholes(q), i)
<1>0. /\ Wholes(q) \in Seq(Frame) /\ Len(Wholes(q)) = Len(q) /\ Len(q) \in Nat
      /\ \A i \in 1 .. Len(q) : Wholes(q)[i] = Whole(q[i])
  BY WholesSeq
<1>1. q = <<>> => Wholes(q) = <<>>
  BY <1>0
<1>2. ASSUME q # <<>>
      PROVE  /\ Wholes(q) # <<>> /\ Head(Wholes(q)) = Whole(Head(q))
             /\ Wholes(Tail(q)) = Tail(Wholes(q))
  <2>1. /\ Head(q) = q[1] /\ Tail(q) \in Seq(Transmission) /\ Len(Tail(q)) = Len(q) - 1
        /\ Len(q) > 0 /\ \A i \in 1 .. Len(q) - 1 : Tail(q)[i] = q[i + 1]
    BY <1>2, TailSeq
  <2>2. Wholes(q) # <<>>
    BY <1>0, <2>1
  <2>3. /\ Head(Wholes(q)) = Wholes(q)[1] /\ Tail(Wholes(q)) \in Seq(Frame)
        /\ Len(Tail(Wholes(q))) = Len(q) - 1
        /\ \A i \in 1 .. Len(q) - 1 : Tail(Wholes(q))[i] = Wholes(q)[i + 1]
    BY <1>0, <2>2, TailSeq
  <2>4. /\ Wholes(Tail(q)) \in Seq(Frame) /\ Len(Wholes(Tail(q))) = Len(q) - 1
        /\ \A i \in 1 .. Len(q) - 1 : Wholes(Tail(q))[i] = Whole(Tail(q)[i])
    BY <2>1, WholesSeq
  <2>5. \A i \in 1 .. Len(q) - 1 : i + 1 \in 1 .. Len(q)
    BY <1>0
  <2>6. Wholes(Tail(q)) = Tail(Wholes(q))
    BY <1>0, <2>1, <2>3, <2>4, <2>5, SeqEqual, SMTT(60)
  <2> QED
    BY <1>0, <2>1, <2>2, <2>3, <2>6
<1>3. ASSUME NEW p \in Transmission
      PROVE  Wholes(Append(q, p)) = Append(Wholes(q), Whole(p))
  <2>1. /\ Append(q, p) \in Seq(Transmission) /\ Len(Append(q, p)) = Len(q) + 1
        /\ \A i \in 1 .. Len(q) + 1 : Append(q, p)[i] = IF i = Len(q) + 1 THEN p ELSE q[i]
    BY <1>0
  <2>2. Whole(p) \in Frame
    BY WholeFrame
  <2>3. /\ Append(Wholes(q), Whole(p)) \in Seq(Frame)
        /\ Len(Append(Wholes(q), Whole(p))) = Len(q) + 1
        /\ \A i \in 1 .. Len(q) + 1 : Append(Wholes(q), Whole(p))[i]
                                        = IF i = Len(q) + 1 THEN Whole(p) ELSE Wholes(q)[i]
    BY <1>0, <2>2
  <2>4. /\ Wholes(Append(q, p)) \in Seq(Frame) /\ Len(Wholes(Append(q, p))) = Len(q) + 1
        /\ \A i \in 1 .. Len(q) + 1 : Wholes(Append(q, p))[i] = Whole(Append(q, p)[i])
    BY <2>1, WholesSeq
  <2>5. ASSUME NEW i \in 1 .. Len(q) + 1
        PROVE  Wholes(Append(q, p))[i] = Append(Wholes(q), Whole(p))[i]
    BY <1>0, <2>1, <2>3, <2>4
  <2> QED
    BY <2>3, <2>4, <2>5, SeqEqual
<1>4. ASSUME NEW i \in 1 .. Len(q)
      PROVE  Wholes(Without(q, i)) = Without(Wholes(q), i)
  <2>1. /\ Without(q, i) \in Seq(Transmission) /\ Len(Without(q, i)) = Len(q) - 1
        /\ \A n \in 1 .. Len(q) - 1 : Without(q, i)[n] = IF n < i THEN q[n] ELSE q[n + 1]
    BY WithoutSeq
  <2>2. /\ Without(Wholes(q), i) \in Seq(Frame) /\ Len(Without(Wholes(q), i)) = Len(q) - 1
        /\ \A n \in 1 .. Len(q) - 1 :
             Without(Wholes(q), i)[n] = IF n < i THEN Wholes(q)[n] ELSE Wholes(q)[n + 1]
    BY <1>0, WithoutSeq
  <2>3. /\ Wholes(Without(q, i)) \in Seq(Frame) /\ Len(Wholes(Without(q, i))) = Len(q) - 1
        /\ \A n \in 1 .. Len(q) - 1 : Wholes(Without(q, i))[n] = Whole(Without(q, i)[n])
    BY <2>1, WholesSeq
  <2>4. \A n \in 1 .. Len(q) - 1 : n \in 1 .. Len(q) /\ n + 1 \in 1 .. Len(q)
    BY <1>0
  <2>5. ASSUME NEW n \in 1 .. Len(q) - 1
        PROVE  Wholes(Without(q, i))[n] = Without(Wholes(q), i)[n]
    BY <1>0, <2>1, <2>2, <2>3, <2>4
  <2> QED
    BY <2>2, <2>3, <2>5, SeqEqual
<1> QED
  BY <1>1, <1>2, <1>3, <1>4

(* No transmissions are no frames. *)
LEMMA WholesEmpty == Wholes(<<>>) = <<>>
<1>1. <<>> \in Seq(Transmission)
  OBVIOUS
<1> QED
  BY <1>1, WholesSteps

(* What the stages are, one by one. *)
Parts ==
  /\ Line[1] = One(shown.frame)
  /\ Line[2] = IF csi_mode THEN <<>> ELSE One(csi_display_data)
  /\ Line[3] = IF copying THEN One(csi_display_data_new) ELSE <<>>
  /\ Line[4] = IF csi_mode THEN Wholes(csi_display_queue) ELSE uart_recv_queue
  /\ Line[5] = IF csi_mode THEN <<>> ELSE Wholes(wire)
  /\ Line[6] = One(Whole(job[Chip]))
  /\ Line[7] = Wholes(rxq[Chip])
  /\ Line[8] = <<Whole([epoch |-> epoch, id |-> count])>>
(* They are so before and after a step. *)
LEMMA PartsHold == Parts /\ Parts'
BY DEF Parts, Line, Stages

(* Every stage is a sequence of frames. *)
LEMMA LineType ==
  ASSUME TypeOK
  PROVE  /\ Line \in [Stages -> Seq(Frame)] /\ AreQueues(Line)
         /\ Chip \in Receivers /\ [epoch |-> epoch, id |-> count] \in Transmission
         /\ rxq[Chip] \in Seq(Transmission) /\ job[Chip] \in Transmission
         /\ csi_display_queue \in Seq(Transmission) /\ wire \in Seq(Transmission)
<1>1. Chip \in Receivers /\ [epoch |-> epoch, id |-> count] \in Transmission
  BY DEF Chip, Receivers, TypeOK, DataOK, Transmission
<1>2. \A f \in Frame : One(f) \in Seq(Frame) /\ <<f>> \in Seq(Frame)
  BY DEF One
<1>3. /\ job[Chip] \in Transmission /\ rxq[Chip] \in Seq(Transmission)
      /\ csi_display_queue \in Seq(Transmission) /\ wire \in Seq(Transmission)
  BY <1>1 DEF TypeOK, DataOK
<1>4. \A k \in Stages : Line[k] \in Seq(Frame)
  <2>1. /\ shown.frame \in Frame /\ Whole(job[Chip]) \in Frame
        /\ csi_display_data \in Frame /\ csi_display_data_new \in Frame
        /\ <<>> \in Seq(Frame) /\ Wholes(rxq[Chip]) \in Seq(Frame)
        /\ Wholes(csi_display_queue) \in Seq(Frame)
        /\ Wholes(wire) \in Seq(Frame) /\ uart_recv_queue \in Seq(Frame)
        /\ Whole([epoch |-> epoch, id |-> count]) \in Frame
    BY <1>1, <1>3, WholesSeq, WholeFrame DEF TypeOK, DataOK
  <2>2. Line[1] \in Seq(Frame) /\ Line[6] \in Seq(Frame)
    BY <1>2, <2>1, PartsHold DEF Parts
  <2>3. Line[2] \in Seq(Frame) /\ Line[3] \in Seq(Frame)
    BY <1>2, <2>1, PartsHold DEF Parts
  <2>4. /\ Line[4] \in Seq(Frame) /\ Line[5] \in Seq(Frame)
        /\ Line[7] \in Seq(Frame) /\ Line[8] \in Seq(Frame)
    BY <1>2, <2>1, PartsHold DEF Parts
  <2>5. \A k \in Stages : k \in {1, 2, 3, 4, 5, 6, 7, 8}
    BY DEF Stages
  <2> QED
    BY <2>2, <2>3, <2>4, <2>5, Zenon
<1> QED
  BY <1>1, <1>3, <1>4 DEF Line, AreQueues

(* What the display keeps of the frames. *)
OnScreen == <<shown, csi_display_data, csi_display_data_new, copying>>

(* The sender only adds to the end. *)
LEMMA SendOrder ==
  ASSUME TypeOK, InLine(Line), Send \/ SenderRestart
  PROVE  InLine(Line')
<1> DEFINE now == [epoch |-> epoch, id |-> count]
           next == [epoch |-> epoch', id |-> count']
<1>0. /\ epoch \in Nat /\ epoch > 0 /\ count \in Nat
      /\ rxq \in [Receivers -> Seq(Transmission)] /\ Chip \in Receivers
  BY LineType DEF TypeOK, DataOK
<1>1. /\ csi_mode' = csi_mode /\ job' = job /\ wire' = wire /\ UNCHANGED OnScreen
      /\ uart_recv_queue' = uart_recv_queue /\ csi_display_queue' = csi_display_queue
  BY DEF Send, SenderRestart, wifi_csi_rx_cb, capture, display, OnScreen
<1>2. SameBut(Line, Line', {7, 8}) /\ Line[8] = <<Whole(now)>> /\ Line'[8] = <<Whole(next)>>
  BY <1>1, PartsHold DEF Parts, SameBut, Stages, Chip, OnScreen
<1>3. Line[7] = Wholes(rxq[Chip]) /\ Line'[7] = Wholes(rxq'[Chip])
  BY <1>1, PartsHold DEF Parts, Chip
<1>4. /\ epoch' \in Nat /\ epoch' > 0 /\ count' \in Nat
      /\ (epoch' = epoch /\ count' = count + 1) \/ epoch' > epoch
  BY <1>0 DEF Send, SenderRestart
<1>5. now \in Transmission /\ next \in Transmission /\ Later(next, now) /\ next.epoch > 0
  BY <1>0, <1>4 DEF Transmission, Later
<1>6. Line'[7] = Line[7] \/ Line'[7] = Append(Line[7], Whole(now))
  <2>1. CASE SenderRestart
    BY <1>3, <2>1 DEF SenderRestart, capture
  <2>2. CASE Send
    <3>1. rxq'[Chip] = rxq[Chip] \/ rxq'[Chip] = Offer(rxq[Chip], now, RxCap)
      BY <1>0, <2>2 DEF Send, wifi_csi_rx_cb
    <3>2. rxq'[Chip] = rxq[Chip] \/ rxq'[Chip] = Append(rxq[Chip], now)
      BY <3>1 DEF Offer
    <3>3. Wholes(Append(rxq[Chip], now)) = Append(Wholes(rxq[Chip]), Whole(now))
      BY <1>5, LineType, WholesSteps
    <3> QED
      BY <1>3, <3>2, <3>3
  <2> QED
    BY <2>1, <2>2
<1> HIDE DEF now, next
<1> QED
  BY <1>2, <1>5, <1>6, LineType, Enter

(* The interrupt and the tasks behind the receive queues pass on or lose. *)
LEMMA TakeOrder ==
  ASSUME TypeOK, QueuesGenuine, InLine(Line), NEW r \in Receivers,
         gpio_isr_handler(r) \/ TaskReceive(r)
  PROVE  InLine(Line')
<1>0. /\ rxq \in [Receivers -> Seq(Transmission)] /\ job \in [Receivers -> Transmission]
      /\ Chip \in Receivers
  BY LineType DEF TypeOK, DataOK
<1>1. /\ csi_mode' = csi_mode /\ wire' = wire /\ UNCHANGED <<epoch, count, OnScreen>>
      /\ uart_recv_queue' = uart_recv_queue /\ csi_display_queue' = csi_display_queue
  BY DEF gpio_isr_handler, TaskReceive, sender, display, OnScreen
<1>2. 6 \in Stages /\ 7 \in Stages /\ 6 < 7 /\ EmptyBetween(Line, 6, 7)
  BY DEF Stages, EmptyBetween
<1>3. /\ SameBut(Line, Line', {6, 7})
      /\ Line[6] = One(Whole(job[Chip])) /\ Line'[6] = One(Whole(job'[Chip]))
      /\ Line[7] = Wholes(rxq[Chip]) /\ Line'[7] = Wholes(rxq'[Chip])
  BY <1>1, PartsHold DEF Parts, SameBut, Stages, Chip, OnScreen
<1>4. CASE rxq'[Chip] \in {rxq[Chip], <<>>} /\ job'[Chip] = job[Chip]
  <2>1. SameBut(Line, Line', {7})
    BY <1>3, <1>4 DEF SameBut
  <2>2. Wholes(<<>>) = <<>>
    BY WholesEmpty
  <2> QED
    BY <1>2, <1>3, <1>4, <2>1, <2>2, LineType, Lose
<1>5. CASE TaskReceive(r) /\ r = Chip
  <2>1. /\ job[Chip] = NoTx /\ rxq[Chip] # <<>> /\ job'[Chip] = Head(rxq[Chip])
        /\ rxq'[Chip] = Tail(rxq[Chip])
    BY <1>0, <1>5 DEF TaskReceive
  <2>2. Head(rxq[Chip]) = rxq[Chip][1] /\ 1 \in 1 .. Len(rxq[Chip])
    BY <1>0, <2>1
  <2>3. Head(rxq[Chip]).epoch # 0 /\ Head(rxq[Chip]) \in Transmission
    BY <1>0, <2>2 DEF QueuesGenuine
  <2>4. /\ Head(Line[7]) = Whole(Head(rxq[Chip])) /\ Line[7] # <<>>
        /\ Line'[7] = Tail(Line[7])
    BY <1>3, <2>1, LineType, WholesSteps
  <2>5. Line'[6] = <<Head(Line[7])>>
    BY <1>3, <2>1, <2>3, <2>4, WholeFrame DEF One
  <2> QED
    BY <1>2, <1>3, <2>4, <2>5, LineType, Replace
<1>6. CASE r # Chip \/ gpio_isr_handler(r)
  BY <1>0, <1>4, <1>6 DEF gpio_isr_handler, TaskReceive
<1> QED
  BY <1>5, <1>6

(* A worker task hands its block on: to the display or to the UART. *)
LEMMA WorkerOrder ==
  ASSUME TypeOK, QueuesGenuine, StoreHeadDone, InLine(Line),
         StoreHead \/ StoreBody \/ SlaveSendFrame
  PROVE  InLine(Line')
<1>0. /\ job \in [Receivers -> Transmission] /\ Chip \in Receivers
      /\ {"master", "slave"} \subseteq Receivers
  BY LineType DEF TypeOK, DataOK, Receivers
<1>1. /\ csi_mode' = csi_mode /\ rxq' = rxq /\ UNCHANGED <<epoch, count, OnScreen>>
      /\ uart_recv_queue' = uart_recv_queue
  BY DEF StoreHead, StoreBody, SlaveSendFrame, FreeJob, sender, capture, display, OnScreen
<1>2. {4, 5, 6} \subseteq Stages /\ 4 < 6 /\ 5 < 6
  BY DEF Stages
<1>3. CASE Line' = Line
  BY <1>3
<1>4. CASE csi_mode /\ StoreBody
  <2> DEFINE p == job["master"]
  <2>1. /\ Chip = "master" /\ p \in Transmission /\ p # NoTx /\ p.epoch # 0
        /\ job'["master"] = NoTx
    BY <1>0, <1>4 DEF Chip, StoreBody, FreeJob, StoreHeadDone, QueuesGenuine
  <2>2. csi_display_queue' \in {csi_display_queue, Append(csi_display_queue, p)}
    BY <1>4 DEF StoreBody, Offer
  <2>20. One(Whole(p)) = <<Whole(p)>> /\ One(Whole(NoTx)) = <<>> /\ Chip' = Chip
    BY <1>1, <2>1, WholeFrame DEF One, Whole, NoTx, Chip
  <2>3. /\ SameBut(Line, Line', {4, 6}) /\ Line[5] = <<>>
        /\ Line[6] = <<Whole(p)>> /\ Line'[6] = <<>>
        /\ Line[4] = Wholes(csi_display_queue) /\ Line'[4] = Wholes(csi_display_queue')
    <3>1. Line[5] = <<>> /\ Line[6] = <<Whole(p)>> /\ Line[4] = Wholes(csi_display_queue)
      BY <1>4, <2>1, <2>20, PartsHold DEF Parts
    <3>2. Line'[6] = <<>> /\ Line'[4] = Wholes(csi_display_queue')
      BY <1>1, <1>4, <2>1, <2>20, PartsHold DEF Parts
    <3>3. SameBut(Line, Line', {4, 6})
      BY <1>1, <1>4, <2>20, PartsHold DEF Parts, SameBut, Stages, OnScreen
    <3> QED
      BY <3>1, <3>2, <3>3
  <2>4. Line[6] # <<>> /\ Head(Line[6]) = Whole(p) /\ Tail(Line[6]) = <<>>
    BY <2>3
  <2>5. EmptyBetween(Line, 4, 6)
    BY <2>3 DEF EmptyBetween, Stages
  <2>6. CASE csi_display_queue' = csi_display_queue
    <3>1. SameBut(Line, Line', {6})
      BY <2>3, <2>6 DEF SameBut
    <3> QED
      BY <1>2, <2>3, <3>1, LineType, Lose
  <2>7. CASE csi_display_queue' = Append(csi_display_queue, p)
    <3>0. Wholes(Append(csi_display_queue, p)) = Append(Wholes(csi_display_queue), Whole(p))
      BY <2>1, LineType, WholesSteps
    <3>1. Line'[4] = Append(Line[4], Head(Line[6])) /\ Line'[6] = Tail(Line[6])
      BY <2>3, <2>4, <2>7, <3>0
    <3> QED
      BY <1>2, <2>3, <2>4, <2>5, <3>1, LineType, PassOn
  <2> QED
    BY <2>2, <2>6, <2>7
<1>5. CASE ~csi_mode /\ SlaveSendFrame
  <2> DEFINE p == job["slave"]
  <2>1. /\ Chip = "slave" /\ p \in Transmission /\ p # NoTx /\ p.epoch # 0
        /\ job'["slave"] = NoTx /\ wire' = Append(wire, p)
    BY <1>0, <1>5 DEF Chip, SlaveSendFrame, FreeJob, QueuesGenuine
  <2>20. One(Whole(p)) = <<Whole(p)>> /\ One(Whole(NoTx)) = <<>> /\ Chip' = Chip
    BY <1>1, <2>1, WholeFrame DEF One, Whole, NoTx, Chip
  <2>2. /\ SameBut(Line, Line', {5, 6})
        /\ Line[6] = <<Whole(p)>> /\ Line'[6] = <<>>
        /\ Line[5] = Wholes(wire) /\ Line'[5] = Wholes(wire')
    <3>1. Line[6] = <<Whole(p)>> /\ Line[5] = Wholes(wire)
      BY <1>5, <2>1, <2>20, PartsHold DEF Parts
    <3>2. Line'[6] = <<>> /\ Line'[5] = Wholes(wire')
      BY <1>1, <1>5, <2>1, <2>20, PartsHold DEF Parts
    <3>3. SameBut(Line, Line', {5, 6})
      BY <1>1, <1>5, <2>20, PartsHold, SMTT(60) DEF Parts, SameBut, Stages, OnScreen
    <3> QED
      BY <3>1, <3>2, <3>3
  <2>3. Line[6] # <<>> /\ Head(Line[6]) = Whole(p) /\ Tail(Line[6]) = <<>>
    BY <2>2
  <2>4. EmptyBetween(Line, 5, 6)
    BY DEF EmptyBetween, Stages
  <2>50. Wholes(Append(wire, p)) = Append(Wholes(wire), Whole(p))
    BY <2>1, LineType, WholesSteps
  <2>5. Line'[5] = Append(Line[5], Head(Line[6])) /\ Line'[6] = Tail(Line[6])
    BY <2>1, <2>2, <2>3, <2>50
  <2> QED
    BY <1>2, <2>2, <2>3, <2>4, <2>5, LineType, PassOn
<1>6. CASE StoreHead \/ (~csi_mode /\ StoreBody) \/ (csi_mode /\ SlaveSendFrame)
  <2>1. /\ job'[Chip] = job[Chip] /\ ~csi_mode => wire' = wire
        /\ csi_mode => csi_display_queue' = csi_display_queue
    BY <1>0, <1>6 DEF StoreHead, StoreBody, SlaveSendFrame, FreeJob, capture, Chip
  <2> QED
    BY <1>1, <1>3, <2>1 DEF Line, Chip, OnScreen
<1> QED
  BY <1>4, <1>5, <1>6

(* The UART loses a frame, delivers the oldest, or joins the two oldest. *)
LEMMA UartOrder ==
  ASSUME TypeOK, InLine(Line), UartLoss \/ UartFrame
  PROVE  InLine(Line')
<1>1. /\ csi_mode' = csi_mode /\ rxq' = rxq /\ job' = job /\ UNCHANGED <<epoch, count, OnScreen>>
      /\ csi_display_queue' = csi_display_queue
  BY DEF UartLoss, UartFrame, sender, capture, display, OnScreen
<1>2. 4 \in Stages /\ 5 \in Stages /\ 4 < 5 /\ EmptyBetween(Line, 4, 5)
  BY DEF Stages, EmptyBetween
<1>3. CASE csi_mode
  <2>1. Line' = Line
    BY <1>1, <1>3 DEF Line, Chip, OnScreen
  <2> QED
    BY <2>1
<1>4. CASE ~csi_mode
  <2>0. wire \in Seq(Transmission) /\ uart_recv_queue \in Seq(Frame)
    BY DEF TypeOK, DataOK
  <2>1. /\ SameBut(Line, Line', {4, 5}) /\ Line[5] = Wholes(wire) /\ Line'[5] = Wholes(wire')
        /\ Line[4] = uart_recv_queue /\ Line'[4] = uart_recv_queue'
    BY <1>1, <1>4, PartsHold, SMTT(60) DEF Parts, SameBut, Stages, Chip, OnScreen
  <2>2. CASE UartLoss
    <3>1. PICK i \in 1 .. Len(wire) : wire' = Without(wire, i)
      BY <2>2 DEF UartLoss
    <3>2. /\ Line'[5] = Without(Line[5], i) /\ i \in 1 .. Len(Line[5])
          /\ SameBut(Line, Line', {5})
      BY <2>0, <2>1, <2>2, <3>1, WholesSteps, WholesSeq DEF UartLoss, SameBut
    <3> QED
      BY <1>2, <3>2, LineType, LoseOne
  <2>3. CASE /\ wire # <<>> /\ wire' = Tail(wire)
             /\ uart_recv_queue' = Offer(uart_recv_queue, Whole(Head(wire)), UartCap)
    <3>1. Line[5] # <<>> /\ Head(Line[5]) = Whole(Head(wire)) /\ Line'[5] = Tail(Line[5])
      BY <2>0, <2>1, <2>3, WholesSteps
    <3>2. CASE uart_recv_queue' = uart_recv_queue
      <4>1. SameBut(Line, Line', {5})
        BY <2>1, <3>2 DEF SameBut
      <4> QED
        BY <1>2, <3>1, <4>1, LineType, Lose
    <3>3. CASE uart_recv_queue' = Append(uart_recv_queue, Whole(Head(wire)))
      BY <1>2, <2>1, <3>1, <3>3, LineType, PassOn
    <3> QED
      BY <2>3, <3>2, <3>3 DEF Offer
  <2>4. ASSUME Len(wire) > 1, wire' = Tail(Tail(wire)), NEW id \in SplicedIds(wire[1], wire[2]),
               uart_recv_queue' = Offer(uart_recv_queue,
                 [id |-> id, head |-> wire[1], tail |-> wire[2]], UartCap)
        PROVE  InLine(Line')
    <3> DEFINE f == [id |-> id, head |-> wire[1], tail |-> wire[2]]
    <3>1. wire[1] \in Transmission /\ wire[2] \in Transmission
      BY <2>0, <2>4
    <3>2. f \in Frame /\ f.head = wire[1] /\ f.tail = wire[2]
      BY <3>1, SplicedFrame
    <3>3. /\ Len(Line[5]) > 1 /\ Line[5][1] = Whole(wire[1]) /\ Line[5][2] = Whole(wire[2])
          /\ Line[5] # <<>>
      BY <2>0, <2>1, <2>4, WholesSeq
    <3>4. f.head = Line[5][1].head /\ f.tail = Line[5][2].tail
      BY <3>1, <3>2, <3>3, WholeFrame
    <3>5. Tail(wire) \in Seq(Transmission) /\ Tail(wire) # <<>> /\ wire # <<>>
      BY <2>0, <2>4, TwoTails
    <3>6. Line'[5] = Tail(Tail(Line[5]))
      BY <2>0, <2>1, <2>4, <3>5, WholesSteps
    <3> HIDE DEF f
    <3>7. uart_recv_queue' \in {uart_recv_queue, Append(uart_recv_queue, f)}
      BY <2>4 DEF Offer, f
    <3>8. CASE uart_recv_queue' = Append(uart_recv_queue, f)
      <4>1. AreQueues(Line) /\ Line'[4] = Append(Line[4], f)
        BY <2>1, <3>8, LineType
      <4>2. /\ 4 \in Stages /\ 5 \in Stages /\ 4 < 5 /\ EmptyBetween(Line, 4, 5)
            /\ Len(Line[5]) > 1 /\ f \in Frame
            /\ f.head = Line[5][1].head /\ f.tail = Line[5][2].tail
            /\ Line'[5] = Tail(Tail(Line[5])) /\ SameBut(Line, Line', {4, 5})
        BY <1>2, <2>1, <3>2, <3>3, <3>4, <3>6
      <4> QED
        BY <4>1, <4>2, Join, Zenon
    <3>9. CASE uart_recv_queue' = uart_recv_queue
      <4> DEFINE N == [Line EXCEPT ![5] = Tail(Line[5])]
      <4>1. Line \in [Stages -> Seq(Frame)] /\ Tail(Line[5]) \in Seq(Frame) /\ AreQueues(Line)
        BY <1>2, <3>3, LineType, TailSeq
      <4>2. /\ N[5] = Tail(Line[5]) /\ \A s \in Stages : s # 5 => N[s] = Line[s]
            /\ AreQueues(N)
        BY <1>2, <4>1 DEF AreQueues
      <4> HIDE DEF N
      <4>3. InLine(N)
        <5>1. SameBut(Line, N, {5}) /\ 5 \in Stages
          BY <1>2, <4>2, Zenon DEF SameBut
        <5> QED
          BY <1>2, <3>3, <4>1, <4>2, <5>1, Lose, Zenon
      <4>4. SameBut(N, Line', {5}) /\ Line'[5] = Tail(N[5])
        BY <2>1, <3>6, <3>9, <4>2 DEF SameBut
      <4>5. N[5] # <<>>
        BY <2>0, <2>1, <3>5, <4>2, WholesSteps
      <4> QED
        BY <1>2, <4>2, <4>3, <4>4, <4>5, Lose
    <3> QED
      BY <3>7, <3>8, <3>9
  <2> QED
    BY <2>2, <2>3, <2>4 DEF UartFrame
<1> QED
  BY <1>3, <1>4

(* A frame that reaches the screen is later than the one plotted before. *)
InOrderNow == shown'.frame.tail.epoch # 0 => After(shown'.frame, shown.frame)

(* Of two frames in stages before and behind, the one behind is later. *)
LEMMA AheadIsEarlier ==
  ASSUME TypeOK, InLine(Line), NEW k \in Stages, 1 < k, Line[k] # <<>>
  PROVE  After(Head(Line[k]), shown.frame) /\ Head(Line[k]).tail.epoch > 0
<1>1. Line[k] \in Seq(Frame) /\ shown.frame \in Frame /\ 1 \in Stages
  <2>1. shown.frame \in Frame
    BY DEF TypeOK, DataOK
  <2>2. Line[k] \in Seq(Frame)
    BY LineType, Zenon DEF AreQueues
  <2>3. 1 \in Stages
    BY DEF Stages
  <2> QED
    BY <2>1, <2>2, <2>3
<1>2. Head(Line[k]) = Line[k][1] /\ 1 \in 1 .. Len(Line[k]) /\ Line[k][1] \in Frame
  BY <1>1
<1>3. Sent(Line[k][1])
  BY <1>2 DEF InLine
<1>4. CASE shown.frame.tail.epoch = 0
  BY <1>1, <1>2, <1>3, <1>4 DEF After, Later, Frame, Transmission, Sent
<1>5. CASE shown.frame.tail.epoch # 0
  <2>1. Line[1] = <<shown.frame>>
    BY <1>5, PartsHold DEF Parts, One
  <2>2. 1 \in 1 .. Len(Line[1]) /\ Line[1][1] = shown.frame
    BY <2>1
  <2> QED
    BY <1>1, <1>2, <1>3, <2>2 DEF InLine, Behind, Sent
<1> QED
  BY <1>4, <1>5

(* Self mode plots the head of its queue. *)
LEMMA SelfOrder ==
  ASSUME TypeOK, SelfModeReadsNothing, InLine(Line), DisplaySelf
  PROVE  InLine(Line') /\ InOrderNow
<1>1. /\ csi_mode /\ csi_mode' /\ ~copying /\ ~copying' /\ rxq' = rxq /\ job' = job
      /\ UNCHANGED <<epoch, count>>
  BY DEF DisplaySelf, sender, capture, SelfModeReadsNothing
<1>2. 1 \in Stages /\ 4 \in Stages /\ 1 < 4
  BY DEF Stages
<1>3. /\ csi_display_queue # <<>> /\ csi_display_queue' = Tail(csi_display_queue)
      /\ shown'.frame = Whole(Head(csi_display_queue))
  BY DEF DisplaySelf, Plot
<1>4. /\ SameBut(Line, Line', {1, 4}) /\ Line[4] = Wholes(csi_display_queue)
      /\ Line'[4] = Wholes(csi_display_queue') /\ Line[2] = <<>> /\ Line[3] = <<>>
      /\ Line'[1] = One(shown'.frame)
  <2>1. Line'[2] = <<>> /\ Line'[3] = <<>> /\ Line'[5] = <<>> /\ Chip' = Chip
    BY <1>1, PartsHold DEF Parts, Chip
  <2>2. /\ Line[2] = <<>> /\ Line[3] = <<>> /\ Line[5] = <<>>
        /\ Line[4] = Wholes(csi_display_queue) /\ Line'[4] = Wholes(csi_display_queue')
        /\ Line'[1] = One(shown'.frame)
    BY <1>1, PartsHold DEF Parts
  <2>3. Line'[6] = Line[6] /\ Line'[7] = Line[7] /\ Line'[8] = Line[8]
    BY <1>1, <2>1, PartsHold DEF Parts
  <2> QED
    BY <2>1, <2>2, <2>3 DEF SameBut, Stages
<1>50. /\ Line[4] # <<>> /\ Head(Line[4]) = Whole(Head(csi_display_queue))
       /\ Line'[4] = Tail(Line[4])
  BY <1>3, <1>4, LineType, WholesSteps
<1>5. After(Head(Line[4]), shown.frame) /\ Head(Line[4]).tail.epoch > 0
  BY <1>2, <1>50, AheadIsEarlier
<1>6. Line'[1] = <<Head(Line[4])>>
  BY <1>3, <1>4, <1>5, <1>50 DEF One
<1>7. EmptyBetween(Line, 1, 4)
  BY <1>4 DEF EmptyBetween, Stages
<1>8. InLine(Line')
  BY <1>2, <1>4, <1>50, <1>6, <1>7, LineType, Replace
<1> QED
  BY <1>3, <1>5, <1>50, <1>8 DEF InOrderNow

(* Dual mode takes the next frame. *)
LEMMA ReceiveOrder ==
  ASSUME TypeOK, InLine(Line), DisplayReceive
  PROVE  InLine(Line')
<1>1. /\ ~csi_mode /\ csi_mode' = csi_mode /\ ~copying /\ rxq' = rxq /\ job' = job
      /\ UNCHANGED <<epoch, count, wire, shown>>
  BY DEF DisplayReceive, sender, capture
<1>2. {2, 3, 4} \subseteq Stages /\ 2 < 4 /\ 3 < 4
  BY DEF Stages
<1>3. /\ uart_recv_queue # <<>> /\ uart_recv_queue' = Tail(uart_recv_queue)
      /\ csi_display_data_new' = Head(uart_recv_queue)
  BY DEF DisplayReceive
<1>4. /\ SameBut(Line, Line', {2, 3, 4}) /\ Line[4] = uart_recv_queue
      /\ Line'[4] = uart_recv_queue' /\ Line[3] = <<>>
      /\ Line[2] = One(csi_display_data) /\ Line'[2] = One(csi_display_data')
      /\ Line'[3] = IF copying' THEN One(csi_display_data_new') ELSE <<>>
  <2>1. /\ Line[2] = One(csi_display_data) /\ Line'[2] = One(csi_display_data')
        /\ Line[3] = <<>> /\ Line[4] = uart_recv_queue /\ Line'[4] = uart_recv_queue'
        /\ Line'[3] = IF copying' THEN One(csi_display_data_new') ELSE <<>>
    BY <1>1, PartsHold DEF Parts
  <2>2. /\ Line'[1] = Line[1] /\ Line'[5] = Line[5] /\ Line'[6] = Line[6]
        /\ Line'[7] = Line[7] /\ Line'[8] = Line[8]
    <3>1. Chip' = Chip
      BY <1>1 DEF Chip
    <3> QED
      BY <1>1, <3>1, PartsHold DEF Parts
  <2> QED
    BY <2>1, <2>2 DEF SameBut, Stages
<1>5. Head(Line[4]).tail.epoch > 0
  BY <1>2, <1>3, <1>4, AheadIsEarlier
<1>6. One(Head(Line[4])) = <<Head(Line[4])>> /\ Line'[4] = Tail(Line[4]) /\ Line[4] # <<>>
  BY <1>3, <1>4, <1>5 DEF One
<1>7. EmptyBetween(Line, 2, 4) /\ EmptyBetween(Line, 3, 4)
  BY <1>4 DEF EmptyBetween, Stages
<1>8. CASE ~display_start
  <2>1. copying' = copying /\ csi_display_data' = csi_display_data_new'
    BY <1>8 DEF DisplayReceive
  <2>2. Line'[2] = <<Head(Line[4])>> /\ Line'[3] = Line[3]
    BY <1>1, <1>3, <1>4, <1>6, <2>1
  <2>3. SameBut(Line, Line', {2, 4})
    BY <1>4, <2>2 DEF SameBut
  <2> QED
    BY <1>2, <1>6, <1>7, <2>2, <2>3, LineType, Replace
<1>9. CASE display_start
  <2>1. copying' /\ csi_display_data' = csi_display_data
    BY <1>9, Zenon DEF DisplayReceive
  <2>2. Line'[3] = <<Head(Line[4])>> /\ Line'[2] = Line[2]
    BY <1>3, <1>4, <1>6, <2>1
  <2>3. SameBut(Line, Line', {3, 4})
    BY <1>4, <2>2 DEF SameBut
  <2> QED
    BY <1>2, <1>6, <1>7, <2>2, <2>3, LineType, Replace
<1> QED
  BY <1>8, <1>9

(* Dual mode plots the previous frame or skips it. *)
LEMMA PairOrder ==
  ASSUME TypeOK, SelfModeReadsNothing, InLine(Line), DisplayPair
  PROVE  InLine(Line') /\ (chart' # chart => InOrderNow)
<1>1. /\ ~csi_mode /\ csi_mode' = csi_mode /\ copying /\ copying' = FALSE
      /\ UNCHANGED <<epoch, count, wire, uart_recv_queue, rxq, job>>
      /\ csi_display_data' = csi_display_data_new
  BY DEF DisplayPair, sender, capture, SelfModeReadsNothing, NextFrame
<1>2. {1, 2, 3} \subseteq Stages /\ 1 < 2 /\ 1 + 1 = 2 /\ 2 + 1 = 3
  BY DEF Stages
<1>3. /\ SameBut(Line, Line', {1, 2, 3}) /\ Line[3] = One(csi_display_data_new)
      /\ Line[2] = One(csi_display_data) /\ Line'[2] = Line[3] /\ Line'[3] = <<>>
      /\ Line[1] = One(shown.frame) /\ Line'[1] = One(shown'.frame)
  <2>1. /\ Line[3] = One(csi_display_data_new) /\ Line[2] = One(csi_display_data)
        /\ Line'[2] = Line[3] /\ Line'[3] = <<>>
        /\ Line[1] = One(shown.frame) /\ Line'[1] = One(shown'.frame)
    BY <1>1, PartsHold DEF Parts
  <2>2. /\ Line'[4] = Line[4] /\ Line'[5] = Line[5] /\ Line'[6] = Line[6]
        /\ Line'[7] = Line[7] /\ Line'[8] = Line[8]
    <3>1. Chip' = Chip
      BY <1>1 DEF Chip
    <3> QED
      BY <1>1, <3>1, PartsHold DEF Parts
  <2> QED
    BY <2>1, <2>2 DEF SameBut, Stages
<1>4. shown'.frame = csi_display_data \/ (shown' = shown /\ chart' = chart)
  BY DEF DisplayPair, Plot
<1>5. CASE shown' = shown /\ chart' = chart
  <2>1. SameBut(Line, Line', {2, 3})
    BY <1>3, <1>5 DEF SameBut
  <2> QED
    BY <1>2, <1>3, <1>5, <2>1, LineType, Overtake
<1>6. CASE shown'.frame = csi_display_data
  <2> DEFINE N == [Line EXCEPT ![1] = Line[2], ![2] = <<>>]
  <2>1. /\ N[1] = Line[2] /\ N[2] = <<>> /\ N[3] = Line[3] /\ SameBut(Line, N, {1, 2})
        /\ AreQueues(N) /\ SameBut(N, Line', {2, 3})
    <3>1. Line'[1] = Line[2]
      BY <1>3, <1>6
    <3> QED
      <4>1. Line \in [Stages -> Seq(Frame)] /\ DOMAIN Line = Stages
        BY LineType
      <4>2. /\ N[1] = Line[2] /\ N[2] = <<>>
            /\ \A s \in Stages : s # 1 /\ s # 2 => N[s] = Line[s]
        BY <1>2, <4>1
      <4>3. \A s \in Stages : N[s] \in Seq(Frame)
        <5>1. Line[2] \in Seq(Frame) /\ <<>> \in Seq(Frame)
          BY <1>2, <4>1
        <5> HIDE DEF N
        <5> QED
          BY <4>1, <4>2, <5>1
      <4> HIDE DEF N
      <4>4. SameBut(Line, N, {1, 2}) /\ AreQueues(N)
        BY <4>2, <4>3 DEF SameBut, AreQueues
      <4>5. 3 \in Stages /\ N[3] = Line[3]
        BY <1>2, <4>2
      <4>6. SameBut(N, Line', {2, 3})
        <5> SUFFICES ASSUME NEW s \in Stages, s # 2, s # 3 PROVE Line'[s] = N[s]
          BY DEF SameBut
        <5>1. CASE s = 1
          BY <3>1, <4>2, <5>1
        <5>2. CASE s # 1
          BY <1>3, <4>2, <5>2 DEF SameBut
        <5> QED
          BY <5>1, <5>2
      <4> QED
        BY <4>2, <4>4, <4>5, <4>6
  <2> HIDE DEF N
  <2>2. InLine(N)
    BY <1>2, <2>1, LineType, Overtake
  <2>3. InLine(Line')
    BY <1>2, <1>3, <2>1, <2>2, Overtake
  <2>4. InOrderNow
    <3>1. CASE csi_display_data.tail.epoch = 0
      BY <1>6, <3>1 DEF InOrderNow
    <3>2. CASE csi_display_data.tail.epoch # 0
      <4>1. Line[2] = <<csi_display_data>>
        BY <1>3, <3>2 DEF One
      <4>2. Line[2] # <<>> /\ Head(Line[2]) = csi_display_data
        BY <4>1
      <4> QED
        BY <1>2, <1>6, <4>2, AheadIsEarlier DEF InOrderNow
    <3> QED
      BY <3>1, <3>2
  <2> QED
    BY <2>3, <2>4
<1> QED
  BY <1>4, <1>5, <1>6

(* Nothing has been sent: the line has only what is sent next. *)
LEMMA InitOrder ==
  ASSUME Init
  PROVE  InLine(Line)
<1>1. shown.frame.tail.epoch = 0 /\ csi_display_data.tail.epoch = 0 /\ copying = FALSE
  BY DEF Init, NoTx, Whole
<1>2. /\ csi_display_queue = <<>> /\ uart_recv_queue = <<>> /\ wire = <<>> /\ epoch = 1
      /\ rxq[Chip] = <<>> /\ Whole(job[Chip]).tail.epoch = 0
  BY DEF Init, Chip, Receivers, NoTx, Whole
<1>20. Wholes(<<>>) = <<>>
  BY WholesEmpty
<1>3. \A s \in Stages : s # 8 => Line[s] = <<>>
  BY <1>1, <1>2, <1>20, PartsHold DEF Parts, Stages, One
<1>4. Line[8] = <<Whole([epoch |-> epoch, id |-> count])>>
  BY PartsHold DEF Parts
<1>5. Len(Line[8]) = 1 /\ Sent(Line[8][1])
  BY <1>2, <1>4 DEF Whole, Sent
<1>6. ASSUME NEW s \in Stages, NEW i \in 1 .. Len(Line[s]) PROVE s = 8 /\ i = 1
  <2>1. s # 8 => Len(Line[s]) = 0
    BY <1>3
  <2>2. s = 8 => Len(Line[s]) = 1
    BY <1>5
  <2> QED
    <3>1. CASE s # 8
      BY <2>1, <3>1
    <3>2. CASE s = 8
      <4>1. Len(Line[s]) = 1
        BY <2>2, <3>2
      <4>2. i = 1
        BY <4>1
      <4> QED
        BY <3>2, <4>2
    <3> QED
      BY <3>1, <3>2
<1> QED
  BY <1>5, <1>6 DEF InLine, Behind

(* The screen changes only when a frame is plotted, and then in order. *)
LEMMA OrderStep ==
  TypeOK /\ QueuesGenuine /\ StoreHeadDone /\ SelfModeReadsNothing /\ InLine(Line)
    /\ [Next]_vars => InLine(Line)' /\ (chart' # chart => InOrderNow)
<1> SUFFICES ASSUME TypeOK, QueuesGenuine, StoreHeadDone, SelfModeReadsNothing,
                    InLine(Line), [Next]_vars
             PROVE  InLine(Line') /\ (chart' # chart => InOrderNow)
  OBVIOUS
<1>0. TypeOK /\ QueuesGenuine /\ StoreHeadDone /\ SelfModeReadsNothing
  OBVIOUS
<1>1. CASE Send \/ SenderRestart
  BY <1>0, <1>1, SendOrder DEF Send, SenderRestart, display
<1>2. ASSUME NEW r \in Receivers, gpio_isr_handler(r) \/ TaskReceive(r)
      PROVE  InLine(Line') /\ chart' = chart
  BY <1>0, <1>2, TakeOrder DEF gpio_isr_handler, TaskReceive, display
<1>3. CASE StoreHead \/ StoreBody \/ SlaveSendFrame
  BY <1>0, <1>3, WorkerOrder DEF StoreHead, StoreBody, SlaveSendFrame, display
<1>4. CASE UartLoss \/ UartFrame
  BY <1>0, <1>4, UartOrder DEF UartLoss, UartFrame, display
<1>5. CASE DisplaySelf
  BY <1>0, <1>5, SelfOrder
<1>6. CASE DisplayReceive
  BY <1>0, <1>6, ReceiveOrder DEF DisplayReceive
<1>7. CASE DisplayPair
  BY <1>0, <1>7, PairOrder
<1>8. CASE UNCHANGED vars
  <2>1. Line' = Line /\ chart' = chart
    BY <1>8 DEF vars, sender, capture, display, Line, Chip
  <2> QED
    BY <2>1
<1> QED
  BY <1>1, <1>2, <1>3, <1>4, <1>5, <1>6, <1>7, <1>8 DEF Next

-----------------------------------------------------------------------------
(* Two transmissions with the same boot and id are one transmission. *)
LEMMA SameTransmission ==
  ASSUME NEW p \in Transmission, NEW q \in Transmission, p.epoch = q.epoch, p.id = q.id
  PROVE  p = q
BY DEF Transmission

(* What the display has from the UART is one transmission or is spliced   *)
(* from two, its own uninitialised frame apart.                            *)
Genuine(f) == f.tail.epoch = 0 \/ f = Whole(f.tail) \/ Spliced(f)
FramesGenuine ==
  ~csi_mode => /\ \A i \in 1 .. Len(uart_recv_queue) : Genuine(uart_recv_queue[i])
               /\ Genuine(csi_display_data) /\ Genuine(csi_display_data_new)

(* The UART joins the beginning of a frame with the end of a later one, and *)
(* the display takes frames as they are.                                   *)
LEMMA FramesStep ==
  TypeOK /\ InLine(Line) /\ FramesGenuine /\ [Next]_vars => FramesGenuine'
<1> SUFFICES ASSUME TypeOK, InLine(Line), FramesGenuine, [Next]_vars PROVE FramesGenuine'
  OBVIOUS
<1>7. csi_mode' = csi_mode
  BY ModeKept
<1> SUFFICES ASSUME ~csi_mode
             PROVE  /\ \A i \in 1 .. Len(uart_recv_queue') : Genuine(uart_recv_queue'[i])
                    /\ Genuine(csi_display_data') /\ Genuine(csi_display_data_new')
  BY <1>7 DEF FramesGenuine
<1>0. /\ uart_recv_queue \in Seq(Frame) /\ wire \in Seq(Transmission)
      /\ \A i \in 1 .. Len(uart_recv_queue) : Genuine(uart_recv_queue[i])
      /\ Genuine(csi_display_data) /\ Genuine(csi_display_data_new)
  BY DEF TypeOK, DataOK, FramesGenuine
<1>1. ASSUME NEW f \in Frame, Genuine(f), uart_recv_queue' = Offer(uart_recv_queue, f, UartCap)
      PROVE  \A i \in 1 .. Len(uart_recv_queue') : Genuine(uart_recv_queue'[i])
  <2>1. CASE uart_recv_queue' = uart_recv_queue
    BY <1>0, <2>1
  <2>2. CASE uart_recv_queue' = Append(uart_recv_queue, f)
    <3>1. /\ Len(uart_recv_queue') = Len(uart_recv_queue) + 1
          /\ uart_recv_queue'[Len(uart_recv_queue) + 1] = f
          /\ \A i \in 1 .. Len(uart_recv_queue) : uart_recv_queue'[i] = uart_recv_queue[i]
      BY <1>0, <2>2
    <3>2. \A i \in 1 .. Len(uart_recv_queue) + 1 :
            i \in 1 .. Len(uart_recv_queue) \/ i = Len(uart_recv_queue) + 1
      BY <1>0
    <3> QED
      BY <1>0, <1>1, <3>1, <3>2
  <2> QED
    BY <1>1, <2>1, <2>2 DEF Offer
<1>2. CASE UartFrame
  <2>1. UNCHANGED <<csi_display_data, csi_display_data_new>> /\ wire # <<>>
    BY <1>2 DEF UartFrame, display
  <2>2. CASE uart_recv_queue' = Offer(uart_recv_queue, Whole(Head(wire)), UartCap)
    <3>1. Head(wire) \in Transmission
      BY <1>0, <2>1, TailSeq
    <3>2. Whole(Head(wire)) \in Frame /\ Genuine(Whole(Head(wire)))
      BY <3>1, WholeFrame DEF Genuine
    <3> QED
      BY <1>0, <1>1, <2>1, <2>2, <3>2
  <2>3. ASSUME Len(wire) > 1, NEW id \in SplicedIds(wire[1], wire[2]),
               uart_recv_queue' = Offer(uart_recv_queue,
                 [id |-> id, head |-> wire[1], tail |-> wire[2]], UartCap)
        PROVE  \A i \in 1 .. Len(uart_recv_queue') : Genuine(uart_recv_queue'[i])
    <3> DEFINE f == [id |-> id, head |-> wire[1], tail |-> wire[2]]
    <3>1. wire[1] \in Transmission /\ wire[2] \in Transmission
      BY <1>0, <2>3
    <3>2. Line[5] = Wholes(wire) /\ 5 \in Stages
      BY PartsHold DEF Parts, Stages
    <3>3. /\ 1 \in 1 .. Len(Line[5]) /\ 2 \in 1 .. Len(Line[5])
          /\ Line[5][1] = Whole(wire[1]) /\ Line[5][2] = Whole(wire[2])
      BY <1>0, <2>3, <3>2, WholesSeq
    <3>4. Behind(5, 1, 5, 2)
      BY DEF Behind
    <3>5. After(Line[5][2], Line[5][1])
      BY <3>2, <3>3, <3>4 DEF InLine
    <3>6. Later(wire[2], wire[1])
      BY <3>1, <3>3, <3>5, WholeFrame DEF After
    <3>7. f \in Frame /\ Genuine(f)
      BY <3>1, <3>6, SplicedFrame DEF Genuine, Spliced
    <3> QED
      BY <1>1, <2>3, <3>7
  <2> QED
    BY <1>0, <1>2, <2>1, <2>2, <2>3 DEF UartFrame
<1>3. CASE DisplayReceive
  <2>1. /\ uart_recv_queue # <<>> /\ uart_recv_queue' = Tail(uart_recv_queue)
        /\ csi_display_data_new' = Head(uart_recv_queue)
        /\ csi_display_data' \in {csi_display_data, csi_display_data_new'}
    BY <1>3 DEF DisplayReceive
  <2>2. /\ Head(uart_recv_queue) = uart_recv_queue[1] /\ Len(uart_recv_queue) > 0
        /\ Len(uart_recv_queue') = Len(uart_recv_queue) - 1
        /\ \A i \in 1 .. Len(uart_recv_queue') : uart_recv_queue'[i] = uart_recv_queue[i + 1]
    BY <1>0, <2>1, TailSeq
  <2>3. /\ 1 \in 1 .. Len(uart_recv_queue)
        /\ \A i \in 1 .. Len(uart_recv_queue') : i + 1 \in 1 .. Len(uart_recv_queue)
    BY <1>0, <2>2
  <2> QED
    BY <1>0, <2>1, <2>2, <2>3
<1>4. CASE DisplayPair
  BY <1>0, <1>4 DEF DisplayPair, NextFrame
<1>5. CASE DisplaySelf
  BY <1>5 DEF DisplaySelf
<1>6. CASE ~UartFrame /\ ~DisplayReceive /\ ~DisplayPair /\ ~DisplaySelf
  <2>1. UNCHANGED <<uart_recv_queue, csi_display_data, csi_display_data_new>>
    BY <1>6 DEF Next, vars, display, Send, SenderRestart, gpio_isr_handler, TaskReceive,
           StoreHead, StoreBody, SlaveSendFrame, UartLoss
  <2> QED
    BY <1>0, <2>1
<1> QED
  BY <1>2, <1>3, <1>4, <1>5, <1>6

(* What the display pairs is attributable to one of the five causes. *)
LEMMA PairStep ==
  TypeOK /\ SelfModeReadsNothing /\ RowsOK /\ FramesGenuine /\ PairAttributed /\ [Next]_vars
    => PairAttributed'
<1> SUFFICES ASSUME TypeOK, SelfModeReadsNothing, RowsOK, FramesGenuine, PairAttributed,
                    [Next]_vars
             PROVE  PairAttributed'
  OBVIOUS
<1>1. CASE shown' = shown
  BY <1>1 DEF PairAttributed
<1>2. CASE DisplaySelf
  BY <1>2 DEF DisplaySelf, Plot, PairAttributed
<1>3. ASSUME DisplayPair, shown' # shown PROVE PairAttributed'
  <2> DEFINE f == csi_display_data
             row == master_data[Slot(f.id)]
  <2>1. /\ copying /\ copied_id = f.id
        /\ shown' = [frame |-> f, master |-> row.cir, overlap |-> overlap]
    BY <1>3 DEF DisplayPair, Plot, IdsAgree
  <2>2. /\ f \in Frame /\ f.id \in Nat /\ f.tail \in Transmission /\ f.tail.epoch \in Nat
        /\ Slot(f.id) \in 0 .. TableSize - 1
        /\ row \in Row /\ row.cir \in Transmission
    BY SlotInTable DEF TypeOK, DataOK, Frame, Transmission, Row
  <2>3. CASE overlap
    BY <2>1, <2>3 DEF PairAttributed
  <2>4. CASE ~overlap
    <3>1. row.id = f.id /\ Coherent(row)
      BY <2>1, <2>2, <2>4 DEF RowsOK, ReadCoherent, TableCoherent
    <3>2. CASE row = ZeroRow
      <4>1. row.cir = NoTx /\ row.id = 0
        BY <3>2 DEF ZeroRow
      <4> QED
        BY <2>1, <3>1, <4>1 DEF PairAttributed
    <3>3. CASE row.cir.epoch > 0 /\ row.cir.id = row.id
      <4>1. Genuine(f)
        BY <2>1 DEF FramesGenuine, SelfModeReadsNothing
      <4>2. CASE f.tail.epoch = 0
        BY <2>1, <4>2 DEF PairAttributed
      <4>3. CASE Spliced(f) \/ row.cir.epoch # f.tail.epoch
        BY <2>1, <2>2, <3>1, <3>3, <4>3 DEF PairAttributed
      <4>4. CASE f = Whole(f.tail) /\ row.cir.epoch = f.tail.epoch
        <5>1. f.tail.id = f.id
          BY <2>2, <4>4, WholeFrame
        <5>2. row.cir = f.tail
          BY <2>2, <3>1, <3>3, <4>4, <5>1, SameTransmission
        <5> QED
          BY <2>1, <4>4, <5>2 DEF PairAttributed
      <4> QED
        BY <4>1, <4>2, <4>3, <4>4 DEF Genuine
    <3> QED
      BY <3>1, <3>2, <3>3 DEF Coherent
  <2> QED
    BY <2>3, <2>4
<1>4. CASE ~DisplaySelf /\ ~DisplayPair
  <2>1. shown' = shown
    BY <1>4 DEF Next, vars, display, Send, SenderRestart, gpio_isr_handler, TaskReceive,
           StoreHead, StoreBody, SlaveSendFrame, UartLoss, UartFrame, DisplayReceive
  <2> QED
    BY <1>1, <2>1
<1> QED
  BY <1>1, <1>2, <1>3, <1>4

-----------------------------------------------------------------------------
(* The inductive invariant: the properties, and what they rest on - the    *)
(* queues hold real transmissions, a row outside a store is one capture    *)
(* under its own id, a read no store overlapped saw one row, what is on    *)
(* its way to the screen is in the order of sending, and the frames are    *)
(* whole or spliced.                                                       *)
IInv ==
  /\ TypeOK
  /\ CaptureOK
  /\ SelfModeReadsNothing
  /\ RowsOK
  /\ InLine(Line)
  /\ FramesGenuine
  /\ PairAttributed

(* The initial state satisfies the invariant. *)
LEMMA InitIInv == Init => IInv
<1> SUFFICES ASSUME Init PROVE IInv
  OBVIOUS
<1> USE DEF Transmission, NoTx, Row, ZeroRow, Receivers
<1>1. csi_display_data \in Frame
  <2>1. PICK g \in StackIds : csi_display_data = [id |-> g, head |-> NoTx, tail |-> NoTx]
    BY DEF Init
  <2>2. g \in Nat
    BY <2>1, IdsAssumption
  <2> QED
    BY <2>1, <2>2 DEF Frame
<1>2. /\ rxq \in [Receivers -> Seq(Transmission)] /\ job \in [Receivers -> Transmission]
      /\ live \in [Receivers -> Nat] /\ leaked \in [Receivers -> Nat]
  BY DEF Init
<1>3. master_data \in [0 .. TableSize - 1 -> Row]
  BY DEF Init
<1>4. /\ NoTx \in Transmission /\ Whole(NoTx) \in Frame
      /\ shown \in [frame : Frame, master : Transmission, overlap : BOOLEAN]
  BY DEF Init, Whole, Frame
<1>40. FlagsOK
  BY Zenon DEF Init, FlagsOK
<1>42. DataOK
  BY <1>1, <1>2, <1>3, <1>4 DEF Init, DataOK
<1>5. QueuesGenuine /\ HeapAccounted
  BY DEF Init, QueuesGenuine, HeapAccounted, InHand
<1>6. RowsOK /\ PairAttributed
  BY DEF Init, RowsOK, StoreHeadDone, TableCoherent, Coherent, BeingStored, ReadCoherent,
         PairAttributed, Whole
<1>60. InLine(Line)
  BY InitOrder
<1>61. FramesGenuine
  BY DEF Init, FramesGenuine, Genuine, Whole
<1>7. SelfModeReadsNothing
  BY DEF Init, SelfModeReadsNothing
<1>8. CaptureOK
  BY <1>2, <1>5 DEF CaptureOK
<1> QED
  BY <1>40, <1>42, <1>6, <1>60, <1>61, <1>7, <1>8 DEF IInv, TypeOK

(* The invariant is kept by every step. *)
LEMMA NextIInv == IInv /\ [Next]_vars => IInv'
<1> SUFFICES ASSUME IInv, [Next]_vars PROVE IInv'
  OBVIOUS
<1> USE DEF IInv
<1>1. FlagsOK' /\ TasksOK' /\ ScreenOK'
  BY FlagsStep, TasksStep, ScreenStep
<1>2. CaptureOK'
  BY CaptureStep DEF RowsOK
<1>3. TypeOK'
  BY <1>1, <1>2 DEF TypeOK, DataOK, TasksOK, ScreenOK, CaptureOK
<1>4. SelfModeReadsNothing'
  BY SelfModeStep
<1>5. RowsOK'
  BY RowsStep DEF CaptureOK
<1>6. PairAttributed'
  BY PairStep
<1>7. InLine(Line)'
  BY OrderStep DEF CaptureOK, RowsOK
<1>8. FramesGenuine'
  BY FramesStep
<1> QED
  BY <1>2, <1>3, <1>4, <1>5, <1>6, <1>7, <1>8

(* The invariant holds in every state of every behaviour. *)
LEMMA Inductive == Spec => []IInv
<1>1. Init => IInv
  BY InitIInv
<1>2. IInv /\ [Next]_vars => IInv'
  BY NextIInv
<1> QED
  BY <1>1, <1>2, PTL DEF Spec

(* Every variable of the esp-crab model keeps its type. *)
THEOREM TypeCorrect == Spec => []TypeOK
<1>1. IInv => TypeOK
  BY DEF IInv
<1> QED
  BY <1>1, Inductive, PTL

(* Both receivers account for every block their callbacks allocate. *)
THEOREM HeapCorrect == Spec => []HeapAccounted
<1>1. IInv => HeapAccounted
  BY DEF IInv, CaptureOK
<1> QED
  BY <1>1, Inductive, PTL

(* A wrong pair on the screen has one of the five causes, for any queue    *)
(* lengths, table size, losses and splices on the UART and reboots.        *)
THEOREM PairCorrect == Spec => []PairAttributed
<1>1. IInv => PairAttributed
  BY DEF IInv
<1> QED
  BY <1>1, Inductive, PTL

(* The plots of a run of the display follow the order of sending. *)
THEOREM PlotsInOrder == Spec => PlottedInOrder
<1>1. IInv /\ [Next]_vars =>
        [chart' # chart /\ shown'.frame.tail.epoch # 0 =>
           Later(shown'.frame.head, shown.frame.tail)]_vars
  BY OrderStep DEF IInv, CaptureOK, RowsOK, InOrderNow, After
<1> QED
  BY <1>1, Inductive, PTL DEF Spec, PlottedInOrder
=============================================================================
