------------------------------ MODULE EspCrab ------------------------------
(***************************************************************************)
(* The esp-crab device (examples/esp-crab): one sender, two receivers that *)
(* share a crystal, and the display that pairs what both heard.            *)
(*                                                                         *)
(*   slave_send --radio--> master_recv  rx callback -> csi_recv_queue ->   *)
(*                           process_csi_data_task -> master_data[id % T]  *)
(*              --radio--> slave_recv   rx callback -> csi_send_queue ->   *)
(*                           uart_send_task --UART--> uart_recv_queue ->   *)
(*                           csi_data_display_task (on the master)         *)
(*                                                                         *)
(* Every queue is a FreeRTOS queue written with a zero timeout, so a full  *)
(* queue loses the item. The receive queues hold pointers to heap blocks.  *)
(* A transmission is named by the sender's boot (epoch) and the id in its  *)
(* payload; the CIR values of a capture are abstracted to the transmission *)
(* they were computed from, which is all the pairing depends on. Epoch 0   *)
(* names no transmission: a table row never written, or stack garbage.     *)
(* What the display receives is a frame of the UART, whose beginning and   *)
(* end may be of two transmissions: the scan looks at the markers only.    *)
(***************************************************************************)
EXTENDS Naturals, Sequences

CONSTANTS
  RxCap,        \* length of csi_recv_queue and of csi_send_queue (20)
  DisplayCap,   \* length of csi_display_queue (20)
  UartCap,      \* length of uart_recv_queue (20)
  WireCap,      \* frames the UART hardware and driver hold between the chips
  TableSize,    \* DATA_TABLE_SIZE (100)
  ChartPoints,  \* LVGL_CHART_POINTS (33)
  MaxId,        \* bound: ids sent in one boot of the sender are 0 .. MaxId
  MaxEpoch,     \* bound: number of boots of the sender
  StackIds,     \* ids the uninitialised csi_display_data may hold at start
  IdCuts        \* 2^(8k) for the k bytes of the id a cut frame still has of its own

ASSUME CapsAssumption ==
  /\ RxCap \in Nat \ {0} /\ DisplayCap \in Nat \ {0} /\ UartCap \in Nat \ {0}
  /\ WireCap \in Nat \ {0} /\ ChartPoints \in Nat \ {0}
ASSUME TableAssumption == TableSize \in Nat \ {0}
ASSUME IdsAssumption ==
  /\ MaxId \in Nat /\ MaxEpoch \in Nat /\ StackIds \subseteq Nat
  /\ IdCuts \subseteq Nat \ {0}

VARIABLES
  csi_mode,          \* the bool given to the display task: self or dual mode
  epoch, count,      \* sender: boots so far, next id to send
  rxq,               \* per receiver, its queue of pointers to captures
  job,               \* per receiver, the block its task took from the queue
  live, leaked,      \* per receiver, blocks allocated, and of these the unreachable
  storing,           \* the process task is between the halves of its table store
  master_data,       \* the table, row = id field and the capture in its cir
  csi_display_queue, \* captures for the display in self mode
  wire,              \* frames between uart_write_bytes and uart_event_task
  uart_recv_queue,   \* frames for the display in dual mode
  csi_display_data,  \* the frame the display works on
  display_start,     \* csi_display_data.start[0] is not 0
  csi_display_data_new,
  copying,           \* the display is between the halves of its table read
  copied_id,         \* csi_master_data.id
  overlap,           \* history: a store to the row ran during the read of it
  chart,             \* the count of the display task: next chart position
  shown              \* history: the last pair plotted

sender  == <<epoch, count>>
capture == <<rxq, job, live, leaked>>
display == <<csi_display_data, display_start, csi_display_data_new, copying,
             copied_id, chart, shown>>
vars == <<csi_mode, sender, capture, storing, master_data, csi_display_queue,
          wire, uart_recv_queue, display, overlap>>

-----------------------------------------------------------------------------
Receivers == {"master", "slave"}
Transmission == [epoch : Nat, id : Nat]
NoTx == [epoch |-> 0, id |-> 0]

(* A frame in master_recv: the id in it, and the transmissions its beginning *)
(* and its end are of - one and the same unless the frame was cut.         *)
Frame == [id : Nat, head : Transmission, tail : Transmission]
Whole(p) == [id |-> p.id, head |-> p, tail |-> p]

(* The id of a frame that begins as p and ends as q: little-endian, so the *)
(* low bytes are p's, as many as are before the cut, the others q's.       *)
SplicedIds(p, q) == {(p.id % cut) + (q.id \div cut) * cut : cut \in IdCuts}

(* One row of the table; the static array starts as all zeros. *)
Row == [id : Nat, cir : Transmission]
ZeroRow == [id |-> 0, cir |-> NoTx]
Slot(id) == id % TableSize

(* xQueueSend with a zero timeout: a full queue refuses the item. *)
Offer(q, item, cap) == IF Len(q) < cap THEN Append(q, item) ELSE q

(* What is left of a queue when its i-th item is lost. *)
Without(q, i) == [n \in 1 .. Len(q) - 1 |-> IF n < i THEN q[n] ELSE q[n + 1]]

Init ==
  /\ csi_mode \in BOOLEAN
  /\ epoch = 1 /\ count = 0
  /\ rxq = [r \in Receivers |-> <<>>]
  /\ job = [r \in Receivers |-> NoTx]
  /\ live = [r \in Receivers |-> 0]
  /\ leaked = [r \in Receivers |-> 0]
  /\ storing = FALSE
  /\ master_data = [s \in 0 .. TableSize - 1 |-> ZeroRow]
  /\ csi_display_queue = <<>>
  /\ wire = <<>>
  /\ uart_recv_queue = <<>>
  /\ csi_display_data \in [id : StackIds, head : {NoTx}, tail : {NoTx}]
  /\ display_start \in BOOLEAN
  /\ csi_display_data_new = Whole(NoTx)
  /\ copying = FALSE
  /\ copied_id = 0
  /\ overlap = FALSE
  /\ chart = 0
  /\ shown = [frame |-> Whole(NoTx), master |-> NoTx, overlap |-> FALSE]

-----------------------------------------------------------------------------
(* In self mode the slave chip is the sender and only the master receives. *)
Listening == IF csi_mode THEN {"master"} ELSE Receivers

(***************************************************************************)
(* wifi_csi_rx_cb at receiver r for transmission p: a block is always      *)
(* allocated; when the queue is full its only pointer is dropped.          *)
(***************************************************************************)
wifi_csi_rx_cb(heard, p) ==
  /\ rxq' = [r \in Receivers |-> IF r \in heard THEN Offer(rxq[r], p, RxCap) ELSE rxq[r]]
  /\ live' = [r \in Receivers |-> IF r \in heard THEN live[r] + 1 ELSE live[r]]
  /\ leaked' = [r \in Receivers |->
                  IF r \in heard /\ Len(rxq[r]) = RxCap THEN leaked[r] + 1 ELSE leaked[r]]
  /\ UNCHANGED job

(* One turn of the sender's loop: any subset of the receivers hears it. *)
Send ==
  /\ count <= MaxId
  /\ \E heard \in SUBSET Listening : wifi_csi_rx_cb(heard, [epoch |-> epoch, id |-> count])
  /\ count' = count + 1
  /\ UNCHANGED <<csi_mode, epoch, storing, master_data, csi_display_queue, wire,
                 uart_recv_queue, display, overlap>>

(* The sender reboots: its loop starts again at 0, the receivers run on. *)
SenderRestart ==
  /\ epoch < MaxEpoch
  /\ epoch' = epoch + 1
  /\ count' = 0
  /\ UNCHANGED <<csi_mode, capture, storing, master_data, csi_display_queue, wire,
                 uart_recv_queue, display, overlap>>

(* gpio_isr_handler of receiver r: the queue is reset, what it pointed to *)
(* stays allocated.                                                       *)
gpio_isr_handler(r) ==
  /\ r \in Listening
  /\ leaked' = [leaked EXCEPT ![r] = @ + Len(rxq[r])]
  /\ rxq' = [rxq EXCEPT ![r] = <<>>]
  /\ UNCHANGED <<csi_mode, sender, job, live, storing, master_data, csi_display_queue,
                 wire, uart_recv_queue, display, overlap>>

(* The xQueueReceive at the head of process_csi_data_task / uart_send_task. *)
TaskReceive(r) ==
  /\ job[r] = NoTx
  /\ rxq[r] # <<>>
  /\ job' = [job EXCEPT ![r] = Head(rxq[r])]
  /\ rxq' = [rxq EXCEPT ![r] = Tail(@)]
  /\ UNCHANGED <<csi_mode, sender, live, leaked, storing, master_data,
                 csi_display_queue, wire, uart_recv_queue, display, overlap>>

(* Variants of FreeJob below: freeing twice, and forgetting to free. *)
FreeJobTwice(r) ==
  /\ job' = [job EXCEPT ![r] = NoTx]
  /\ live' = [live EXCEPT ![r] = @ - 2]
  /\ UNCHANGED <<rxq, leaked>>
FreeJobForgotten(r) ==
  /\ job' = [job EXCEPT ![r] = NoTx]
  /\ UNCHANGED <<rxq, live, leaked>>

(* free() of the block in hand. *)
FreeJob(r) ==
  /\ job' = [job EXCEPT ![r] = NoTx]
  /\ live' = [live EXCEPT ![r] = @ - 1]
  /\ UNCHANGED <<rxq, leaked>>

(***************************************************************************)
(* master_data[id % DATA_TABLE_SIZE] = data copies 32 bytes upwards, id    *)
(* before cir, and the task can be preempted in between: the UART task has *)
(* a higher priority and the display task the same one.                    *)
(***************************************************************************)
ReadsRow(id) == copying /\ Slot(id) = Slot(csi_display_data.id)

StoreHead ==
  /\ job["master"] # NoTx /\ ~storing
  /\ storing' = TRUE
  /\ LET id == job["master"].id IN
       /\ master_data' = [master_data EXCEPT ![Slot(id)].id = id]
       /\ overlap' = (overlap \/ ReadsRow(id))
  /\ UNCHANGED <<csi_mode, sender, capture, csi_display_queue, wire, uart_recv_queue,
                 display>>

(* The rest of the store, then the display queue and free. *)
StoreBody ==
  /\ storing
  /\ storing' = FALSE
  /\ LET p == job["master"] IN
       /\ master_data' = [master_data EXCEPT ![Slot(p.id)].cir = p]
       /\ overlap' = (overlap \/ ReadsRow(p.id))
       /\ csi_display_queue' = Offer(csi_display_queue, p, DisplayCap)
  /\ FreeJob("master")
  /\ UNCHANGED <<csi_mode, sender, wire, uart_recv_queue, display>>

(* uart_send_task: the frame goes to the UART, which blocks while full. *)
SlaveSendFrame ==
  /\ job["slave"] # NoTx
  /\ Len(wire) < WireCap
  /\ wire' = Append(wire, job["slave"])
  /\ FreeJob("slave")
  /\ UNCHANGED <<csi_mode, sender, storing, master_data, csi_display_queue,
                 uart_recv_queue, display, overlap>>

(* A frame does not get through: an event boundary, a flush or an overflow *)
(* of the FIFO cuts it. Any frame on the wire can be the one.              *)
UartLoss ==
  /\ \E i \in 1 .. Len(wire) : wire' = Without(wire, i)
  /\ UNCHANGED <<csi_mode, sender, capture, storing, master_data, csi_display_queue,
                 uart_recv_queue, display, overlap>>

(* uart_event_task finds a frame between its markers: a whole one, or, when *)
(* an overflow nothing tells of took the bytes in between, one with the    *)
(* beginning of one and the end of a later one (module UartLink has the    *)
(* bytes and shows that nothing else comes out of it).                     *)
UartFrame ==
  /\ wire # <<>>
  /\ \/ /\ uart_recv_queue' = Offer(uart_recv_queue, Whole(Head(wire)), UartCap)
        /\ wire' = Tail(wire)
     \/ /\ Len(wire) > 1
        /\ \E id \in SplicedIds(wire[1], wire[2]) :
             uart_recv_queue' = Offer(uart_recv_queue,
                                      [id |-> id, head |-> wire[1], tail |-> wire[2]], UartCap)
        /\ wire' = Tail(Tail(wire))
  /\ UNCHANGED <<csi_mode, sender, capture, storing, master_data, csi_display_queue,
                 display, overlap>>

-----------------------------------------------------------------------------
(* Plot(f, m): one point on the charts, at the next chart position. *)
Plot(f, m) ==
  /\ shown' = [frame |-> f, master |-> m, overlap |-> overlap]
  /\ chart' = (chart + 1) % ChartPoints

(* Self mode: the display plots the master's own captures. *)
DisplaySelf ==
  /\ csi_mode
  /\ csi_display_queue # <<>>
  /\ csi_display_queue' = Tail(csi_display_queue)
  /\ csi_display_data' = Whole(Head(csi_display_queue))
  /\ display_start' = TRUE
  /\ Plot(Whole(Head(csi_display_queue)), Head(csi_display_queue))
  /\ UNCHANGED <<csi_mode, sender, capture, storing, master_data, wire, uart_recv_queue,
                 csi_display_data_new, copying, copied_id, overlap>>

(* Dual mode: a new frame arrives and the PREVIOUS one is worked on. One  *)
(* with a zero start byte is skipped; otherwise the copy of its row into  *)
(* csi_master_data begins with the id.                                    *)
DisplayReceive ==
  /\ ~csi_mode /\ ~copying
  /\ uart_recv_queue # <<>>
  /\ csi_display_data_new' = Head(uart_recv_queue)
  /\ uart_recv_queue' = Tail(uart_recv_queue)
  /\ \/ /\ ~display_start
        /\ csi_display_data' = csi_display_data_new'
        /\ display_start' = TRUE
        /\ UNCHANGED <<copying, copied_id, overlap>>
     \/ /\ display_start
        /\ copying' = TRUE
        /\ copied_id' = master_data[Slot(csi_display_data.id)].id
        /\ overlap' = (storing /\ Slot(job["master"].id) = Slot(csi_display_data.id))
        /\ UNCHANGED <<csi_display_data, display_start>>
  /\ UNCHANGED <<csi_mode, sender, capture, storing, master_data, csi_display_queue,
                 wire, chart, shown>>

(* The master's row is taken only for a frame with the row's id (its     *)
(* variant takes any row), and the frame just received is the next to be *)
(* paired (its variant keeps the old one).                               *)
IdsUnchecked == TRUE
IdsAgree == copied_id = csi_display_data.id
FrameKept == csi_display_data
NextFrame == csi_display_data_new

(* The rest of the copy; the pair is plotted when the ids agree; the new   *)
(* frame becomes the previous one.                                         *)
DisplayPair ==
  /\ copying
  /\ copying' = FALSE /\ copied_id' = 0 /\ overlap' = FALSE
  /\ \/ /\ IdsAgree
        /\ Plot(csi_display_data, master_data[Slot(csi_display_data.id)].cir)
     \/ /\ ~IdsAgree
        /\ UNCHANGED <<chart, shown>>
  /\ csi_display_data' = NextFrame
  /\ display_start' = TRUE
  /\ UNCHANGED <<csi_mode, sender, capture, storing, master_data, csi_display_queue,
                 wire, uart_recv_queue, csi_display_data_new>>

Next ==
  \/ Send
  \/ SenderRestart
  \/ \E r \in Receivers : gpio_isr_handler(r) \/ TaskReceive(r)
  \/ StoreHead
  \/ StoreBody
  \/ SlaveSendFrame
  \/ UartLoss
  \/ UartFrame
  \/ DisplaySelf
  \/ DisplayReceive
  \/ DisplayPair

Spec == Init /\ [][Next]_vars

-----------------------------------------------------------------------------
FlagsOK ==
  /\ csi_mode \in BOOLEAN /\ storing \in BOOLEAN /\ copying \in BOOLEAN
  /\ overlap \in BOOLEAN /\ display_start \in BOOLEAN

DataOK ==
  /\ epoch \in Nat \ {0} /\ count \in Nat
  /\ rxq \in [Receivers -> Seq(Transmission)]
  /\ job \in [Receivers -> Transmission]
  /\ live \in [Receivers -> Nat] /\ leaked \in [Receivers -> Nat]
  /\ master_data \in [0 .. TableSize - 1 -> Row]
  /\ csi_display_queue \in Seq(Transmission)
  /\ wire \in Seq(Transmission) /\ uart_recv_queue \in Seq(Frame)
  /\ csi_display_data \in Frame /\ csi_display_data_new \in Frame
  /\ copied_id \in Nat /\ chart \in Nat
  /\ shown \in [frame : Frame, master : Transmission, overlap : BOOLEAN]

TypeOK == FlagsOK /\ DataOK

(* Blocks in the hands of the task of receiver r: at most one. *)
InHand(r) == IF job[r] = NoTx THEN 0 ELSE 1

(* Every block the callbacks allocate is queued, in the hands of the task, *)
(* or leaked at one of the two sites the code has (a full queue, the sync  *)
(* interrupt): no block is freed twice, and no other path loses one.       *)
HeapAccounted ==
  \A r \in Receivers : live[r] = Len(rxq[r]) + InHand(r) + leaked[r]

Later(p, q) == p.epoch > q.epoch \/ (p.epoch = q.epoch /\ p.id > q.id)
Spliced(f) == Later(f.tail, f.head)

(* A phase difference is plotted between the two captures of one and the   *)
(* same transmission, except for exactly five causes: the display's first, *)
(* uninitialised frame; frame 0 against the zeroed row 0; a store that ran *)
(* into the read of the row; and, with the id of the row in the frame, a   *)
(* frame spliced from two or a sender that rebooted in between.            *)
PairAttributed ==
  \/ shown.frame = Whole(shown.master)
  \/ shown.frame.tail.epoch = 0
  \/ (shown.master = NoTx /\ shown.frame.id = 0)
  \/ shown.overlap
  \/ /\ shown.master.id = shown.frame.id /\ 0 < shown.master.epoch
     /\ Spliced(shown.frame) \/ shown.master.epoch # shown.frame.tail.epoch

(* The README says the master calculates the phase difference of the CSI   *)
(* it and SLAVE_RECV receive from SLAVE_SEND: both sides of a plotted pair *)
(* are captures of one transmission.                                       *)
PlotsOneTransmission == shown.frame = Whole(shown.master)

(* Nothing of a transmission is plotted twice or after a later one,        *)
(* whatever the queues, the UART and the reboots drop and the UART splices;*)
(* the garbage frame has no order.                                         *)
PlottedInOrder ==
  [][chart' # chart /\ shown'.frame.tail.epoch # 0 =>
       Later(shown'.frame.head, shown.frame.tail)]_vars
=============================================================================
