----------------------------- MODULE EvalServer -----------------------------
(***************************************************************************)
(* The evaluation server of console_test                                   *)
(* (examples/esp-radar/console_test/main/radar_evaluate.c): recorded CSI   *)
(* comes back over TCP, in chunks cut anywhere, and tcp_server_task finds  *)
(* the records in its buffer. A character stands for about 100 bytes: the  *)
(* word CSI_DATA, a newline or anything else, with the line it is of. The  *)
(* task starts when radar_evaluate_server is called, which nothing in the  *)
(* repository does; the race for the radar's configuration is in           *)
(* RadarConfig.                                                            *)
(***************************************************************************)
EXTENDS Naturals, Sequences, SequencesExt

CONSTANTS
  RX_BUFFER_SIZE,  \* characters of the buffer, the terminating zero among them
  Short,           \* a record is longer than this: 250
  Lines,           \* lines a client may send
  MaxLines,        \* bound: lines of a connection
  MaxConnections   \* bound: connections, and starts of the server

VARIABLES
  g_tcp_server_task_handle,  \* whether it is not NULL
  server,     \* where tcp_server_task is
  unsent,     \* characters the client has yet to send
  rx_buffer,
  ctx,        \* whether the radar passes its data on to the server
  analysed,   \* the lines handed to csi_info_analysis in this connection
  received,   \* history: the characters received in this connection
  connections, starts

eval_vars == <<g_tcp_server_task_handle, server, unsent, rx_buffer, ctx>>
vars == <<eval_vars, analysed, received, connections, starts>>

-----------------------------------------------------------------------------
(* A line is a record or not, and has so many characters before its end. *)
Char(kind, line) == [kind |-> kind, line |-> line]
Text(line, n) ==
  (IF line.csi THEN <<Char("CSI_DATA", n)>> ELSE <<>>)
  \o [i \in 1 .. line.body |-> Char("other", n)] \o <<Char("newline", n)>>
TextOf(lines) == FlattenSeq([n \in 1 .. Len(lines) |-> Text(lines[n], n)])
Chars == [kind : {"CSI_DATA", "other", "newline"}, line : 1 .. MaxLines]

(* strstr: where the first of a kind is; 0 is NULL. *)
strstr(kind) ==
  IF \E i \in DOMAIN rx_buffer : rx_buffer[i].kind = kind
  THEN CHOOSE i \in DOMAIN rx_buffer :
         rx_buffer[i].kind = kind /\ \A j \in 1 .. i - 1 : rx_buffer[j].kind # kind
  ELSE 0
begin == strstr("CSI_DATA")
end == strstr("newline")

Init ==
  /\ g_tcp_server_task_handle = FALSE /\ server = "none"
  /\ unsent = <<>> /\ rx_buffer = <<>> /\ ctx = FALSE
  /\ analysed = <<>> /\ received = <<>> /\ connections = 0 /\ starts = 0

-----------------------------------------------------------------------------
radar_evaluate_server ==
  /\ ~g_tcp_server_task_handle /\ starts < MaxConnections
  /\ g_tcp_server_task_handle' = TRUE /\ starts' = starts + 1
  /\ server' = "setup"
  /\ UNCHANGED <<unsent, rx_buffer, ctx, analysed, received, connections>>

(* The socket is made, bound and listens; one that cannot be made ends the *)
(* task without a word to the handle, the other failures clear it.         *)
Setup ==
  /\ server = "setup"
  /\ \/ server' = "accept" /\ UNCHANGED g_tcp_server_task_handle
     \/ server' = "ended" /\ UNCHANGED g_tcp_server_task_handle
     \/ server' = "none" /\ g_tcp_server_task_handle' = FALSE
  /\ UNCHANGED <<unsent, rx_buffer, ctx, analysed, received, connections, starts>>

AcceptFails ==
  /\ server = "accept"
  /\ server' = "none" /\ g_tcp_server_task_handle' = FALSE
  /\ UNCHANGED <<unsent, rx_buffer, ctx, analysed, received, connections, starts>>

(* A client connects, with all that it is going to send. *)
Accept ==
  /\ server = "accept" /\ connections < MaxConnections
  /\ connections' = connections + 1
  /\ \E lines \in BoundedSeq(Lines, MaxLines) : unsent' = TextOf(lines)
  /\ rx_buffer' = <<>> /\ analysed' = <<>> /\ received' = <<>>
  /\ ctx' = TRUE
  /\ server' = "recv"
  /\ UNCHANGED <<g_tcp_server_task_handle, starts>>

(* recv returns a chunk that fits, with a zero after it; the variant *)
(* forgets the zero.                                                   *)
RoomForAll == RX_BUFFER_SIZE - Len(rx_buffer)
Room == RX_BUFFER_SIZE - Len(rx_buffer) - 1
Receive ==
  /\ server = "recv"
  /\ \E n \in 1 .. Room :
       /\ n <= Len(unsent)
       /\ unsent' = SubSeq(unsent, n + 1, Len(unsent))
       /\ rx_buffer' = rx_buffer \o SubSeq(unsent, 1, n)
       /\ received' = received \o SubSeq(unsent, 1, n)
  /\ server' = "scan"
  /\ UNCHANGED <<g_tcp_server_task_handle, ctx, analysed, connections, starts>>

(* It returns 0 or less when the client closes, when the connection fails  *)
(* and, although nothing is wrong, when the buffer is full.                *)
Closed ==
  /\ server = "recv"
  /\ server' = "closed"
  /\ unsent' = <<>> /\ rx_buffer' = <<>>
  /\ UNCHANGED <<g_tcp_server_task_handle, ctx, analysed, received, connections, starts>>

(* A second later. *)
Release ==
  /\ server = "closed"
  /\ ctx' = FALSE
  /\ server' = "accept"
  /\ UNCHANGED <<g_tcp_server_task_handle, unsent, rx_buffer, analysed, received, connections, starts>>

-----------------------------------------------------------------------------
(* One turn of the loop over a buffer of more than 250 bytes. What ends    *)
(* with the newline is dropped; the variant drops all that was received.   *)
IsRecord == begin > 0 /\ end > begin + Short
DropAll == <<>>
Drop == SubSeq(rx_buffer, end + 1, Len(rx_buffer))
Scan ==
  /\ server = "scan" /\ Len(rx_buffer) > Short /\ end > 0
  /\ analysed' = IF IsRecord THEN Append(analysed, rx_buffer[begin].line) ELSE analysed
  /\ rx_buffer' = Drop
  /\ UNCHANGED <<g_tcp_server_task_handle, server, unsent, ctx, received, connections, starts>>

(* The loop ends on a short buffer, or on the beginning of a record. *)
ScanDone ==
  /\ server = "scan" /\ (Len(rx_buffer) <= Short \/ (end = 0 /\ begin > 0))
  /\ server' = "recv"
  /\ UNCHANGED <<g_tcp_server_task_handle, unsent, rx_buffer, ctx, analysed, received, connections, starts>>

(* With neither a record nor a newline, the loop changes nothing. *)
Spins == server = "scan" /\ Len(rx_buffer) > Short /\ end = 0 /\ begin = 0
Spin == Spins /\ UNCHANGED vars

Next ==
  \/ radar_evaluate_server \/ Setup \/ AcceptFails \/ Accept
  \/ Receive \/ Closed \/ Release \/ Scan \/ ScanDone \/ Spin

-----------------------------------------------------------------------------
TypeOK ==
  /\ server \in {"none", "setup", "accept", "recv", "scan", "closed", "ended"}
  /\ unsent \in Seq(Chars) /\ rx_buffer \in Seq(Chars) /\ Len(rx_buffer) < RX_BUFFER_SIZE
  /\ ctx \in BOOLEAN /\ (server = "recv" => ctx)

(* Line n has arrived whole, and is a record. *)
Size(n) == Cardinality({i \in DOMAIN received : received[i].line = n}) - 1
Whole(n) == \E first, last \in DOMAIN received :
  /\ received[first] = Char("CSI_DATA", n) /\ received[last] = Char("newline", n)
  /\ Size(n) > Short

(* However the stream is cut, the records handed on when the server waits  *)
(* for more are those that were sent and have arrived whole, each once and *)
(* in order; and the loop hangs on nothing but a long line that is none.   *)
EachRecordOnce ==
  /\ server = "recv" =>
       /\ \A k, l \in DOMAIN analysed : k < l => analysed[k] < analysed[l]
       /\ {analysed[k] : k \in DOMAIN analysed} = {n \in 1 .. MaxLines : Whole(n)}
  /\ Spins => \E n \in 1 .. MaxLines : \A i \in DOMAIN rx_buffer : rx_buffer[i] = Char("other", n)
=============================================================================
