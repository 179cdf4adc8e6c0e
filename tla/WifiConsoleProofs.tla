------------------------- MODULE WifiConsoleProofs -------------------------
(***************************************************************************)
(* Proofs about WifiConsole for any networks and any number of commands,   *)
(* faults and tries: what flags, network and driver say of each other when *)
(* console and event task are at rest.                                     *)
(***************************************************************************)
EXTENDS WifiConsole, TLAPS

USE WifiAssumption

(* The event posted last, the one in the handler's hands included. *)
Connecting == {"GOT_IP", "create", "clear_down", "set_up"}
Latest == IF events # <<>> THEN events[Len(events)]
          ELSE IF handler \in Connecting THEN "GOT_IP"
          ELSE IF handler = "idle" THEN "none" ELSE "DISCONNECTED"

(* What the flags say while the handlers are at work. *)
Handled ==
  /\ handler \in {"set_down", "status"} => ~connected
  /\ handler \in {"create", "clear_down", "set_up"} => g_wifi_connect_status
  /\ handler = "set_up" => ~disconnected
  /\ g_wifi_connect_status => senders > 0 \/ handler = "create"

(* The station has its address when the latest event says so; with none    *)
(* pending the flags do, but for the bit the console clears before Leave.  *)
Followed ==
  /\ Pending => (Latest = "GOT_IP" <=> wifi = "up")
  /\ ~Pending =>
       /\ g_wifi_connect_status <=> wifi = "up"
       /\ connected => wifi = "up"
       /\ wifi = "up" => ~disconnected /\ (connected \/ console = "leave")

(* Where the console is in wifi_config tells what it asked for and stored. *)
Commanded ==
  /\ console \notin {"idle", "scan", "channel", "disconnect"} => asked # None /\ ssid = asked
  /\ console = "disconnect" => asked = None
  /\ console = "join" => conf = asked
  /\ console \in {"idle", "scan", "channel", "wait_up"} /\ asked # None => conf = asked

(* Only the console writes s_reconnect. *)
Switched ==
  /\ console \in {"forget", "leave", "wait_down", "blocked"} => ~s_reconnect
  /\ console \in {"configure", "join", "wait_up"} => s_reconnect
  /\ console \in {"idle", "scan", "channel"} /\ asked # None => s_reconnect

(* A station left idle will be connected again by the handler. *)
Tried ==
  console \in {"idle", "scan", "channel", "wait_up"} /\ asked # None /\ wifi = "idle" =>
    \/ handler \in {"DISCONNECTED", "reconnect"}
    \/ \E i \in 1 .. Len(events) : events[i] = "DISCONNECTED"

(* An undisturbed wifi_config finds the station idle from Leave to Join,   *)
(* and its own disconnection handled by the time it goes on.               *)
Quiet ==
  ~disturbed =>
    /\ console \in {"wait_down", "blocked", "resume", "configure", "join"} => wifi = "idle"
    /\ console \in {"wait_down", "blocked"} =>
         /\ handler \in {"idle", "DISCONNECTED", "clear_up", "set_down", "status"}
         /\ events = <<>> \/ (handler = "idle" /\ events = <<"DISCONNECTED">>)
         /\ disconnected => events = <<>> /\ handler \in {"idle", "status"}
    /\ console \in {"resume", "configure", "join"} =>
         events = <<>> /\ handler \in {"idle", "status"}

(* From then on it is on the network asked for; with none it is down.      *)
OnNetwork ==
  ~disturbed =>
    /\ console \in {"idle", "scan", "channel", "wait_up"} /\ asked # None /\ wifi # "idle" => net = asked
    /\ asked = None =>
         /\ handler # "reconnect"
         /\ ~s_reconnect \/ (events = <<>> /\ handler = "idle" /\ console # "disconnect")
         /\ console = "disconnect" \/ wifi = "idle"

AbortsDisturbed == aborted => disturbed \/ console = "channel"

IInv == /\ TypeOK /\ Handled /\ Followed /\ Commanded /\ Switched
        /\ Tried /\ Quiet /\ OnNetwork /\ AbortsDisturbed

-----------------------------------------------------------------------------
Flags == {s_reconnect, connected, disconnected, g_wifi_connect_status, unnamed, disturbed, aborted}
Posts == {"GOT_IP", "DISCONNECTED"}

(* An event posted is the last of the queue, the others stay. *)
LEMMA Posting ==
  ASSUME NEW q \in Seq(Posts), NEW e \in Posts
  PROVE  /\ Append(q, e) \in Seq(Posts) /\ Append(q, e) # <<>>
         /\ Len(Append(q, e)) = Len(q) + 1 /\ Append(q, e)[Len(Append(q, e))] = e
         /\ Len(Append(q, e)) \in 1 .. Len(Append(q, e))
         /\ \A i \in 1 .. Len(q) : i \in 1 .. Len(Append(q, e)) /\ Append(q, e)[i] = q[i]
OBVIOUS

(* The event taken is the first, or the last when it leaves none. *)
LEMMA Taking ==
  ASSUME NEW q \in Seq(Posts), q # <<>>
  PROVE  /\ Head(q) \in Posts /\ Tail(q) \in Seq(Posts)
         /\ Tail(q) # <<>> => Tail(q)[Len(Tail(q))] = q[Len(q)]
         /\ Tail(q) = <<>> => Head(q) = q[Len(q)]
         /\ \A i \in 1 .. Len(q) : q[i] = Head(q) \/ \E j \in 1 .. Len(Tail(q)) : Tail(q)[j] = q[i]
<1>1. Len(q) \in Nat \ {0} /\ Len(Tail(q)) = Len(q) - 1 /\ Head(q) = q[1] /\ Tail(q) \in Seq(Posts)
  OBVIOUS
<1>2. \A i \in 1 .. Len(q) - 1 : Tail(q)[i] = q[i + 1]
  OBVIOUS
<1>3. ASSUME NEW i \in 1 .. Len(q)
      PROVE  q[i] = Head(q) \/ \E j \in 1 .. Len(Tail(q)) : Tail(q)[j] = q[i]
  <2>1. CASE i = 1
    BY <1>1, <2>1
  <2>2. CASE i # 1
    <3>1. i - 1 \in 1 .. Len(q) - 1 /\ (i - 1) + 1 = i
      BY <1>1, <2>2
    <3>2. Tail(q)[i - 1] = q[i]
      BY <1>2, <3>1
    <3> QED
      BY <1>1, <3>1, <3>2
  <2> QED
    BY <2>1, <2>2
<1>4. Tail(q) # <<>> => Tail(q)[Len(Tail(q))] = q[Len(q)]
  <2> SUFFICES ASSUME Tail(q) # <<>> PROVE Tail(q)[Len(Tail(q))] = q[Len(q)]
    OBVIOUS
  <2>1. Len(Tail(q)) \in 1 .. Len(q) - 1 /\ Len(Tail(q)) + 1 = Len(q)
    BY <1>1
  <2> QED
    BY <1>2, <2>1
<1>5. Tail(q) = <<>> => Head(q) = q[Len(q)]
  BY <1>1
<1> QED
  BY <1>1, <1>3, <1>4, <1>5

-----------------------------------------------------------------------------
(* Every step keeps the types. *)
LEMMA TypeStep ==
  ASSUME TypeOK, [Next]_vars
  PROVE  TypeOK'
<1> USE DEF driver, bits, tasks, command, past
<1>1. CASE Config
  <2>1. PICK n \in Nets : (Named(n) \/ Stored(n)) /\ ssid' = n /\ asked' = n
    BY <1>1 DEF Config
  <2>2. Flags' \subseteq BOOLEAN
    BY <1>1, <2>1, Zenon DEF Config, Named, Stored, TypeOK, Flags
  <2>3. cmds' \in 0 .. MaxCmds
    BY <1>1 DEF Config, TypeOK
  <2> QED
    BY <1>1, <2>1, <2>2, <2>3 DEF Config, TypeOK, Flags
<1>2. CASE ConfigDisconnect
  <2>1. Flags' \subseteq BOOLEAN
    BY <1>2, Zenon DEF ConfigDisconnect, ReconnectOff, TypeOK, Flags
  <2>2. cmds' \in 0 .. MaxCmds
    BY <1>2 DEF ConfigDisconnect, TypeOK
  <2> QED
    BY <1>2, <2>1, <2>2 DEF ConfigDisconnect, TypeOK, Flags
<1>3. CASE Scan
  BY <1>3 DEF Scan, Disconnect, Down, TypeOK
<1>4. CASE Look
  BY <1>4 DEF Look, TypeOK
<1>5. CASE Hold
  BY <1>5 DEF Hold, TypeOK
<1>6. CASE Forget
  BY <1>6 DEF Forget, TypeOK
<1>7. CASE Leave
  BY <1>7 DEF Leave, Disconnect, Down, TypeOK
<1>8. CASE WaitDown
  BY <1>8 DEF WaitDown, DownBit, TypeOK
<1>9. CASE Resume
  BY <1>9 DEF Resume, Resumed, TypeOK
<1>10. CASE Configure
  BY <1>10 DEF Configure, TypeOK
<1>11. CASE Join
  BY <1>11 DEF Join, Connect, TypeOK
<1>12. CASE WaitUp
  BY <1>12 DEF WaitUp, TypeOK
<1>13. CASE ConfigDisconnected
  BY <1>13 DEF ConfigDisconnected, Disconnect, Down, TypeOK
<1>14. CASE ScanTry
  BY <1>14 DEF ScanTry, Disconnect, Down, Retry, TypeOK
<1>29. CASE SetChannel
  BY <1>29 DEF SetChannel, TypeOK
<1>15. CASE Handle
  BY <1>15 DEF Handle, TypeOK
<1>16. CASE StartSender
  <2>1. Flags' \subseteq BOOLEAN
    BY <1>16, Zenon DEF StartSender, StatusFirst, TypeOK, Flags
  <2>2. senders' \in Nat /\ handler' \in {"create", "clear_down"}
    <3>1. senders \in Nat /\ senders + 1 \in Nat
      BY DEF TypeOK
    <3> QED
      BY <1>16, <3>1, Zenon DEF StartSender, StatusFirst
  <2> QED
    BY <1>16, <2>1, <2>2 DEF StartSender, TypeOK, Flags
<1>17. CASE ClearDown
  BY <1>17 DEF ClearDown, TypeOK
<1>18. CASE SetUp
  BY <1>18 DEF SetUp, TypeOK
<1>19. CASE ReadReconnect
  BY <1>19 DEF ReadReconnect, TypeOK
<1>20. CASE Reconnect
  BY <1>20 DEF Reconnect, Connect, TypeOK
<1>21. CASE ClearUp
  BY <1>21 DEF ClearUp, TypeOK
<1>22. CASE SetDown
  BY <1>22 DEF SetDown, Wake, TypeOK
<1>23. CASE ClearStatus
  BY <1>23 DEF ClearStatus, StatusCleared, TypeOK
<1>24. CASE SenderEnds
  BY <1>24 DEF SenderEnds, TypeOK
<1>25. CASE Associate
  BY <1>25 DEF Associate, TypeOK
<1>26. CASE GotIp
  BY <1>26 DEF GotIp, TypeOK
<1>27. CASE Fault
  BY <1>27 DEF Fault, Down, TypeOK
<1>28. CASE UNCHANGED vars
  BY <1>28, Zenon DEF vars, TypeOK
<1> QED
  BY <1>1, <1>2, <1>3, <1>4, <1>5, <1>6, <1>7, <1>8, <1>9, <1>10, <1>11, <1>12, <1>13,
       <1>14, <1>15, <1>16, <1>17, <1>18, <1>19, <1>20, <1>21, <1>22, <1>23, <1>24,
       <1>25, <1>26, <1>27, <1>28, <1>29, Zenon DEF Next, Console, Handler

(* The  flags follow the handlers' progress; the console only takes the bit away. *)
LEMMA HandledStep ==
  ASSUME TypeOK, Handled, [Next]_vars
  PROVE  Handled'
<1> USE DEF driver, bits, tasks, command, past
<1>1. CASE Handle
  <2>1. handler' \in Posts
    BY <1>1, Taking DEF Handle, TypeOK, Posts
  <2>2. handler' \notin {"set_down", "status", "create", "clear_down", "set_up"}
    BY <2>1 DEF Posts
  <2> QED
    BY <1>1, <2>2, Zenon DEF Handle, Handled
<1>2. CASE StartSender
  <2>1. senders + 1 > 0
    BY DEF TypeOK
  <2> QED
    BY <1>2, <2>1, Zenon DEF StartSender, StatusFirst, Handled
<1>3. CASE ClearDown
  BY <1>3, Zenon DEF ClearDown, Handled
<1>4. CASE SetUp
  BY <1>4, Zenon DEF SetUp, Handled
<1>5. CASE ReadReconnect
  BY <1>5, Zenon DEF ReadReconnect, Handled
<1>6. CASE Reconnect
  BY <1>6, Zenon DEF Reconnect, Connect, Handled
<1>7. CASE ClearUp
  BY <1>7, Zenon DEF ClearUp, Handled
<1>8. CASE SetDown
  BY <1>8, Zenon DEF SetDown, Wake, Handled
<1>9. CASE ClearStatus
  BY <1>9, Zenon DEF ClearStatus, StatusCleared, Handled
<1>10. CASE SenderEnds
  BY <1>10, Zenon DEF SenderEnds, Handled
<1>11. CASE Forget
  BY <1>11, Zenon DEF Forget, Handled
<1>12. ASSUME UNCHANGED <<handler, connected, disconnected, g_wifi_connect_status, senders>>
      PROVE  Handled'
  BY <1>12, Zenon DEF Handled
<1>13. CASE Config \/ ConfigDisconnect \/ Scan \/ Look \/ Hold \/ Leave \/ WaitDown \/
       Resume \/ Configure \/ Join \/ WaitUp \/ ConfigDisconnected \/ ScanTry \/
       SetChannel \/ Associate \/ GotIp \/ Fault \/ UNCHANGED vars
  <2>1. UNCHANGED <<handler, connected, disconnected, g_wifi_connect_status, senders>>
    BY <1>13, Zenon DEF Config, Named, Stored, ConfigDisconnect, ReconnectOff, Scan,
           Disconnect, Down, Look, Hold, Leave, WaitDown, DownBit, Resume, Resumed,
           Configure, Join, Connect, WaitUp, ConfigDisconnected, ScanTry, Retry,
           SetChannel, Associate, GotIp, Fault, vars
  <2> QED
    BY <1>12, <2>1
<1> QED
  BY <1>1, <1>2, <1>3, <1>4, <1>5, <1>6, <1>7, <1>8, <1>9, <1>10, <1>11, <1>13, Zenon
       DEF Next, Console, Handler

(* wifi_config stores the network it was called with before it joins. *)
LEMMA CommandedStep ==
  ASSUME TypeOK, Commanded, [Next]_vars
  PROVE  Commanded'
<1> USE DEF driver, bits, tasks, command, past
<1>1. CASE Config
  BY <1>1 DEF Config, Named, Stored, Commanded
<1>2. CASE ConfigDisconnect
  BY <1>2, Zenon DEF ConfigDisconnect, ReconnectOff, Commanded
<1>3. CASE Scan
  BY <1>3, Zenon DEF Scan, Disconnect, Down, Commanded
<1>4. CASE ScanTry \/ SetChannel
  BY <1>4, Zenon DEF ScanTry, SetChannel, Disconnect, Down, Retry, Commanded
<1>5. CASE ConfigDisconnected
  BY <1>5, Zenon DEF ConfigDisconnected, Disconnect, Down, Commanded
<1>6. CASE Look
  BY <1>6, Zenon DEF Look, Commanded
<1>7. CASE Hold
  BY <1>7, Zenon DEF Hold, Commanded
<1>8. CASE Forget
  BY <1>8, Zenon DEF Forget, Commanded
<1>9. CASE Leave
  BY <1>9, Zenon DEF Leave, Disconnect, Down, Commanded
<1>10. CASE WaitDown
  BY <1>10, Zenon DEF WaitDown, DownBit, Commanded
<1>11. CASE Resume
  BY <1>11, Zenon DEF Resume, Resumed, Commanded
<1>12. CASE Configure
  BY <1>12, Zenon DEF Configure, Commanded
<1>13. CASE Join
  BY <1>13, Zenon DEF Join, Connect, Commanded
<1>14. CASE WaitUp
  BY <1>14, Zenon DEF WaitUp, Commanded
<1>15. CASE SetDown
  BY <1>15, Zenon DEF SetDown, Wake, Commanded
<1>16. ASSUME UNCHANGED <<console, asked, ssid, conf>>
      PROVE  Commanded'
  BY <1>16, Zenon DEF Commanded
<1>17. CASE Handle \/ StartSender \/ ClearDown \/ SetUp \/ ReadReconnect \/ Reconnect \/
       ClearUp \/ ClearStatus \/ SenderEnds \/ Associate \/ GotIp \/ Fault \/
       UNCHANGED vars
  <2>1. UNCHANGED <<console, asked, ssid, conf>>
    BY <1>17, Zenon DEF Handle, StartSender, StatusFirst, ClearDown, SetUp,
           ReadReconnect, Reconnect, Connect, ClearUp, ClearStatus, StatusCleared,
           SenderEnds, Associate, GotIp, Fault, Down, vars
  <2> QED
    BY <1>16, <2>1
<1> QED
  BY <1>1, <1>2, <1>3, <1>4, <1>5, <1>6, <1>7, <1>8, <1>9, <1>10, <1>11, <1>12, <1>13,
       <1>14, <1>15, <1>17, Zenon DEF Next, Console, Handler

(* wifi_config switches the reconnection off while it leaves a network and *)
(* on before it joins one.                                                 *)
LEMMA SwitchedStep ==
  ASSUME TypeOK, Commanded, Switched, [Next]_vars
  PROVE  Switched'
<1> USE DEF driver, bits, tasks, command, past
<1>1. CASE Config
  BY <1>1 DEF Config, Named, Stored, Switched
<1>2. CASE ConfigDisconnect
  BY <1>2, Zenon DEF ConfigDisconnect, ReconnectOff, Switched
<1>3. CASE Scan
  BY <1>3, Zenon DEF Scan, Disconnect, Down, Switched
<1>4. CASE ScanTry \/ SetChannel
  BY <1>4, Zenon DEF ScanTry, SetChannel, Disconnect, Down, Retry, Switched
<1>5. CASE ConfigDisconnected
  BY <1>5, Zenon DEF ConfigDisconnected, Commanded, Switched
<1>6. CASE Look
  BY <1>6, Zenon DEF Look, Switched
<1>7. CASE Hold
  BY <1>7, Zenon DEF Hold, Switched
<1>8. CASE Forget
  BY <1>8, Zenon DEF Forget, Switched
<1>9. CASE Leave
  BY <1>9, Zenon DEF Leave, Disconnect, Down, Switched
<1>10. CASE WaitDown
  BY <1>10, Zenon DEF WaitDown, DownBit, Switched
<1>11. CASE Resume
  BY <1>11, Zenon DEF Resume, Resumed, Switched
<1>12. CASE Configure
  BY <1>12, Zenon DEF Configure, Switched
<1>13. CASE Join
  BY <1>13, Zenon DEF Join, Connect, Switched
<1>14. CASE WaitUp
  BY <1>14, Zenon DEF WaitUp, Switched
<1>15. CASE SetDown
  BY <1>15, Zenon DEF SetDown, Wake, Switched
<1>16. ASSUME UNCHANGED <<console, asked, s_reconnect>>
      PROVE  Switched'
  BY <1>16, Zenon DEF Switched
<1>17. CASE Handle \/ StartSender \/ ClearDown \/ SetUp \/ ReadReconnect \/ Reconnect \/
       ClearUp \/ ClearStatus \/ SenderEnds \/ Associate \/ GotIp \/ Fault \/
       UNCHANGED vars
  <2>1. UNCHANGED <<console, asked, s_reconnect>>
    BY <1>17, Zenon DEF Handle, StartSender, StatusFirst, ClearDown, SetUp,
           ReadReconnect, Reconnect, Connect, ClearUp, ClearStatus, StatusCleared,
           SenderEnds, Associate, GotIp, Fault, Down, vars
  <2> QED
    BY <1>16, <2>1
<1> QED
  BY <1>1, <1>2, <1>3, <1>4, <1>5, <1>6, <1>7, <1>8, <1>9, <1>10, <1>11, <1>12, <1>13,
       <1>14, <1>15, <1>17, Zenon DEF Next, Console, Handler

(* Who leaves the station idle posts an event that has it connected again. *)
LEMMA TriedStep ==
  ASSUME TypeOK, Commanded, Switched, Tried, [Next]_vars
  PROVE  Tried'
<1> USE DEF driver, bits, tasks, command, past
<1>1. CASE Config
  BY <1>1 DEF Config, Named, Stored, Tried
<1>2. CASE ConfigDisconnect
  BY <1>2 DEF ConfigDisconnect, ReconnectOff, Tried
<1>3. CASE Scan
  BY <1>3 DEF Scan, Disconnect, Down, Tried
<1>4. CASE ScanTry \/ SetChannel
  BY <1>4 DEF ScanTry, SetChannel, Disconnect, Down, Retry, Tried
<1>5. CASE ConfigDisconnected
  BY <1>5, Zenon DEF ConfigDisconnected, Commanded, Tried
<1>6. CASE Look
  BY <1>6 DEF Look, Tried
<1>7. CASE Hold
  BY <1>7 DEF Hold, Tried
<1>8. CASE Forget
  BY <1>8 DEF Forget, Tried
<1>9. CASE Leave
  BY <1>9 DEF Leave, Disconnect, Down, Tried
<1>10. CASE WaitDown
  BY <1>10 DEF WaitDown, DownBit, Tried
<1>11. CASE Resume
  BY <1>11 DEF Resume, Resumed, Tried
<1>12. CASE Configure
  BY <1>12 DEF Configure, Tried
<1>13. CASE Join
  BY <1>13 DEF Join, Connect, Tried
<1>14. CASE WaitUp
  BY <1>14 DEF WaitUp, Tried
<1>15. CASE Handle
  <2>1. \A i \in 1 .. Len(events) :
          events[i] = handler' \/ \E j \in 1 .. Len(events') : events'[j] = events[i]
    BY <1>15, Taking DEF Handle, TypeOK, Posts
  <2> QED
    BY <1>15, <2>1 DEF Handle, Tried
<1>16. CASE StartSender
  BY <1>16, Zenon DEF StartSender, StatusFirst, Tried
<1>17. CASE ClearDown
  BY <1>17, Zenon DEF ClearDown, Tried
<1>18. CASE SetUp
  BY <1>18, Zenon DEF SetUp, Tried
<1>19. CASE ReadReconnect
  BY <1>19, Zenon DEF ReadReconnect, Switched, Tried
<1>20. CASE Reconnect
  BY <1>20 DEF Reconnect, Connect, Tried
<1>21. CASE ClearUp
  BY <1>21 DEF ClearUp, Tried
<1>22. CASE SetDown
  BY <1>22 DEF SetDown, Wake, Tried
<1>23. CASE ClearStatus
  BY <1>23 DEF ClearStatus, StatusCleared, Tried
<1>24. CASE Associate
  BY <1>24 DEF Associate, Tried
<1>25. CASE GotIp
  BY <1>25 DEF GotIp, Tried
<1>26. CASE Fault
  BY <1>26 DEF Fault, Down, Tried
<1>27. ASSUME UNCHANGED <<console, asked, wifi, handler, events>>
      PROVE  Tried'
  BY <1>27, Zenon DEF Tried
<1>28. CASE SenderEnds \/ UNCHANGED vars
  <2>1. UNCHANGED <<console, asked, wifi, handler, events>>
    BY <1>28, Zenon DEF SenderEnds, vars
  <2> QED
    BY <1>27, <2>1
<1> QED
  BY <1>1, <1>2, <1>3, <1>4, <1>5, <1>6, <1>7, <1>8, <1>9, <1>10, <1>11, <1>12, <1>13,
       <1>14, <1>15, <1>16, <1>17, <1>18, <1>19, <1>20, <1>21, <1>22, <1>23, <1>24,
       <1>25, <1>26, <1>28, Zenon DEF Next, Console, Handler

(* The handlers bring the flags after the driver, event by event. *)
LEMMA FollowedStep ==
  ASSUME TypeOK, Handled, Followed, [Next]_vars
  PROVE  Followed'
<1> USE DEF driver, bits, tasks, command, past
<1>1. CASE Look
  BY <1>1 DEF Look, Followed, Pending, Latest, Connecting
<1>2. CASE Hold
  BY <1>2 DEF Hold, Followed, Pending, Latest, Connecting
<1>3. CASE Forget
  BY <1>3 DEF Forget, Followed, Pending, Latest, Connecting
<1>4. CASE Leave
  BY <1>4 DEF Leave, Disconnect, Down, Followed, Pending, Latest, Connecting
<1>5. CASE Scan
  BY <1>5 DEF Scan, Disconnect, Down, Followed, Pending, Latest, Connecting
<1>6. CASE ScanTry \/ SetChannel
  BY <1>6 DEF ScanTry, SetChannel, Disconnect, Down, Retry, Followed, Pending, Latest, Connecting
<1>7. CASE ConfigDisconnected
  BY <1>7 DEF ConfigDisconnected, Disconnect, Down, Followed, Pending, Latest,
       Connecting
<1>8. CASE Config
  BY <1>8 DEF Config, Named, Stored, Followed, Pending, Latest, Connecting
<1>9. CASE ConfigDisconnect
  BY <1>9 DEF ConfigDisconnect, ReconnectOff, Followed, Pending, Latest, Connecting
<1>10. CASE WaitDown
  BY <1>10 DEF WaitDown, DownBit, Followed, Pending, Latest, Connecting
<1>11. CASE Resume
  BY <1>11 DEF Resume, Resumed, Followed, Pending, Latest, Connecting
<1>12. CASE Configure
  BY <1>12 DEF Configure, Followed, Pending, Latest, Connecting
<1>13. CASE Join
  BY <1>13 DEF Join, Connect, Followed, Pending, Latest, Connecting
<1>14. CASE WaitUp
  BY <1>14 DEF WaitUp, Followed, Pending, Latest, Connecting
<1>15. CASE Handle
  <2>1. handler' \in Posts /\ Latest' = Latest
    BY <1>15, Taking DEF Handle, TypeOK, Posts, Latest, Connecting
  <2>2. Pending /\ Pending'
    BY <1>15, <2>1 DEF Handle, Pending, Posts
  <2> QED
    BY <1>15, <2>1, <2>2, Zenon DEF Handle, Followed
<1>16. CASE StartSender
  BY <1>16 DEF StartSender, StatusFirst, Followed, Pending, Latest, Connecting
<1>17. CASE ClearDown
  BY <1>17 DEF ClearDown, Followed, Pending, Latest, Connecting
<1>18. CASE SetUp
  <2>1. events # <<>> => Latest' = Latest
    BY <1>18 DEF SetUp, Latest
  <2>2. events = <<>> => Latest = "GOT_IP"
    BY <1>18 DEF SetUp, Latest, Connecting
  <2>3. Pending /\ (Pending' <=> events # <<>>)
    BY <1>18 DEF SetUp, Pending
  <2> QED
    BY <1>18, <2>1, <2>2, <2>3, Zenon DEF SetUp, Handled, Followed
<1>19. CASE ReadReconnect
  BY <1>19 DEF ReadReconnect, Followed, Pending, Latest, Connecting
<1>20. CASE Reconnect
  BY <1>20 DEF Reconnect, Connect, Followed, Pending, Latest, Connecting
<1>21. CASE ClearUp
  BY <1>21 DEF ClearUp, Followed, Pending, Latest, Connecting
<1>22. CASE SetDown
  BY <1>22 DEF SetDown, Wake, Followed, Pending, Latest, Connecting
<1>23. CASE ClearStatus
  <2>1. events # <<>> => Latest' = Latest
    BY <1>23 DEF ClearStatus, Latest
  <2>2. events = <<>> => Latest # "GOT_IP"
    BY <1>23 DEF ClearStatus, Latest, Connecting
  <2>3. Pending /\ (Pending' <=> events # <<>>)
    BY <1>23 DEF ClearStatus, Pending
  <2> QED
    BY <1>23, <2>1, <2>2, <2>3, Zenon DEF ClearStatus, StatusCleared, Handled, Followed
<1>24. CASE Associate
  BY <1>24 DEF Associate, Followed, Pending, Latest, Connecting
<1>25. CASE GotIp
  BY <1>25 DEF GotIp, Followed, Pending, Latest, Connecting
<1>26. CASE Fault
  BY <1>26 DEF Fault, Down, Followed, Pending, Latest, Connecting
<1>27. ASSUME UNCHANGED <<console, wifi, handler, events, connected, disconnected, g_wifi_connect_status>>
      PROVE  Followed'
  BY <1>27, Zenon DEF Followed, Pending, Latest, Connecting
<1>28. CASE SenderEnds \/ UNCHANGED vars
  <2>1. UNCHANGED <<console, wifi, handler, events, connected, disconnected, g_wifi_connect_status>>
    BY <1>28, Zenon DEF SenderEnds, vars
  <2> QED
    BY <1>27, <2>1
<1> QED
  BY <1>1, <1>2, <1>3, <1>4, <1>5, <1>6, <1>7, <1>8, <1>9, <1>10, <1>11, <1>12, <1>13,
       <1>14, <1>15, <1>16, <1>17, <1>18, <1>19, <1>20, <1>21, <1>22, <1>23, <1>24,
       <1>25, <1>26, <1>28, Zenon DEF Next, Console, Handler

(* With s_reconnect off the handlers leave the station alone, and the bit  *)
(* they set lets wifi_config go on.                                        *)
LEMMA QuietStep ==
  ASSUME TypeOK, Handled, Followed, Commanded, Switched, Quiet, [Next]_vars
  PROVE  Quiet'
<1> USE DEF driver, bits, tasks, command, past
<1>1. CASE Config
  BY <1>1 DEF Config, Named, Stored, Quiet
<1>2. CASE ConfigDisconnect
  BY <1>2 DEF ConfigDisconnect, ReconnectOff, Quiet
<1>3. CASE Scan
  BY <1>3 DEF Scan, Disconnect, Down, Quiet
<1>4. CASE ScanTry \/ SetChannel
  BY <1>4 DEF ScanTry, SetChannel, Disconnect, Down, Retry, Quiet
<1>5. CASE ConfigDisconnected
  BY <1>5 DEF ConfigDisconnected, Disconnect, Down, Quiet
<1>6. CASE Look
  <2>1. ~disturbed' /\ console' = "resume" => wifi = "idle" /\ events = <<>> /\ handler = "idle"
    <3>1. console = "look" /\ "look" # "leave" /\ (console' = "resume" => ~connected)
      BY <1>6, Zenon DEF Look
    <3>2. ~disturbed' => ~Pending /\ wifi \in {"idle", "up"}
      BY <1>6, Zenon DEF Look
    <3> QED
      BY <3>1, <3>2, Zenon DEF Followed, Pending
  <2>2. console' \in {"hold", "resume"} /\ UNCHANGED <<wifi, events, handler>>
    BY <1>6, Zenon DEF Look
  <2> QED
    BY <2>1, <2>2, Zenon DEF Quiet
<1>7. CASE Hold
  BY <1>7 DEF Hold, Quiet
<1>8. CASE Forget
  BY <1>8 DEF Forget, Quiet
<1>9. CASE Leave
  <2> SUFFICES ASSUME ~disturbed' PROVE Quiet'
    BY Zenon DEF Quiet
  <2>1. ~Pending /\ wifi = "up" /\ console = "leave" /\ console' = "wait_down"
    BY <1>9, Zenon DEF Leave
  <2>2. ~disconnected' /\ events = <<>> /\ handler' = "idle"
    BY <1>9, <2>1, Zenon DEF Leave, Followed, Pending
  <2>3. wifi' = "idle" /\ events' = <<"DISCONNECTED">>
    BY <1>9, <2>1, <2>2 DEF Leave, Disconnect, Down
  <2> QED
    BY <2>1, <2>2, <2>3, Zenon DEF Quiet
<1>10. CASE WaitDown
  BY <1>10 DEF WaitDown, DownBit, Quiet
<1>11. CASE Resume
  BY <1>11 DEF Resume, Resumed, Quiet
<1>12. CASE Configure
  BY <1>12 DEF Configure, Quiet
<1>13. CASE Join
  BY <1>13 DEF Join, Connect, Quiet
<1>14. CASE WaitUp
  BY <1>14 DEF WaitUp, Quiet
<1>15. CASE Handle
  <2>1. /\ handler = "idle" /\ events # <<>> /\ UNCHANGED <<disturbed, console, wifi, disconnected>>
        /\ handler' = Head(events) /\ events' = Tail(events)
    BY <1>15, Zenon DEF Handle
  <2>2. events = <<"DISCONNECTED">> => handler' = "DISCONNECTED" /\ events' = <<>>
    BY <2>1
  <2> QED
    BY <2>1, <2>2, Zenon DEF Quiet
<1>16. CASE StartSender
  BY <1>16 DEF StartSender, StatusFirst, Quiet
<1>17. CASE ClearDown
  BY <1>17 DEF ClearDown, Quiet
<1>18. CASE SetUp
  BY <1>18 DEF SetUp, Quiet
<1>19. CASE ReadReconnect
  <2>1. /\ handler = "DISCONNECTED" /\ (~s_reconnect => handler' = "clear_up")
        /\ UNCHANGED <<disturbed, console, wifi, disconnected, events>>
    BY <1>19, Zenon DEF ReadReconnect
  <2> QED
    BY <2>1, Zenon DEF Quiet, Switched
<1>20. CASE Reconnect
  BY <1>20 DEF Reconnect, Connect, Quiet
<1>21. CASE ClearUp
  BY <1>21 DEF ClearUp, Quiet
<1>22. CASE SetDown
  BY <1>22 DEF SetDown, Wake, Quiet
<1>23. CASE ClearStatus
  BY <1>23 DEF ClearStatus, StatusCleared, Quiet
<1>24. CASE Associate
  BY <1>24 DEF Associate, Quiet
<1>25. CASE GotIp
  BY <1>25 DEF GotIp, Quiet
<1>26. CASE Fault
  BY <1>26 DEF Fault, Down, Quiet
<1>27. ASSUME UNCHANGED <<disturbed, console, wifi, handler, events, disconnected>>
      PROVE  Quiet'
  BY <1>27, Zenon DEF Quiet
<1>28. CASE SenderEnds \/ UNCHANGED vars
  <2>1. UNCHANGED <<disturbed, console, wifi, handler, events, disconnected>>
    BY <1>28, Zenon DEF SenderEnds, vars
  <2> QED
    BY <1>27, <2>1
<1> QED
  BY <1>1, <1>2, <1>3, <1>4, <1>5, <1>6, <1>7, <1>8, <1>9, <1>10, <1>11, <1>12, <1>13,
       <1>14, <1>15, <1>16, <1>17, <1>18, <1>19, <1>20, <1>21, <1>22, <1>23, <1>24,
       <1>25, <1>26, <1>28, Zenon DEF Next, Console, Handler

(* Whatever connects the station uses the network stored last, and after   *)
(* --disconnect nothing connects it.                                       *)
LEMMA OnNetworkStep ==
  ASSUME TypeOK, Commanded, Switched, Quiet, OnNetwork, [Next]_vars
  PROVE  OnNetwork'
<1> USE DEF driver, bits, tasks, command, past
<1>1. CASE Config
  BY <1>1 DEF Config, Named, Stored, OnNetwork
<1>2. CASE ConfigDisconnect
  BY <1>2 DEF ConfigDisconnect, ReconnectOff, OnNetwork
<1>3. CASE Scan
  BY <1>3 DEF Scan, Disconnect, Down, OnNetwork
<1>4. CASE ScanTry \/ SetChannel
  BY <1>4 DEF ScanTry, SetChannel, Disconnect, Down, Retry, OnNetwork
<1>5. CASE ConfigDisconnected
  BY <1>5 DEF ConfigDisconnected, Disconnect, Down, OnNetwork
<1>6. CASE Look
  <2>1. asked' # None /\ console' \in {"hold", "resume"}
    BY <1>6, Zenon DEF Look, Commanded
  <2> QED
    BY <2>1, Zenon DEF OnNetwork
<1>7. CASE Hold
  BY <1>7 DEF Hold, OnNetwork
<1>8. CASE Forget
  BY <1>8 DEF Forget, OnNetwork
<1>9. CASE Leave
  BY <1>9 DEF Leave, Disconnect, Down, OnNetwork
<1>10. CASE WaitDown
  BY <1>10 DEF WaitDown, DownBit, OnNetwork
<1>11. CASE Resume
  <2>1. asked' # None /\ console' = "configure"
    BY <1>11, Zenon DEF Resume, Commanded
  <2> QED
    BY <2>1, Zenon DEF OnNetwork
<1>12. CASE Configure
  BY <1>12 DEF Configure, OnNetwork
<1>13. CASE Join
  <2>1. asked' = asked /\ asked # None /\ conf = asked /\ disturbed' = disturbed
    BY <1>13, Zenon DEF Join, Commanded
  <2>2. ~disturbed => wifi = "idle"
    BY <1>13, Zenon DEF Join, Quiet
  <2>3. ~disturbed => net' = asked
    BY <1>13, <2>1, <2>2, Zenon DEF Join, Connect
  <2> QED
    BY <2>1, <2>3, Zenon DEF OnNetwork
<1>14. CASE WaitUp
  BY <1>14 DEF WaitUp, OnNetwork
<1>15. CASE Handle
  <2>1. handler' \in Posts
    BY <1>15, Taking DEF Handle, TypeOK, Posts
  <2>2. handler' # "reconnect"
    BY <2>1 DEF Posts
  <2> QED
    BY <1>15, <2>2, Zenon DEF Handle, OnNetwork
<1>16. CASE StartSender
  BY <1>16 DEF StartSender, StatusFirst, OnNetwork
<1>17. CASE ClearDown
  BY <1>17 DEF ClearDown, OnNetwork
<1>18. CASE SetUp
  BY <1>18 DEF SetUp, OnNetwork
<1>19. CASE ReadReconnect
  BY <1>19 DEF ReadReconnect, OnNetwork
<1>20. CASE Reconnect
  <2>1. UNCHANGED <<disturbed, console, asked, conf>> /\ handler = "reconnect"
    BY <1>20, Zenon DEF Reconnect
  <2>2. ~disturbed => asked # None
    BY <2>1, Zenon DEF OnNetwork
  <2>3. (net' = net /\ wifi # "idle") \/ net' = conf
    BY <1>20, Zenon DEF Reconnect, Connect
  <2> QED
    BY <2>1, <2>2, <2>3, Zenon DEF OnNetwork, Commanded
<1>21. CASE ClearUp
  BY <1>21 DEF ClearUp, OnNetwork
<1>22. CASE SetDown
  BY <1>22 DEF SetDown, Wake, OnNetwork
<1>23. CASE ClearStatus
  BY <1>23 DEF ClearStatus, StatusCleared, OnNetwork
<1>24. CASE Associate
  BY <1>24 DEF Associate, OnNetwork
<1>25. CASE GotIp
  BY <1>25 DEF GotIp, OnNetwork
<1>26. CASE Fault
  BY <1>26 DEF Fault, Down, OnNetwork
<1>27. ASSUME UNCHANGED <<disturbed, console, asked, wifi, net, handler, events, s_reconnect>>
      PROVE  OnNetwork'
  BY <1>27, Zenon DEF OnNetwork
<1>28. CASE SenderEnds \/ UNCHANGED vars
  <2>1. UNCHANGED <<disturbed, console, asked, wifi, net, handler, events, s_reconnect>>
    BY <1>28, Zenon DEF SenderEnds, vars
  <2> QED
    BY <1>27, <2>1
<1> QED
  BY <1>1, <1>2, <1>3, <1>4, <1>5, <1>6, <1>7, <1>8, <1>9, <1>10, <1>11, <1>12, <1>13,
       <1>14, <1>15, <1>16, <1>17, <1>18, <1>19, <1>20, <1>21, <1>22, <1>23, <1>24,
       <1>25, <1>26, <1>28, Zenon DEF Next, Console, Handler

(* wifi_config aborts only where the station was disturbed, and wifi_scan  *)
(* where it sets the channel.                                              *)
LEMMA AbortsStep ==
  ASSUME TypeOK, Quiet, AbortsDisturbed, [Next]_vars
  PROVE  AbortsDisturbed'
<1>1. CASE UNCHANGED vars
  BY <1>1, Zenon DEF AbortsDisturbed, vars, past, command
<1>2. CASE Configure
  <2>1. wifi = "connecting" => disturbed
    BY <1>2 DEF Configure, Quiet
  <2> QED
    BY <1>2, <2>1, Zenon DEF Configure, AbortsDisturbed
<1>3. CASE Next /\ SetChannel
  <2>1. ~aborted
    BY <1>3, Zenon DEF Next
  <2> QED
    BY <1>3, <2>1, Zenon DEF SetChannel, AbortsDisturbed
<1>4. ASSUME Next, ~Configure, ~SetChannel PROVE aborted' = aborted /\ ~aborted
  BY <1>4, Zenon DEF Next, Console, Handler, past, Config, ConfigDisconnect, Scan, Look, Hold,
     Forget, Leave, WaitDown, Resume, Join, WaitUp, ConfigDisconnected, ScanTry, Handle,
     StartSender, ClearDown, SetUp, ReadReconnect, Reconnect, ClearUp, SetDown, ClearStatus,
     SenderEnds, Associate, GotIp, Fault
<1> QED
  BY <1>1, <1>2, <1>3, <1>4, Zenon DEF AbortsDisturbed

-----------------------------------------------------------------------------
(* The invariant holds initially and is kept by every step. *)
LEMMA Invariance ==
  /\ Init => IInv
  /\ IInv /\ [Next]_vars => IInv'
<1>1. Init => IInv
  <2> SUFFICES ASSUME Init PROVE IInv
    OBVIOUS
  <2>1. TypeOK
    <3>1. Flags \subseteq BOOLEAN
      BY Zenon DEF Init, Flags
    <3>2. events \in Seq(Posts)
      BY DEF Init
    <3>3. tries \in 0 .. MaxTries - 1 /\ cmds \in 0 .. MaxCmds /\ faults \in 0 .. MaxFaults /\ senders \in Nat
      BY DEF Init
    <3>4. /\ {net, conf, ssid, asked} \subseteq Nets \cup {None}
          /\ wifi = "idle" /\ handler = "idle" /\ console = "idle"
      BY Zenon DEF Init
    <3> QED
      BY <3>1, <3>2, <3>3, <3>4, Zenon DEF TypeOK, Flags, Posts
  <2>2. Handled /\ Commanded /\ Switched /\ Tried /\ Quiet /\ OnNetwork /\ AbortsDisturbed
    BY Zenon DEF Init, Handled, Commanded, Switched, Tried, Quiet, OnNetwork, AbortsDisturbed
  <2>3. Followed
    BY DEF Init, Followed, Pending
  <2> QED
    BY <2>1, <2>2, <2>3 DEF IInv
<1>2. IInv /\ [Next]_vars => IInv'
  BY TypeStep, HandledStep, FollowedStep, CommandedStep, SwitchedStep, TriedStep, QuietStep,
     OnNetworkStep, AbortsStep DEF IInv
<1> QED
  BY <1>1, <1>2

(* The invariant holds in every state of every behaviour. *)
THEOREM StationInvariant == Spec => []IInv
BY Invariance, PTL DEF Spec

(* Types hold for any networks and any number of commands and faults. *)
THEOREM StationTypes == Spec => []TypeOK
<1>1. IInv => TypeOK
  BY DEF IInv
<1> QED
  BY <1>1, StationInvariant, PTL

(* At rest the event group and the status of app_main say whether the      *)
(* station has its address, and with the address there is a sender task.   *)
THEOREM FlagsAgreeAtRest == Spec => []FlagsAgree
<1>1. IInv => FlagsAgree
  <2> SUFFICES ASSUME IInv, AtRest PROVE /\ connected = (wifi = "up")
                                         /\ g_wifi_connect_status = (wifi = "up")
                                         /\ wifi = "up" => senders > 0
    BY DEF FlagsAgree
  <2>1. ~Pending /\ handler = "idle" /\ console = "idle"
    BY Zenon DEF AtRest, Pending
  <2>2. "idle" # "leave" /\ "idle" # "create"
    OBVIOUS
  <2>3. (connected <=> wifi = "up") /\ (g_wifi_connect_status <=> wifi = "up")
    BY <2>1, <2>2, Zenon DEF IInv, Followed
  <2>4. connected \in BOOLEAN /\ g_wifi_connect_status \in BOOLEAN
    BY Zenon DEF IInv, TypeOK
  <2>5. wifi = "up" => senders > 0
    BY <2>1, <2>2, <2>3, Zenon DEF IInv, Handled
  <2> QED
    BY <2>3, <2>4, <2>5, Zenon
<1> QED
  BY <1>1, StationInvariant, PTL

(* Undisturbed, the station is on the network asked for last, or down when *)
(* told so, and no command aborts but wifi_scan, as it sets the channel.   *)
THEOREM OnRightNetwork == Spec => []RightNetwork
<1>1. IInv => RightNetwork
  <2> SUFFICES ASSUME IInv PROVE RightNetwork
    OBVIOUS
  <2>1. aborted => disturbed \/ console = "channel"
    BY DEF IInv, AbortsDisturbed
  <2>2. ASSUME AtRest, ~disturbed, asked = None PROVE wifi = "idle"
    BY <2>2 DEF IInv, OnNetwork, AtRest
  <2>3. ASSUME AtRest, ~disturbed, asked # None, wifi = "up" PROVE net = asked
    BY <2>3 DEF IInv, OnNetwork, AtRest
  <2> QED
    BY <2>1, <2>2, <2>3, Zenon DEF RightNetwork
<1> QED
  BY <1>1, StationInvariant, PTL

(* Once a network was asked for, the station is never left idle at rest.   *)
THEOREM NeverLeftIdle == Spec => []KeepsTrying
<1>1. IInv => KeepsTrying
  <2> SUFFICES ASSUME IInv, AtRest, asked # None, wifi = "idle" PROVE FALSE
    BY DEF KeepsTrying
  <2>1. console = "idle" /\ handler = "idle" /\ events = <<>>
    BY DEF AtRest, Pending
  <2>2. 1 .. Len(events) = {}
    BY <2>1
  <2> QED
    BY <2>1, <2>2 DEF IInv, Tried
<1> QED
  BY <1>1, StationInvariant, PTL
=============================================================================
