------------------------- MODULE ComponentsProofs -------------------------
(***************************************************************************)
(* Proofs about the smaller components, each from an inductive invariant   *)
(* of its own: RadarConfig, HostTool, PingCmd, CsiGain, Fft (the others    *)
(* are in MoreComponentsProofs). What holds of all sums of gains is proved *)
(* by taking the least number for which it does not; what a recursion of   *)
(* known length computes, by steps from 0 to that length.                  *)
(***************************************************************************)
EXTENDS MCComponents, SequenceTheorems, WellFoundedInduction, TLAPS

-----------------------------------------------------------------------------
(* The radar's configuration. A task between its get and its set is busy.  *)
Busy(t) == tasks[t].at \in {"got", "filled"}

(* What a task keeps is its place, a copy of all fields, those it changed, *)
(* none before it did, and where it goes on.                               *)
IsTask(r) ==
  /\ DOMAIN r = {"at", "copy", "changed", "then"}
  /\ r.at \in {"idle", "made", "got", "filled", "serving", "done"}
  /\ r.then \in {"idle", "serving", "done"}
  /\ DOMAIN r.copy = Radar!Fields
  /\ r.changed \subseteq Radar!Fields
  /\ r.at = "got" => r.changed = {}
RadarTyped ==
  /\ DOMAIN config = Radar!Fields /\ DOMAIN wanted = Radar!Fields
  /\ g_send_data_interval \in Intervals
  /\ DOMAIN tasks = Radar!Tasks
  /\ \A t \in Radar!Tasks : IsTask(tasks[t])
  /\ DOMAIN overlapped = Radar!Tasks

(* The copy of a busy task agrees with the record, but where the task has  *)
(* changed it, others have set it since, or it was lost already.           *)
CopiesAgree ==
  \A t \in Radar!Tasks : Busy(t) =>
    \A f \in Radar!Fields \ (overlapped[t] \cup overwritten \cup tasks[t].changed) :
      tasks[t].copy[f] = config[f]

RadarInv == RadarTyped /\ CopiesAgree /\ Radar!UpdatesKept

(* The tasks by name. *)
LEMMA TasksAre ==
  /\ Radar!app_main \in Radar!Tasks /\ Radar!console \in Radar!Tasks
  /\ Radar!server \in Radar!Tasks
  /\ \A n \in Radar!Senders : Radar!sender(n) \in Radar!Tasks
BY DEF Radar!Tasks

(* The record has these fields. *)
LEMMA FieldsAre ==
  Radar!Fields = {"filter_mac", "filter_dmac", "wifi_radar_cb", "wifi_radar_cb_ctx",
                  "wifi_csi_filtered_cb", "csi_recv_interval", "shift", "channel_filter_en",
                  "dump_ack_en"}
BY DEF Radar!Fields, Radar!WIFI_RADAR_CONFIG_DEFAULT

(* The zeroed record has all fields. *)
LEMMA ZeroedIs == DOMAIN Radar!Zeroed = Radar!Fields
BY DEF Radar!Fields, Radar!WIFI_RADAR_CONFIG_DEFAULT, Radar!Zeroed

(* A task without a copy is one. *)
LEMMA NoCopyIs == IsTask(Radar!NoCopy) /\ Radar!NoCopy.at = "idle"
BY ZeroedIs DEF IsTask, Radar!NoCopy

(* At first nothing is lost and nobody is busy. *)
LEMMA RadarInit ==
  ASSUME Radar!Init PROVE RadarInv
<1>1. RadarTyped
  BY ZeroedIs, NoCopyIs, ComponentsAssumption DEF Radar!Init, RadarTyped, ComponentsAssumption
<1>2. CopiesAgree
  BY NoCopyIs DEF Radar!Init, CopiesAgree, Busy
<1>3. Radar!UpdatesKept
  BY DEF Radar!Init, Radar!UpdatesKept
<1> QED BY <1>1, <1>2, <1>3 DEF RadarInv

(* A task that has just got the record agrees with it. *)
LEMMA GetKeeps ==
  ASSUME RadarInv, NEW t \in Radar!Tasks, NEW from, NEW then \in {"idle", "serving", "done"},
         Radar!Get(t, from, then)
  PROVE  RadarInv'
<1> USE DEF RadarInv
<1>1. RadarTyped'
  BY DEF Radar!Get, RadarTyped, IsTask
<1>2. CopiesAgree'
  BY DEF Radar!Get, RadarTyped, CopiesAgree, Busy
<1>3. Radar!UpdatesKept'
  BY DEF Radar!Get, Radar!UpdatesKept
<1> QED BY <1>1, <1>2, <1>3

(* A task changes fields of the copy it got, or all of them. *)
LEMMA ChangeKeeps ==
  ASSUME RadarInv, NEW t \in Radar!Tasks, NEW from, NEW set,
         DOMAIN set \subseteq Radar!Fields,
         from = "got" \/ DOMAIN set = Radar!Fields,
         Radar!Change(t, from, set)
  PROVE  RadarInv'
<1> USE DEF RadarInv
<1> DEFINE new == [f \in Radar!Fields |-> IF f \in DOMAIN set THEN set[f] ELSE tasks[t].copy[f]]
<1>1. /\ tasks[t].at = from
      /\ DOMAIN tasks' = Radar!Tasks
      /\ tasks'[t].at = "filled" /\ tasks'[t].changed = DOMAIN set
      /\ tasks'[t].copy = new /\ tasks'[t].then = tasks[t].then
      /\ DOMAIN tasks'[t] = {"at", "copy", "changed", "then"}
      /\ \A u \in Radar!Tasks : u # t => tasks'[u] = tasks[u]
      /\ UNCHANGED <<config, g_send_data_interval, wanted, overlapped, overwritten>>
  BY DEF Radar!Change, RadarTyped, IsTask
<1>2. RadarTyped'
  BY <1>1 DEF RadarTyped, IsTask
<1>3. CopiesAgree'
  BY <1>1 DEF RadarTyped, IsTask, CopiesAgree, Busy
<1>4. Radar!UpdatesKept'
  BY <1>1 DEF Radar!UpdatesKept
<1> QED BY <1>2, <1>3, <1>4

(* A task sets its copy: what it changed is kept, what others set in the   *)
(* meantime is lost and said to be.                                        *)
LEMMA SetKeeps ==
  ASSUME RadarInv, NEW t \in Radar!Tasks, Radar!Set(t)
  PROVE  RadarInv'
<1> USE DEF RadarInv
<1> DEFINE mine == tasks[t]
<1>1. /\ mine.at = "filled" /\ config' = mine.copy
      /\ wanted' = [f \in Radar!Fields |-> IF f \in mine.changed THEN mine.copy[f] ELSE wanted[f]]
      /\ overwritten' = (overwritten \cup overlapped[t]) \ mine.changed
      /\ g_send_data_interval' = g_send_data_interval
  BY DEF Radar!Set
<1>2. /\ DOMAIN tasks' = Radar!Tasks
      /\ \A u \in Radar!Tasks : u # t => tasks'[u] = tasks[u]
  BY DEF Radar!Set, RadarTyped
<1>3. IsTask(tasks'[t]) /\ tasks'[t].at \notin {"got", "filled"}
  <2>1. CASE mine.then = "serving"
    BY <2>1 DEF Radar!Set, RadarTyped, IsTask
  <2>2. CASE mine.then # "serving"
    <3>1. tasks'[t] = [Radar!NoCopy EXCEPT !.at = mine.then]
      BY <2>2 DEF Radar!Set, RadarTyped
    <3> QED BY <2>2, <3>1, NoCopyIs DEF IsTask, RadarTyped
  <2> QED BY <2>1, <2>2
<1>4. /\ DOMAIN overlapped' = Radar!Tasks
      /\ \A u \in Radar!Tasks : u # t /\ Busy(u) => overlapped'[u] = overlapped[u] \cup mine.changed
  BY DEF Radar!Set, Busy
<1>5. RadarTyped'
  BY <1>1, <1>2, <1>3, <1>4 DEF RadarTyped, IsTask
<1>6. Busy(t)
  BY <1>1 DEF Busy
<1>7. \A f \in Radar!Fields \ (overwritten' \cup mine.changed) : config'[f] = config[f]
  BY <1>1, <1>6 DEF CopiesAgree
<1>8. CopiesAgree'
  BY <1>1, <1>2, <1>3, <1>4, <1>7 DEF CopiesAgree, Busy
<1>9. Radar!UpdatesKept'
  BY <1>1, <1>7 DEF Radar!UpdatesKept
<1> QED BY <1>5, <1>8, <1>9

(* Every step of a task, of a command and of the station keeps it. *)
LEMMA RadarNext ==
  ASSUME RadarInv, Radar!Next
  PROVE  RadarInv'
<1> USE TasksAre
<1>1. CASE Radar!Main
  <2>1. CASE Radar!Set(Radar!app_main)
    BY <2>1, SetKeeps
  <2> DEFINE set == [Radar!WIFI_RADAR_CONFIG_DEFAULT EXCEPT
               !.wifi_radar_cb = TRUE, !.filter_mac = "example",
               !.csi_recv_interval = g_send_data_interval, !.dump_ack_en = NullData]
  <2>2. CASE Radar!Change(Radar!app_main, "idle", set)
    <3>1. DOMAIN set = Radar!Fields
      BY DEF Radar!Fields
    <3> HIDE DEF set
    <3> QED BY <2>2, <3>1, ChangeKeeps
  <2> QED BY <1>1, <2>1, <2>2 DEF Radar!Main
<1>2. CASE Radar!RadarCommand
  <2>1. CASE Radar!Get(Radar!console, "idle", "idle")
    BY <2>1, GetKeeps
  <2>2. CASE Radar!Set(Radar!console)
    BY <2>2, SetKeeps
  <2>3. CASE Radar!Output
    <3>1. PICK on \in BOOLEAN : Radar!Change(Radar!console, "got", [wifi_csi_filtered_cb |-> on])
      BY <2>3 DEF Radar!Output
    <3>2. DOMAIN [wifi_csi_filtered_cb |-> on] \subseteq Radar!Fields
      BY FieldsAre
    <3> QED BY <3>1, <3>2, ChangeKeeps
  <2>4. CASE Radar!Shift
    <3>1. DOMAIN [shift |-> 15] \subseteq Radar!Fields
      BY FieldsAre
    <3> QED BY <2>4, <3>1, ChangeKeeps DEF Radar!Shift
  <2>5. CASE Radar!ChannelFilter
    <3>1. DOMAIN [channel_filter_en |-> 1] \subseteq Radar!Fields
      BY FieldsAre
    <3> QED BY <2>5, <3>1, ChangeKeeps DEF Radar!ChannelFilter
  <2> QED BY <1>2, <2>1, <2>2, <2>3, <2>4, <2>5 DEF Radar!RadarCommand
<1>3. CASE Radar!SendDataInterval
  BY <1>3 DEF Radar!SendDataInterval, RadarInv, RadarTyped, CopiesAgree, Busy, Radar!UpdatesKept
<1>4. CASE Radar!GotIp
  <2> USE <1>4 DEF Radar!GotIp, RadarInv
  <2>1. \A t \in Radar!Tasks : \/ tasks'[t] = tasks[t]
                              \/ tasks'[t] = [tasks[t] EXCEPT !.at = "made"]
    BY DEF RadarTyped
  <2>2. RadarTyped'
    BY <2>1 DEF RadarTyped, IsTask
  <2>3. CopiesAgree'
    BY <2>1 DEF CopiesAgree, Busy, RadarTyped, IsTask
  <2>4. Radar!UpdatesKept'
    BY DEF Radar!UpdatesKept
  <2> QED BY <2>2, <2>3, <2>4
<1>5. CASE Radar!tcp_server_task
  <2>1. CASE Radar!ClientComes
    BY <2>1, GetKeeps DEF Radar!ClientComes
  <2>2. CASE Radar!ClientGoes
    BY <2>2, GetKeeps DEF Radar!ClientGoes
  <2>3. CASE Radar!ServerSets
    <3>1. CASE Radar!Set(Radar!server)
      BY <3>1, SetKeeps
    <3> DEFINE set == [wifi_radar_cb_ctx |-> tasks[Radar!server].then = "serving"]
    <3>2. CASE Radar!Change(Radar!server, "got", set)
      <4>1. DOMAIN set \subseteq Radar!Fields
        BY FieldsAre
      <4> HIDE DEF set
      <4> QED BY <3>2, <4>1, ChangeKeeps
    <3> QED BY <2>3, <3>1, <3>2 DEF Radar!ServerSets
  <2> QED BY <1>5, <2>1, <2>2, <2>3 DEF Radar!tcp_server_task
<1>6. ASSUME NEW n \in Radar!Senders, Radar!trigger_router_send_data_task(n)
      PROVE  RadarInv'
  <2>1. CASE Radar!Get(Radar!sender(n), "made", "done")
    BY <2>1, GetKeeps
  <2>2. CASE Radar!Set(Radar!sender(n))
    BY <2>2, SetKeeps
  <2> DEFINE set == [csi_recv_interval |-> g_send_data_interval, filter_dmac |-> "station",
                        filter_mac |-> IF NullData THEN "zero" ELSE "access point"]
  <2>3. CASE Radar!Change(Radar!sender(n), "got", set)
    <3>1. DOMAIN set \subseteq Radar!Fields
      BY FieldsAre
    <3> HIDE DEF set
    <3> QED BY <2>3, <3>1, ChangeKeeps
  <2> QED BY <1>6, <2>1, <2>2, <2>3 DEF Radar!trigger_router_send_data_task
<1> QED BY <1>1, <1>2, <1>3, <1>4, <1>5, <1>6 DEF Radar!Next

(* A step of another component leaves it alone. *)
LEMMA RadarRests ==
  ASSUME RadarInv, UNCHANGED radar_vars PROVE RadarInv'
BY DEF RadarInv, RadarTyped, IsTask, CopiesAgree, Busy, Radar!UpdatesKept, radar_vars

(* Nor does a step of another component change what it has. *)
LEMMA RadarSteps ==
  ASSUME RadarInv, [Next]_vars PROVE RadarInv'
<1>1. CASE RadarStep
  BY <1>1, RadarNext DEF RadarStep
<1>2. CASE UNCHANGED radar_vars
  BY <1>2, RadarRests
<1> QED
  BY <1>1, <1>2 DEF Next, vars, StartStep, PingStep, EvalStep, PresenceStep, TransformStep,
                    GainStep, HostStep

(* What a task has copied always agrees with the record, or is known to be *)
(* overtaken.                                                              *)
LEMMA RadarInvariant == Spec => []RadarInv
<1>1. Init => RadarInv
  BY RadarInit DEF Init
<1>2. RadarInv /\ [Next]_vars => RadarInv'
  BY RadarSteps
<1> QED
  BY <1>1, <1>2, PTL DEF Spec

(* Whatever app_main, the console, the senders and the server interleave,  *)
(* every field of the radar's configuration has the value that was last    *)
(* set on purpose, but for those set between the get and the set of        *)
(* another task.                                                           *)
THEOREM UpdatesLast == Spec => []UpdatesKept
<1>1. RadarInv => UpdatesKept
  BY DEF RadarInv, UpdatesKept
<1> QED
  BY <1>1, RadarInvariant, PTL
-----------------------------------------------------------------------------
(* The host tool. What is written to the device, and what it is at.        *)
Commands == [name : {"none", "collect", "stop", "exit"}, number : Nat]
Samples  == [collection : Nat, number : Nat]
HostTyped ==
  /\ count \in Nat
  /\ timer \in {"none", "delay", "duration"} /\ (timer = "none" <=> button = "start")
  /\ outgoing \in Commands /\ queue_write \in Seq(Commands)
  /\ device \in Samples

(* The file that rows without a change of number go to was opened for this *)
(* number, and every row since was of it.                                  *)
FileFollows == taget_seq_last # 0 => adjacent /\ file.number = taget_seq_last

(* A command to collect that the device has yet to take is the last one,   *)
(* has the number that is on the screen, and finds the device at rest.     *)
Awaited(c) ==
  c.name = "collect" => timer = "duration" /\ ~due /\ device.number = 0 /\ c.number = count
CollectLast ==
  /\ Awaited(outgoing)
  /\ \A i \in DOMAIN queue_write : Awaited(queue_write[i])
  /\ \A i \in DOMAIN queue_write :
       queue_write[i].name = "collect" => i = Len(queue_write) /\ outgoing = Host!None

(* Once it is taken the device counts with the screen, and otherwise rests.*)
UnderWay ==
  \/ outgoing.name = "collect"
  \/ \E i \in DOMAIN queue_write : queue_write[i].name = "collect"
Alike == device.collection > 0 /\ device.number = count + IF due THEN 1 ELSE 0
CountsAlike == IF timer = "duration" THEN UnderWay \/ Alike ELSE ~due /\ device.number = 0

(* A command that was lost with the port finds the device at rest, and for *)
(* good; commands other than a collection pass it by.                      *)
Dead == {"crashing", "crashed"}
Lost == serial \in Dead /\ device.number = 0
Heard == window = "open" /\ ~unheard /\ ~Lost
HostInv ==
  /\ HostTyped
  /\ FileFollows /\ Host!SamplesApart
  /\ Heard => CollectLast /\ CountsAlike

(* At first nothing is under way. *)
LEMMA HostInit ==
  ASSUME Host!Init PROVE HostInv
BY DEF Host!Init, Host!None, Host!Command, Host!Nobody, Host!Sample, Host!SamplesApart, HostInv,
       HostTyped, FileFollows, CollectLast, CountsAlike, Awaited, UnderWay, Alike, Heard, Lost, Dead,
       Commands, Samples

(* Of the queue: a command put is the last, one taken was the first. *)
LEMMA PutLast ==
  ASSUME NEW q \in Seq(Commands), NEW c \in Commands
  PROVE  /\ Append(q, c) \in Seq(Commands) /\ Len(Append(q, c)) = Len(q) + 1
         /\ DOMAIN Append(q, c) = 1 .. Len(q) + 1 /\ DOMAIN q = 1 .. Len(q)
         /\ \A i \in 1 .. Len(q) : Append(q, c)[i] = q[i]
         /\ Append(q, c)[Len(q) + 1] = c
OBVIOUS
(* and the first one taken. *)
LEMMA TakenFirst ==
  ASSUME NEW q \in Seq(Commands), q # <<>>
  PROVE  /\ Tail(q) \in Seq(Commands) /\ Len(Tail(q)) = Len(q) - 1
         /\ DOMAIN Tail(q) = 1 .. Len(q) - 1 /\ DOMAIN q = 1 .. Len(q) /\ Len(q) > 0
         /\ \A i \in 1 .. Len(q) - 1 : Tail(q)[i] = q[i + 1]
         /\ Head(q) = q[1] /\ Head(q) \in Commands
BY EmptySeq
(* The numbers that may be asked for. *)
LEMMA NumbersAre == CollectNumbers \subseteq Nat
BY ComponentsAssumption DEF ComponentsAssumption

HonestInv == HostTyped /\ (Heard => CollectLast /\ CountsAlike)

(* The window: a press of the button and a period of the timer. A period   *)
(* that ends with a command under way, or with one of the device's still   *)
(* to end, is no longer heard.                                             *)
LEMMA StartKeeps ==
  ASSUME HonestInv, Host!StartPressed,
         UNCHANGED <<window, cleaning, signalled, queue_write, folder, cleans, serial>>
  PROVE  HonestInv'
<1> USE DEF HonestInv, Host!StartPressed, Host!Idle, Host!device_vars
<1>1. HostTyped'
  BY NumbersAre DEF HostTyped
<1>2. ASSUME Heard' PROVE CollectLast' /\ CountsAlike'
  <2>1. Heard /\ timer = "none" /\ timer' = "delay"
    BY <1>2 DEF Heard, Lost, HostTyped
  <2> QED BY <2>1 DEF CollectLast, CountsAlike, Awaited
<1> QED BY <1>1, <1>2

(* once the delay is over the command to collect is to be put, *)
LEMMA DelayKeeps ==
  ASSUME HonestInv, Host!DelayOver,
         UNCHANGED <<window, cleaning, signalled, queue_write, folder, cleans, serial>>
  PROVE  HonestInv'
<1> USE DEF HonestInv, Host!DelayOver, Host!Idle, Host!device_vars
<1>1. outgoing' \in Commands /\ outgoing'.name = "collect" /\ outgoing'.number = count
  BY DEF Host!Command, Commands, HostTyped
<1>2. HostTyped'
  BY <1>1 DEF HostTyped
<1>3. ASSUME Heard' PROVE CollectLast' /\ CountsAlike'
  <2>1. Heard /\ timer = "delay" /\ timer' = "duration" /\ UNCHANGED <<count, due, device>>
    BY <1>3 DEF Heard, Lost
  <2> QED BY <1>1, <2>1 DEF CollectLast, CountsAlike, Awaited, UnderWay
<1> QED BY <1>2, <1>3

(* every period counts one sample down, until the button is "start" again, *)
LEMMA PeriodKeeps ==
  ASSUME HonestInv, Host!NumberTick,
         UNCHANGED <<window, cleaning, signalled, queue_write, folder, cleans, serial>>
  PROVE  HonestInv'
<1> USE DEF HonestInv
<1>1. /\ window = "open" /\ outgoing = Host!None /\ timer = "duration"
      /\ \/ count # 0 /\ count' = count - 1 /\ UNCHANGED <<button, timer>>
         \/ count = 0 /\ count' = 0 /\ button' = "start" /\ timer' = "none"
      /\ UNCHANGED <<window, outgoing, device, queue_write>>
  BY Zenon DEF Host!NumberTick, Host!Idle, Host!LastPeriod
<1>2. /\ unheard' = (unheard \/ due \/ queue_write # <<>>)
      /\ due' = (device # Host!Nobody /\ count # 0)
  BY Zenon DEF Host!NumberTick, Host!LastPeriod
<1>3. HostTyped'
  <2>1. count' \in Nat
    BY <1>1 DEF HostTyped
  <2> QED BY <1>1, <2>1 DEF HostTyped
<1>4. ASSUME Heard' PROVE CollectLast' /\ CountsAlike'
  <2>1. ~unheard' /\ window = "open"
    BY <1>1, <1>4 DEF Heard, Lost
  <2>2. Heard /\ ~due /\ queue_write = <<>>
    <3>1. ~unheard /\ ~due /\ queue_write = <<>>
      BY <1>2, <2>1, Zenon
    <3>2. ~Lost
      BY <1>1, <1>4 DEF Heard, Lost
    <3> QED BY <2>1, <3>1, <3>2 DEF Heard
  <2>3. outgoing.name = "none" /\ DOMAIN queue_write = {}
    BY <1>1, <2>2 DEF Host!None, Host!Command
  <2>4. Alike /\ device \in Samples /\ count \in Nat
    BY <1>1, <2>2, <2>3 DEF CountsAlike, UnderWay, HostTyped
  <2>5. device.number = count /\ device.collection > 0 /\ device # Host!Nobody
    BY <2>2, <2>4 DEF Alike, Samples, Host!Nobody, Host!Sample
  <2>6. CollectLast'
    BY <1>1, <2>3 DEF CollectLast, Awaited
  <2>7. CASE count = 0
    <3>1. ~due' /\ timer' = "none"
      BY <1>1, <1>2, <2>7, Zenon
    <3>2. device'.number = 0 /\ timer' # "duration"
      BY <1>1, <2>5, <2>7, <3>1
    <3> QED BY <2>6, <3>1, <3>2, Zenon DEF CountsAlike
  <2>8. CASE count # 0
    <3>1. due' /\ timer' = "duration" /\ count' = count - 1
      BY <1>1, <1>2, <2>5, <2>8, Zenon
    <3>2. device'.number = count' + 1 /\ device'.collection > 0
      BY <1>1, <2>4, <2>5, <3>1
    <3>3. Alike'
      BY <3>1, <3>2, Zenon DEF Alike
    <3> QED BY <2>6, <3>1, <3>3, Zenon DEF CountsAlike
  <2> QED BY <2>6, <2>7, <2>8
<1> QED BY <1>3, <1>4

(* "stop" may come in between, *)
LEMMA StopKeeps ==
  ASSUME HonestInv, Host!StopPressed,
         UNCHANGED <<window, cleaning, signalled, queue_write, folder, cleans, serial>>
  PROVE  HonestInv'
<1> USE DEF HonestInv, Host!StopPressed, Host!Idle
<1>1. outgoing' \in Commands /\ outgoing'.name = "stop"
  BY DEF Host!Command, Commands
<1>2. HostTyped'
  BY <1>1 DEF HostTyped
<1>3. ASSUME Heard' PROVE CollectLast' /\ CountsAlike'
  <2>1. Heard /\ timer # "duration" /\ timer' = "none"
    BY <1>3 DEF Heard, Lost
  <2> QED BY <1>1, <2>1 DEF CollectLast, CountsAlike, Awaited
<1> QED BY <1>2, <1>3

(* A command is put into the queue, or the window cleans or closes. *)
LEMMA PutKeeps ==
  ASSUME HonestInv, Host!Put,
         UNCHANGED <<Host!screen, signalled, Host!device_vars, unheard, asked, serial>>
  PROVE  HonestInv'
<1> USE DEF HonestInv, Host!Put, Host!screen, Host!device_vars
<1>1. outgoing' \in Commands /\ outgoing'.name = "none"
  BY DEF Host!None, Host!Command, Commands
<1>2. HostTyped'
  BY <1>1, PutLast DEF HostTyped
<1>3. ASSUME Heard' PROVE CollectLast' /\ CountsAlike'
  <2>1. Heard
    BY <1>3 DEF Heard, Lost
  <2>2. CollectLast /\ CountsAlike /\ queue_write \in Seq(Commands) /\ outgoing \in Commands
    BY <2>1 DEF HostTyped
  <2>3. CollectLast'
    <3>1. /\ DOMAIN queue_write' = 1 .. Len(queue_write) + 1
          /\ DOMAIN queue_write = 1 .. Len(queue_write) /\ Len(queue_write) \in Nat
          /\ Len(queue_write') = Len(queue_write) + 1
          /\ \A i \in 1 .. Len(queue_write) : queue_write'[i] = queue_write[i]
          /\ queue_write'[Len(queue_write) + 1] = outgoing
      BY <2>2, PutLast
    <3>2. \A i \in DOMAIN queue_write' :
            \/ i \in DOMAIN queue_write /\ queue_write'[i] = queue_write[i]
            \/ i = Len(queue_write') /\ queue_write'[i] = outgoing
      BY <3>1
    <3>3. \A i \in DOMAIN queue_write : queue_write[i].name # "collect"
      BY <2>2 DEF CollectLast
    <3> QED BY <1>1, <2>2, <3>2, <3>3 DEF CollectLast, Awaited
  <2>4. CountsAlike'
    <3>1. UnderWay => UnderWay'
      <4>1. ASSUME outgoing.name = "collect" PROVE UnderWay'
        <5>1. Len(queue_write) + 1 \in DOMAIN queue_write'
              /\ queue_write'[Len(queue_write) + 1] = outgoing
          BY <2>2, PutLast
        <5> QED BY <4>1, <5>1 DEF UnderWay
      <4>2. ASSUME NEW i \in DOMAIN queue_write, queue_write[i].name = "collect" PROVE UnderWay'
        <5>1. i \in DOMAIN queue_write' /\ queue_write'[i] = queue_write[i]
          BY <2>2, PutLast
        <5> QED BY <4>2, <5>1 DEF UnderWay
      <4> QED BY <4>1, <4>2 DEF UnderWay
    <3> QED BY <2>2, <3>1 DEF CountsAlike, Alike
  <2> QED BY <2>3, <2>4
<1> QED BY <1>2, <1>3

(* and the rest of the window leaves the collection alone. *)
LEMMA WindowKeeps ==
  ASSUME HonestInv, Host!CleanPressed \/ Host!RemoveFolder \/ Host!Close \/ Host!Exit,
         UNCHANGED <<Host!screen, signalled, Host!device_vars, unheard, asked, serial>>
  PROVE  HonestInv'
<1> USE DEF HonestInv, Host!screen, Host!device_vars
<1>1. /\ outgoing' \in Commands
      /\ UNCHANGED <<queue_write, count, timer, button, device, due, unheard>>
      /\ window' = "open" => window = "open" /\ outgoing' = outgoing
  BY DEF Host!CleanPressed, Host!RemoveFolder, Host!Close, Host!Exit, Host!Command, Commands, HostTyped
<1>2. HostTyped'
  BY <1>1 DEF HostTyped
<1>3. ASSUME Heard' PROVE CollectLast' /\ CountsAlike'
  BY <1>1, <1>3 DEF Heard, Lost, CollectLast, CountsAlike, Awaited, UnderWay, Alike
<1> QED BY <1>2, <1>3

(* The serial process takes a command. *)
LEMMA TakeKeeps ==
  ASSUME HonestInv, Host!TakeCommand, UNCHANGED <<Host!gui_vars, signalled>>
  PROVE  HonestInv'
<1> USE DEF HonestInv, Host!gui_vars, Host!screen, Host!inputs
<1> DEFINE c == Head(queue_write)
<1>0. /\ queue_write # <<>> /\ queue_write' = Tail(queue_write) /\ serial = "loop"
      /\ \/ /\ device' = IF c.name = "collect" THEN Host!Sample(device.collection + 1, c.number) ELSE device
            /\ due' <=> (due /\ c.name # "collect")
         \/ serial' = "crashing" /\ device' = device /\ (due' <=> due)
      /\ UNCHANGED <<window, count, timer, button, outgoing, unheard>>
  <2>1. /\ queue_write # <<>> /\ queue_write' = Tail(queue_write) /\ serial = "loop"
        /\ UNCHANGED <<window, count, timer, button, outgoing, unheard>>
    BY DEF Host!TakeCommand
  <2>2. CASE c.name = "exit" /\ UNCHANGED <<device, due>>
    <3>1. c.name # "collect" /\ UNCHANGED <<device, due>>
      BY <2>2
    <3> HIDE DEF c
    <3> QED BY <2>1, <3>1
  <2>3. CASE /\ device' = IF c.name = "collect" THEN Host!Sample(device.collection + 1, c.number) ELSE device
             /\ due' = (due /\ c.name # "collect")
    <3> HIDE DEF c
    <3> QED BY <2>1, <2>3, Zenon
  <2>4. CASE serial' = "crashing" /\ UNCHANGED <<device, due>>
    BY <2>1, <2>4
  <2> QED BY <2>2, <2>3, <2>4, Zenon DEF Host!TakeCommand, Host!device_vars
<1>1. /\ queue_write # <<>> /\ queue_write' = Tail(queue_write)
      /\ UNCHANGED <<window, count, timer, button, outgoing, unheard>>
  BY <1>0
<1>2. /\ queue_write \in Seq(Commands) /\ c \in Commands /\ c = queue_write[1]
      /\ 1 \in DOMAIN queue_write
  BY <1>1, TakenFirst DEF HostTyped
<1>3. device' \in Samples
  BY <1>0, <1>2 DEF Host!Sample, HostTyped, Samples, Commands
<1>4. HostTyped'
  BY <1>1, <1>3, TakenFirst DEF HostTyped
<1>5. ASSUME Heard' PROVE CollectLast' /\ CountsAlike'
  <2>0. /\ c.name = "collect" => /\ device' = Host!Sample(device.collection + 1, c.number)
                                /\ ~due'
        /\ c.name # "collect" => device' = device /\ (due' <=> due)
    <3>1. CASE c.name = "collect" /\ device' = device /\ serial' = "crashing"
      <4>1. Awaited(queue_write[1]) \/ ~Heard
        BY <1>2, Zenon DEF CollectLast
      <4>2. Heard
        BY <1>0, <1>5 DEF Heard, Lost, Dead
      <4>3. Lost'
        BY <1>2, <3>1, <4>1, <4>2 DEF Lost, Dead, Awaited
      <4> QED BY <1>5, <4>3 DEF Heard
    <3> QED BY <1>0, <3>1
  <2>1. CollectLast /\ CountsAlike
    BY <1>0, <1>5 DEF Heard, Lost, Dead
  <2>2. CASE c.name = "collect"
    <3>1. /\ timer = "duration" /\ c.number = count /\ Len(queue_write) = 1
          /\ outgoing.name # "collect"
      <4>1. Awaited(c) /\ (c.name = "collect" => 1 = Len(queue_write) /\ outgoing = Host!None)
        <5>1. Awaited(queue_write[1])
          BY <1>2, <2>1, Zenon DEF CollectLast
        <5>2. queue_write[1].name = "collect" => 1 = Len(queue_write) /\ outgoing = Host!None
          BY <1>2, <2>1, Zenon DEF CollectLast
        <5> QED BY <1>2, <5>1, <5>2, Zenon
      <4>2. outgoing.name = "none"
        BY <2>2, <4>1 DEF Host!None, Host!Command
      <4> QED BY <2>2, <4>1, <4>2, Zenon DEF Awaited
    <3>2. DOMAIN queue_write' = {}
      BY <1>1, <1>2, <3>1, TakenFirst
    <3>3. device'.number = count /\ device'.collection > 0 /\ ~due'
      <4>1. device' = [collection |-> device.collection + 1, number |-> c.number]
        BY <2>0, <2>2 DEF Host!Sample
      <4>2. ~due'
        BY <2>0, <2>2, Zenon
      <4> QED BY <3>1, <4>1, <4>2 DEF HostTyped, Samples
    <3>4. CollectLast'
      BY <1>1, <3>1, <3>2 DEF CollectLast, Awaited
    <3>5. CountsAlike'
      BY <1>1, <3>1, <3>3 DEF CountsAlike, Alike, HostTyped
    <3> QED BY <3>4, <3>5
  <2>3. CASE c.name # "collect"
    <3>1. device' = device /\ (due' <=> due)
      BY <2>0, <2>3, Zenon
    <3>2. /\ \A i \in DOMAIN queue_write' : i + 1 \in DOMAIN queue_write /\ queue_write'[i] = queue_write[i + 1]
          /\ Len(queue_write') = Len(queue_write) - 1
          /\ \A i \in DOMAIN queue_write : i = 1 \/ (i - 1 \in DOMAIN queue_write' /\ queue_write'[i - 1] = queue_write[i])
          /\ DOMAIN queue_write \subseteq Int /\ DOMAIN queue_write' \subseteq Int
          /\ Len(queue_write) \in Nat
      BY <1>1, <1>2, TakenFirst
    <3>3. CollectLast'
      BY <1>1, <2>1, <3>1, <3>2 DEF CollectLast, Awaited
    <3>4. UnderWay => UnderWay'
      BY <1>1, <1>2, <2>3, <3>2 DEF UnderWay
    <3>5. CountsAlike'
      BY <1>1, <2>1, <3>1, <3>4 DEF CountsAlike, Alike
    <3> QED BY <3>3, <3>5
  <2> QED BY <2>2, <2>3
<1> QED BY <1>4, <1>5

(* The device ends a period: only one that the screen has ended before. *)
LEMMA DeviceKeeps ==
  ASSUME HonestInv, Host!DeviceTick PROVE HonestInv'
<1> USE DEF HonestInv, Host!gui_vars, Host!screen, Host!inputs, Host!queues
<1>1. /\ device.number # 0 /\ (due \/ timer # "duration") /\ ~due'
      /\ UNCHANGED <<window, count, timer, button, outgoing, queue_write, unheard>>
  BY DEF Host!DeviceTick, Host!Labelled
<1>2. /\ device' \in Samples /\ device'.number = device.number - 1
      /\ device'.collection = device.collection
  BY <1>1 DEF Host!DeviceTick, HostTyped, Samples
<1>3. HostTyped'
  BY <1>1, <1>2 DEF HostTyped
<1>4. ASSUME Heard' PROVE CollectLast' /\ CountsAlike'
  <2>1. CollectLast /\ CountsAlike
    BY <1>1, <1>4 DEF Heard, Lost
  <2>2. timer = "duration" /\ due
    BY <1>1, <2>1 DEF CountsAlike
  <2>3. ~UnderWay
    BY <2>1, <2>2 DEF CollectLast, UnderWay, Awaited
  <2>4. Alike /\ count \in Nat /\ device \in Samples
    BY <2>1, <2>2, <2>3 DEF CountsAlike, HostTyped
  <2>5. device'.number = count /\ device'.collection > 0
    BY <1>2, <2>2, <2>4 DEF Alike, Samples
  <2>6. CollectLast'
    BY <1>1, <2>3 DEF CollectLast, UnderWay, Awaited
  <2>7. CountsAlike'
    BY <1>1, <2>2, <2>4, <2>5 DEF CountsAlike, Alike
  <2> QED BY <2>6, <2>7
<1> QED BY <1>3, <1>4
(* Every step of the tool keeps what it and the device agree on. *)
LEMMA HonestRests ==
  ASSUME HonestInv,
         UNCHANGED <<window, count, timer, button, outgoing, queue_write, device, due, unheard>>,
         serial \in Dead => serial' \in Dead
  PROVE  HonestInv'
BY DEF HonestInv, HostTyped, Heard, Lost, CollectLast, CountsAlike, Awaited, UnderWay, Alike

(* So every step keeps what the screen and the device say of each other. *)
LEMMA HonestNext ==
  ASSUME HonestInv, Host!Next
  PROVE  HonestInv'
<1>1. CASE Host!Gui
  <2>1. CASE Host!CollectHandler
    BY <1>1, <2>1, StartKeeps, DelayKeeps, PeriodKeeps, StopKeeps
       DEF Host!Gui, Host!CollectHandler, Host!serial_vars
  <2>2. CASE Host!OtherHandler(Host!CleanPressed \/ Host!RemoveFolder \/ Host!Close
                               \/ Host!Exit \/ Host!Put)
    BY <1>1, <2>2, WindowKeeps, PutKeeps DEF Host!Gui, Host!OtherHandler, Host!serial_vars
  <2> QED BY <1>1, <2>1, <2>2 DEF Host!Gui
<1>2. CASE Host!DataHandleThread
  BY <1>2, HonestRests
     DEF Host!DataHandleThread, Host!gui_vars, Host!screen, Host!device_vars, Host!serial_vars
<1>3. CASE Host!serial_handle
  <2>1. CASE Host!TakeCommand
    BY <1>3, <2>1, TakeKeeps DEF Host!serial_handle
  <2>2. CASE \/ Host!ReadRow \/ Host!MakeFolder \/ Host!OpenFile \/ Host!ReadOther
             \/ Host!PutOther \/ Host!JoinFeeder
    <3>1. UNCHANGED <<queue_write, device, due>> /\ (serial \in Dead => serial' \in Dead)
      BY <2>2 DEF Host!ReadRow, Host!MakeFolder, Host!OpenFile, Host!ReadOther, Host!PutOther,
                  Host!JoinFeeder, Host!Reads, Host!device_vars, Dead
    <3>2. UNCHANGED <<window, count, timer, button, outgoing, unheard>>
      BY <1>3 DEF Host!serial_handle, Host!gui_vars, Host!screen
    <3> QED BY <3>1, <3>2, HonestRests
  <2> QED BY <1>3, <2>1, <2>2 DEF Host!serial_handle
<1>4. CASE Host!DeviceTick
  BY <1>4, DeviceKeeps
<1> QED BY <1>1, <1>2, <1>3, <1>4 DEF Host!Next

(* And every step keeps the rows of a file together: a row that goes to    *)
(* the file that is open has its number, without a row of another between. *)
LEMMA FileNext ==
  ASSUME FileFollows, Host!SamplesApart, Host!Next
  PROVE  FileFollows' /\ Host!SamplesApart'
<1> USE DEF FileFollows, Host!SamplesApart
<1>1. CASE UNCHANGED Host!file_vars
  BY <1>1 DEF Host!file_vars
<1>2. CASE Host!ReadRow
  <2>1. CASE ~Host!Labelled /\ taget_seq_last' = 0 /\ misfiled' = misfiled
    BY <2>1
  <2>2. CASE /\ Host!Labelled /\ device.number = taget_seq_last /\ file' = device
             /\ misfiled' = (misfiled \/ ~Host!Follows(device, file))
             /\ UNCHANGED <<taget_seq_last, adjacent>>
    <3>1. adjacent /\ file.number = device.number
      BY <2>2 DEF Host!Labelled
    <3>2. Host!Follows(device, file)
      BY <3>1, Zenon DEF Host!Follows
    <3>3. ~misfiled'
      BY <2>2, <3>2, Zenon
    <3>4. FileFollows'
      BY <2>2, <3>1
    <3> QED BY <3>3, <3>4
  <2> QED BY <1>1, <1>2, <2>1, <2>2, Zenon DEF Host!ReadRow, Host!SeqForgotten
<1>3. CASE Host!OpenFile
  BY <1>3 DEF Host!OpenFile, Host!file_vars
<1>4. CASE \/ Host!TakeCommand \/ Host!JoinFeeder \/ Host!MakeFolder \/ Host!ReadOther
         \/ Host!PutOther
  BY <1>1, <1>4, Zenon DEF Host!TakeCommand, Host!JoinFeeder, Host!MakeFolder, Host!ReadOther,
                           Host!PutOther
<1>5. CASE Host!Gui \/ Host!DataHandleThread \/ Host!DeviceTick
  BY <1>1, <1>5, Zenon DEF Host!Gui, Host!DataHandleThread, Host!DeviceTick, Host!serial_vars
<1> QED
  BY <1>2, <1>3, <1>4, <1>5, Zenon DEF Host!Next, Host!serial_handle

(* Steps of other components leave the tool alone. *)
LEMMA HostSteps ==
  ASSUME HostInv, [Next]_vars PROVE HostInv'
<1> USE DEF HostInv
<1>1. HonestInv /\ FileFollows /\ Host!SamplesApart
  BY DEF HonestInv
<1>2. CASE HostStep
  <2>1. HonestInv' /\ FileFollows' /\ Host!SamplesApart'
    BY <1>1, <1>2, HonestNext, FileNext, Zenon DEF HostStep
  <2> QED BY <2>1, Zenon DEF HonestInv
<1>3. CASE UNCHANGED host_vars
  <2>1. HonestInv'
    BY <1>1, <1>3, HonestRests, Zenon DEF host_vars
  <2>2. FileFollows' /\ Host!SamplesApart'
    BY <1>1, <1>3 DEF host_vars, FileFollows, Host!SamplesApart
  <2> QED BY <2>1, <2>2, Zenon DEF HonestInv
<1> QED
  BY <1>2, <1>3 DEF Next, vars, StartStep, PingStep, EvalStep, RadarStep, PresenceStep,
                    TransformStep, GainStep

(* What screen, queue, device and file say of each other, always holds. *)
LEMMA HostInvariant == Spec => []HostInv
<1>1. Init => HostInv
  BY HostInit DEF Init
<1>2. HostInv /\ [Next]_vars => HostInv'
  BY HostSteps
<1> QED
  BY <1>1, <1>2, PTL DEF Spec

(* Whatever is lost, stopped, started again or cleaned, the file that is   *)
(* open never gets a row of another sample than its own.                   *)
THEOREM FilesOfOneSample == Spec => []SamplesApart
<1>1. HostInv => SamplesApart
  BY DEF HostInv, SamplesApart
<1> QED
  BY <1>1, HostInvariant, PTL

(* While the button says "start" and no command is under way the device    *)
(* labels nothing, unless "stop" was pressed during a collection or a      *)
(* command took longer than a period.                                      *)
THEOREM ButtonTellsTruth == Spec => []ButtonHonest
<1>1. HostInv => ButtonHonest
  <2> SUFFICES ASSUME HostInv, Host!Idle, button = "start", queue_write = <<>>, ~unheard
               PROVE  ~Host!Labelled
    BY DEF ButtonHonest, Host!ButtonHonest
  <2>1. timer = "none" /\ window = "open"
    BY DEF HostInv, HostTyped, Host!Idle
  <2>2. Lost \/ Heard
    BY <2>1 DEF Heard
  <2>3. Lost \/ CountsAlike
    BY <2>2 DEF HostInv
  <2> QED BY <2>1, <2>3 DEF CountsAlike, Host!Labelled, Lost
<1> QED
  BY <1>1, HostInvariant, PTL
-----------------------------------------------------------------------------
(* Every set of naturals that has an element has a least one. *)
LEMMA Least ==
  ASSUME NEW T, T \subseteq Nat, T # {}
  PROVE  \E x \in T : \A y \in T : x <= y
<1> DEFINE R == {p \in Nat \X Nat : p[1] < p[2]}
<1>1. IsWellFoundedOn(R, Nat)
  BY NatLessThanWellFounded DEF OpToRel
<1> HIDE DEF R
<1>2. PICK x \in T : \A y \in T : ~ (<<y, x>> \in R)
  BY <1>1, WFMin
<1>3. \A y \in T : <<y, x>> \in R <=> y < x
  BY DEF R
<1>4. \A y \in T : ~ (y < x)
  BY <1>2, <1>3, Zenon
<1>5. \A y \in T : x <= y
  BY <1>4
<1> QED BY <1>5

(* The ping command. A session is a record of its flags and its task.      *)
IsSession(r) ==
  /\ DOMAIN r = {"init", "start", "notified", "counted", "task"}
  /\ r.task \in {"none", "waiting", "pinging", "end", "clear", "leaving", "gone"}
PingTyped ==
  /\ DOMAIN sessions = Ping!Sessions
  /\ \A s \in Ping!Sessions : IsSession(sessions[s])
  /\ g_ping_handle \in 0 .. MaxSessions /\ arg \in 0 .. MaxSessions
  /\ ping_console \in {"idle", "new", "read start", "start", "read stop", "stop",
                       "read delete", "delete"}

(* A command to ping has a session left to make. *)
SomeLeft == ping_console = "new" => Ping!Left # {}

(* One session lives at a time. The handle is its handle until its end     *)
(* callback clears it; then it leaves.                                     *)
OneLives == \A s, t \in Ping!Sessions : Ping!Lives(s) /\ Ping!Lives(t) => s = t
HandleLives ==
  IF g_ping_handle = 0 THEN \A s \in Ping!Sessions : Ping!Lives(s) => sessions[s].task = "leaving"
  ELSE sessions[g_ping_handle].task \in {"waiting", "pinging", "end", "clear"}

(* A session that waits is about to be started by the command that made    *)
(* it, or was.                                                             *)
Starting == ping_console \in {"read start", "start"}
Started ==
  /\ \A s \in Ping!Sessions : sessions[s].task = "waiting" => sessions[s].notified \/ Starting
  /\ Starting => /\ g_ping_handle # 0 /\ sessions[g_ping_handle].task = "waiting"
                 /\ sessions[g_ping_handle].init /\ ~sessions[g_ping_handle].notified
                 /\ ping_console = "start" => arg = g_ping_handle

(* An abort has the handle, unless the end callback has cleared it since.  *)
Reached == ping_console \in {"stop", "delete"} => arg = g_ping_handle \/ raced

PingInv ==
  /\ PingTyped /\ SomeLeft
  /\ ~astray => ~stray /\ OneLives /\ HandleLives /\ Started /\ Reached

(* The handles but NULL are those of the sessions. *)
LEMMA SessionsAre ==
  /\ 0 \in 0 .. MaxSessions
  /\ \A s : s \in Ping!Sessions <=> s \in 0 .. MaxSessions /\ s # 0
<1>1. MaxSessions \in Nat
  BY ComponentsAssumption DEF ComponentsAssumption
<1> QED BY <1>1 DEF Ping!Sessions

(* At first there is no session. *)
LEMMA PingInit ==
  ASSUME Ping!Init PROVE PingInv
<1> USE DEF Ping!Init
<1>1. MaxSessions \in Nat \ {0}
  BY ComponentsAssumption DEF ComponentsAssumption
<1>2. \A s \in Ping!Sessions : IsSession(sessions[s]) /\ sessions[s].task = "none"
  BY DEF IsSession, Ping!Unborn
<1>3. PingTyped
  BY <1>1, <1>2 DEF PingTyped
<1>4. OneLives /\ HandleLives /\ Started
  BY <1>2 DEF OneLives, HandleLives, Started, Starting, Ping!Lives
<1>5. SomeLeft /\ Reached
  BY DEF SomeLeft, Reached
<1>6. ~astray => ~stray
  BY Zenon
<1> QED BY <1>3, <1>4, <1>5, <1>6, Zenon DEF PingInv

(* The session that is made is one that was left. *)
LEMMA NewIsLeft ==
  ASSUME Ping!Left # {}
  PROVE  (CHOOSE s \in Ping!Left : \A t \in Ping!Left : s <= t) \in Ping!Left
<1>1. Ping!Left \subseteq Nat
  BY DEF Ping!Left, Ping!Sessions
<1>2. \E s \in Ping!Left : \A t \in Ping!Left : s <= t
  BY <1>1, Least
<1> QED BY <1>2, Zenon
(* The console task: a command begins, *)
LEMMA BeginsKeep ==
  ASSUME PingInv, Ping!Ping \/ Ping!Abort PROVE PingInv'
<1>1. /\ ping_console = "idle" /\ ping_console' \in {"new", "read stop"}
      /\ UNCHANGED <<g_ping_handle, sessions, arg>>
      /\ ping_console' = "new" => Ping!Left # {}
  BY DEF Ping!Ping, Ping!Abort
<1>2. astray' = astray /\ stray' = stray
  BY DEF Ping!Ping, Ping!Abort
<1>3. PingTyped'
  BY <1>1 DEF PingInv, PingTyped
<1>4. SomeLeft'
  BY <1>1 DEF SomeLeft, Ping!Left
<1>5. OneLives /\ HandleLives => OneLives' /\ HandleLives'
  BY <1>1 DEF OneLives, HandleLives, Ping!Lives
<1>6. Started => Started'
  BY <1>1 DEF Started, Starting
<1>7. Reached'
  BY <1>1 DEF Reached
<1> QED BY <1>2, <1>3, <1>4, <1>5, <1>6, <1>7, Zenon DEF PingInv

(* reads the handle, *)
LEMMA ReadsKeep ==
  ASSUME PingInv, Ping!ReadForStart \/ Ping!ReadForStop \/ Ping!ReadForDelete PROVE PingInv'
<1>1. /\ \/ ping_console = "read start" /\ ping_console' = "start"
         \/ ping_console = "read stop" /\ ping_console' = "stop"
         \/ ping_console = "read delete" /\ ping_console' = "delete"
      /\ arg' = g_ping_handle /\ UNCHANGED <<g_ping_handle, sessions>>
  BY DEF Ping!ReadForStart, Ping!ReadForStop, Ping!ReadForDelete, Ping!Read
<1>2. astray' = astray /\ stray' = stray
  BY DEF Ping!ReadForStart, Ping!ReadForStop, Ping!ReadForDelete, Ping!Read
<1>3. PingTyped'
  BY <1>1 DEF PingInv, PingTyped
<1>4. SomeLeft'
  BY <1>1 DEF SomeLeft
<1>5. OneLives /\ HandleLives => OneLives' /\ HandleLives'
  BY <1>1 DEF OneLives, HandleLives, Ping!Lives
<1>6. Started => Started'
  BY <1>1 DEF Started, Starting
<1>7. Reached'
  BY <1>1 DEF Reached
<1> QED BY <1>2, <1>3, <1>4, <1>5, <1>6, <1>7, Zenon DEF PingInv

(* makes a session, *)
LEMMA NewKeeps ==
  ASSUME PingInv, Ping!NewSession PROVE PingInv'
<1> DEFINE s == CHOOSE s \in Ping!Left : \A t \in Ping!Left : s <= t
<1>1. /\ ping_console = "new" /\ ping_console' = "read start" /\ arg' = arg
      /\ s \in Ping!Left
  BY NewIsLeft DEF Ping!NewSession, PingInv, SomeLeft
<1>2. (stray' <=> stray)
  BY Zenon DEF Ping!NewSession
<1>3. SomeLeft' /\ Reached'
  BY <1>1 DEF SomeLeft, Reached
<1>4. CASE astray' = TRUE /\ UNCHANGED <<g_ping_handle, sessions>>
  <2>1. PingTyped'
    BY <1>1, <1>4 DEF PingInv, PingTyped
  <2> QED BY <1>3, <1>4, <2>1, Zenon DEF PingInv
<1>5. CASE /\ \E counted \in BOOLEAN : sessions' = [sessions EXCEPT ![s] = Ping!Made(counted)]
           /\ g_ping_handle' = s
           /\ astray' = (astray \/ \E t \in Ping!Sessions : Ping!Lives(t))
  <2>1. s \in Ping!Sessions /\ s \in 0 .. MaxSessions /\ s # 0
    <3>1. s \in Ping!Sessions
      BY <1>1 DEF Ping!Left
    <3> HIDE DEF s
    <3> QED BY <3>1, SessionsAre
  <2> HIDE DEF s
  <2>2. PICK counted \in BOOLEAN : sessions' = [sessions EXCEPT ![s] = Ping!Made(counted)]
    BY <1>5
  <2>3. /\ IsSession(Ping!Made(counted)) /\ Ping!Made(counted).task = "waiting"
        /\ Ping!Made(counted).init /\ ~Ping!Made(counted).notified
    BY DEF Ping!Made, Ping!Unborn, IsSession
  <2>4. /\ DOMAIN sessions' = Ping!Sessions /\ sessions'[s] = Ping!Made(counted)
        /\ \A t \in Ping!Sessions : t # s => sessions'[t] = sessions[t]
    BY <2>1, <2>2 DEF PingInv, PingTyped
  <2>5. PingTyped'
    BY <1>1, <1>5, <2>1, <2>3, <2>4 DEF PingInv, PingTyped
  <2>6. ASSUME ~astray'
        PROVE  ~stray' /\ OneLives' /\ HandleLives' /\ Started'
    <3>1. ~astray /\ \A t \in Ping!Sessions : ~Ping!Lives(t)
      BY <1>5, <2>6, Zenon
    <3>2. ~stray /\ OneLives
      BY <3>1, Zenon DEF PingInv
    <3>3. \A t \in Ping!Sessions : t # s => sessions'[t].task \in {"none", "gone"}
      BY <2>4, <3>1 DEF Ping!Lives
    <3>4. OneLives'
      BY <2>1, <3>3 DEF OneLives, Ping!Lives
    <3>5. HandleLives'
      BY <1>5, <2>1, <2>3, <2>4 DEF HandleLives
    <3>6. Started'
      BY <1>1, <1>5, <2>1, <2>3, <2>4 DEF Started, Starting
    <3> QED BY <1>2, <3>2, <3>4, <3>5, <3>6
  <2> QED BY <1>3, <2>5, <2>6, Zenon DEF PingInv
<1> QED BY <1>4, <1>5, Zenon DEF Ping!NewSession

(* and calls the library with the handle that it has read: the session is  *)
(* there, or the end callback came first.                                  *)
LEMMA FlagsSet ==
  ASSUME PingTyped, NEW changed, DOMAIN changed \subseteq {"init", "start", "notified"},
         Ping!Flags(changed)
  PROVE  /\ DOMAIN sessions' = Ping!Sessions
         /\ \A s \in Ping!Sessions :
              /\ IsSession(sessions'[s])
              /\ sessions'[s].task = sessions[s].task
              /\ s # arg => sessions'[s] = sessions[s]
              /\ \A f \in {"init", "notified"} :
                   sessions'[s][f] = IF s = arg /\ f \in DOMAIN changed THEN changed[f]
                                     ELSE sessions[s][f]
<1>1. CASE arg = 0
  <2>1. sessions' = sessions /\ arg \notin Ping!Sessions
    BY <1>1, SessionsAre DEF Ping!Flags
  <2> QED BY <2>1 DEF PingTyped
<1>2. CASE arg # 0
  <2> DEFINE r == [f \in DOMAIN sessions[arg] |-> IF f \in DOMAIN changed THEN changed[f]
                                                ELSE sessions[arg][f]]
  <2>1. arg \in Ping!Sessions
    BY <1>2, SessionsAre DEF PingTyped
  <2>2. sessions' = [sessions EXCEPT ![arg] = r]
    BY <1>2 DEF Ping!Flags
  <2>3. /\ DOMAIN sessions' = Ping!Sessions /\ sessions'[arg] = r
        /\ \A s \in Ping!Sessions : s # arg => sessions'[s] = sessions[s]
    BY <2>1, <2>2 DEF PingTyped
  <2>4. DOMAIN sessions[arg] = {"init", "start", "notified", "counted", "task"}
    BY <2>1 DEF PingTyped, IsSession
  <2>5. "task" \notin DOMAIN changed
    OBVIOUS
  <2>6. r.task = sessions[arg].task
    BY <2>4, <2>5
  <2>7. IsSession(r)
    BY <2>1, <2>4, <2>6 DEF PingTyped, IsSession
  <2>8. \A f \in {"init", "notified"} :
          r[f] = IF f \in DOMAIN changed THEN changed[f] ELSE sessions[arg][f]
    BY <2>4
  <2> HIDE DEF r
  <2> QED BY <2>1, <2>3, <2>6, <2>7, <2>8 DEF PingTyped
<1> QED BY <1>1, <1>2
(* The invariant stays with the calls. *)
LEMMA CallsKeep ==
  ASSUME PingInv, Ping!Start \/ Ping!Stop \/ Ping!Delete PROVE PingInv'
<1>1. PICK changed :
        /\ \/ ping_console = "start" /\ changed = Ping!StartedFlags /\ ping_console' = "idle"
           \/ ping_console = "stop" /\ changed = Ping!StoppedFlags /\ ping_console' = "read delete"
           \/ ping_console = "delete" /\ changed = Ping!DeletedFlags /\ ping_console' = "idle"
        /\ Ping!Flags(changed)
        /\ UNCHANGED <<g_ping_handle, arg, astray, raced>>
  BY DEF Ping!Start, Ping!Stop, Ping!Delete, Ping!LibraryCall
<1>2. /\ DOMAIN changed \subseteq {"init", "start", "notified"}
      /\ ping_console = "start" => DOMAIN changed = {"start", "notified"} /\ changed.notified
      /\ ping_console # "start" => "notified" \notin DOMAIN changed
  <2>1. /\ DOMAIN Ping!StartedFlags = {"start", "notified"} /\ Ping!StartedFlags.notified = TRUE
        /\ DOMAIN Ping!StoppedFlags = {"start"} /\ DOMAIN Ping!DeletedFlags = {"init"}
    BY DEF Ping!StartedFlags, Ping!StoppedFlags, Ping!DeletedFlags
  <2> QED BY <1>1, <2>1
<1>3. PingTyped
  BY DEF PingInv
<1>4. /\ DOMAIN sessions' = Ping!Sessions
      /\ \A s \in Ping!Sessions :
           /\ IsSession(sessions'[s])
           /\ sessions'[s].task = sessions[s].task
           /\ s # arg => sessions'[s] = sessions[s]
           /\ \A f \in {"init", "notified"} :
                sessions'[s][f] = IF s = arg /\ f \in DOMAIN changed THEN changed[f]
                                  ELSE sessions[s][f]
  BY <1>1, <1>2, <1>3, FlagsSet
<1>5. PingTyped'
  BY <1>1, <1>3, <1>4 DEF PingTyped
<1>6. SomeLeft' /\ Reached'
  BY <1>1 DEF SomeLeft, Reached
<1>7. ASSUME ~astray' PROVE ~stray' /\ OneLives' /\ HandleLives' /\ Started'
  <2>1. ~astray
    BY <1>1, <1>7
  <2>2. ~stray /\ OneLives /\ HandleLives /\ Started /\ Reached
    BY <2>1, Zenon DEF PingInv
  <2>3. OneLives'
    BY <1>4, <2>2 DEF OneLives, Ping!Lives
  <2>4. \/ g_ping_handle = 0
        \/ g_ping_handle \in Ping!Sessions
           /\ sessions'[g_ping_handle].task = sessions[g_ping_handle].task
    BY <1>3, <1>4, SessionsAre DEF PingTyped
  <2>5. HandleLives'
    BY <1>1, <1>4, <2>2, <2>4 DEF HandleLives, Ping!Lives
  <2>6. \A s \in Ping!Sessions : sessions'[s].task = "waiting" => sessions'[s].notified
    <3>1. SUFFICES ASSUME NEW s \in Ping!Sessions, sessions[s].task = "waiting"
                   PROVE  sessions'[s].notified
      BY <1>4
    <3>2. CASE ping_console = "start"
      <4>1. s = g_ping_handle
        BY <2>2, <2>4, <3>1, <3>2 DEF Started, Starting, OneLives, Ping!Lives
      <4>2. s = arg
        BY <2>2, <3>2, <4>1 DEF Started, Starting
      <4> QED BY <1>2, <1>4, <3>2, <4>2
    <3>3. CASE ping_console # "start"
      <4>1. ~Starting
        BY <1>1, <3>3 DEF Starting
      <4>2. sessions[s].notified
        BY <2>2, <3>1, <4>1, Zenon DEF Started
      <4>3. sessions'[s].notified = sessions[s].notified
        BY <1>2, <1>4, <3>3
      <4> QED BY <4>2, <4>3, Zenon
    <3> QED BY <3>2, <3>3
  <2>7. Started'
    BY <1>1, <2>6 DEF Started, Starting
  <2>8. arg = 0 \/ sessions[arg].task # "gone" \/ raced
    <3>1. CASE ping_console = "start"
      BY <2>2, <3>1 DEF Started, Starting
    <3>2. CASE ping_console # "start"
      <4>1. arg = g_ping_handle \/ raced
        BY <1>1, <2>2, <3>2 DEF Reached
      <4>2. g_ping_handle # 0 => sessions[g_ping_handle].task # "gone"
        BY <2>2 DEF HandleLives
      <4>3. arg = g_ping_handle => arg = 0 \/ sessions[arg].task # "gone"
        BY <4>2
      <4> QED BY <4>1, <4>3, Zenon
    <3> QED BY <3>1, <3>2
  <2>9. ~stray'
    <3>1. arg = 0 => stray' = stray
      BY <1>1 DEF Ping!Flags
    <3>2. arg # 0 => stray' = (stray \/ (sessions[arg].task = "gone" /\ ~raced))
      BY <1>1, Zenon DEF Ping!Flags
    <3> QED BY <2>2, <2>8, <3>1, <3>2, Zenon
  <2> QED BY <2>3, <2>5, <2>7, <2>9
<1> QED BY <1>5, <1>6, <1>7, Zenon DEF PingInv

(* The task of a session goes from one place to the next, and its end      *)
(* callback clears the handle.                                             *)
LEMMA TaskKeeps ==
  ASSUME PingInv, NEW s \in Ping!Sessions, Ping!SessionTask(s) PROVE PingInv'
<1> DEFINE from == sessions[s].task
           to   == sessions'[s].task
<1> DEFINE Passes ==
         /\ DOMAIN sessions' = Ping!Sessions
         /\ \A t \in Ping!Sessions : t # s => sessions'[t] = sessions[t]
         /\ IsSession(sessions'[s])
         /\ \/ from = "waiting" /\ to = "pinging" /\ sessions[s].notified
            \/ from = "pinging" /\ to = "end"
            \/ from = "end" /\ to = "clear"
            \/ from = "clear" /\ to = "leaving"
            \/ from = "leaving" /\ to = "gone"
            \/ from = "waiting" /\ to = "gone" /\ ~sessions[s].notified /\ ~sessions[s].init
<1>1. Passes
  <2>1. DOMAIN sessions = Ping!Sessions /\ IsSession(sessions[s])
    BY DEF PingInv, PingTyped
  <2>2. CASE Ping!Begin(s)
    BY <2>1, <2>2 DEF Ping!Begin, Ping!Moves, IsSession
  <2>3. CASE Ping!EndOfBatch(s)
    BY <2>1, <2>3 DEF Ping!EndOfBatch, Ping!Moves, IsSession
  <2>4. CASE Ping!EndDeletes(s)
    BY <2>1, <2>4 DEF Ping!EndDeletes, IsSession
  <2>5. CASE Ping!EndClears(s)
    BY <2>1, <2>5 DEF Ping!EndClears, Ping!Moves, IsSession
  <2>6. CASE Ping!Free(s)
    BY <2>1, <2>6 DEF Ping!Free, IsSession
  <2> QED BY <2>2, <2>3, <2>4, <2>5, <2>6 DEF Ping!SessionTask
<1>2. /\ UNCHANGED <<ping_console, arg, astray, stray>>
      /\ g_ping_handle' = IF from = "clear" THEN 0 ELSE g_ping_handle
      /\ from # "clear" => raced' = raced
  BY DEF Ping!SessionTask, Ping!Begin, Ping!EndOfBatch, Ping!EndDeletes, Ping!EndClears,
         Ping!Free, Ping!Moves, Ping!HandleCleared
<1>3. from = "clear" => raced' = (ping_console # "idle")
  BY Zenon DEF Ping!SessionTask, Ping!Begin, Ping!EndOfBatch, Ping!EndDeletes, Ping!EndClears,
         Ping!Free, Ping!Moves
<1> HIDE DEF from, to
<1>4. PingTyped'
  <2>1. g_ping_handle' \in 0 .. MaxSessions
    BY <1>2, SessionsAre DEF PingInv, PingTyped
  <2> QED BY <1>1, <1>2, <2>1 DEF PingInv, PingTyped
<1>5. SomeLeft'
  BY <1>1, <1>2 DEF PingInv, SomeLeft, Ping!Left, from
<1>6. ASSUME ~astray' PROVE ~stray' /\ OneLives' /\ HandleLives' /\ Started' /\ Reached'
  <2>1. ~astray
    BY <1>2, <1>6
  <2>2. ~stray /\ OneLives /\ HandleLives /\ Started /\ Reached
    BY <2>1, Zenon DEF PingInv
  <2>3. ~stray'
    BY <1>2, <2>2
  <2>4. OneLives'
    BY <1>1, <2>2 DEF OneLives, Ping!Lives, from, to
  <2>5. /\ from \in {"waiting", "pinging", "end", "clear", "leaving"} /\ Ping!Lives(s)
        /\ from # "leaving" => g_ping_handle = s
        /\ from = "leaving" => g_ping_handle = 0
    <3>1. from \in {"waiting", "pinging", "end", "clear", "leaving"}
      BY <1>1
    <3>2. Ping!Lives(s)
      BY <3>1 DEF Ping!Lives, from
    <3>3. g_ping_handle # 0 => g_ping_handle \in Ping!Sessions /\ Ping!Lives(g_ping_handle)
      BY <2>2, SessionsAre DEF PingInv, PingTyped, HandleLives, Ping!Lives
    <3>4. g_ping_handle # 0 => g_ping_handle = s
      BY <2>2, <3>2, <3>3, Zenon DEF OneLives
    <3>5. from # "leaving" => g_ping_handle # 0
      BY <2>2, <3>2 DEF HandleLives, from
    <3>6. from = "leaving" => g_ping_handle = 0
      BY <2>2, <3>4, SessionsAre DEF HandleLives, from
    <3> QED BY <3>1, <3>2, <3>4, <3>5, <3>6
  <2>6. ~(from = "waiting" /\ ~sessions[s].notified /\ ~sessions[s].init)
    BY <2>2, <2>5 DEF Started, from
  <2>7. /\ s # 0
        /\ \A t \in Ping!Sessions : t # s => ~Ping!Lives(t) /\ sessions'[t] = sessions[t]
    BY <1>1, <2>2, <2>5, SessionsAre DEF OneLives
  <2>8. HandleLives'
    BY <1>1, <1>2, <2>5, <2>6, <2>7 DEF HandleLives, Ping!Lives, from, to
  <2>9. Starting => from \notin {"waiting", "pinging", "end", "clear", "leaving"}
    <3>1. Starting => g_ping_handle = s /\ from = "waiting" /\ ~sessions[s].notified
      BY <2>2, <2>5 DEF Started, from
    <3> QED BY <1>1, <2>6, <3>1
  <2>10. ~Starting /\ ~Starting'
    BY <1>2, <2>5, <2>9 DEF Starting
  <2>11. \A t \in Ping!Sessions : sessions'[t].task = "waiting" => t # s
    BY <1>1 DEF to
  <2>12. Started'
    BY <2>2, <2>7, <2>10, <2>11 DEF Started
  <2>13. Reached'
    <3>1. CASE from = "clear" /\ ping_console # "idle"
      <4>1. raced'
        BY <1>3, <3>1, Zenon
      <4> QED BY <4>1, Zenon DEF Reached
    <3>2. CASE from = "clear" /\ ping_console = "idle"
      BY <1>2, <3>2 DEF Reached
    <3>3. CASE from # "clear"
      BY <1>2, <2>2, <3>3 DEF Reached
    <3> QED BY <3>1, <3>2, <3>3
  <2> QED BY <2>3, <2>4, <2>8, <2>12, <2>13
<1> QED BY <1>4, <1>5, <1>6, Zenon DEF PingInv

(* Every step keeps the sessions and their handle. *)
LEMMA PingSteps ==
  ASSUME PingInv, [Next]_vars PROVE PingInv'
<1>1. CASE PingStep
  <2>1. Ping!Next
    BY <1>1 DEF PingStep
  <2> QED
    BY <2>1, BeginsKeep, NewKeeps, ReadsKeep, CallsKeep, TaskKeeps, Zenon DEF Ping!Next
<1>2. CASE UNCHANGED ping_vars
  <2>1. UNCHANGED <<g_ping_handle, sessions, ping_console, arg, aborts, astray, raced, stray>>
    BY <1>2 DEF ping_vars
  <2>2. PingTyped' /\ SomeLeft'
    BY <2>1 DEF PingInv, PingTyped, SomeLeft, Ping!Left
  <2>3. /\ OneLives /\ HandleLives => OneLives' /\ HandleLives'
        /\ Started /\ Reached => Started' /\ Reached'
    BY <2>1 DEF OneLives, HandleLives, Started, Starting, Reached, Ping!Lives
  <2>4. astray' = astray /\ stray' = stray
    BY <2>1
  <2> QED BY <2>2, <2>3, <2>4, Zenon DEF PingInv
<1> QED
  BY <1>1, <1>2 DEF Next, vars, StartStep, EvalStep, RadarStep, PresenceStep, TransformStep,
                    GainStep, HostStep

(* The sessions and their handle always agree. *)
LEMMA PingInvariant == Spec => []PingInv
<1>1. Init => PingInv
  BY PingInit DEF Init
<1>2. PingInv /\ [Next]_vars => PingInv'
  BY PingSteps
<1> QED
  BY <1>1, <1>2, PTL DEF Spec

(* Unless a session was made while another lived, or not made, the handle  *)
(* at rest is that of the live session, and only an abort that an end      *)
(* callback overtook writes a session that was freed.                      *)
THEOREM HandleReaches == Spec => []HandleSound
<1>1. PingInv => HandleSound
  <2> SUFFICES ASSUME PingInv, ~astray PROVE Ping!HandleSound
    BY DEF HandleSound, Ping!HandleSound
  <2>1. ~stray /\ OneLives /\ HandleLives /\ PingTyped
    BY Zenon DEF PingInv
  <2>2. ASSUME \A s \in Ping!Sessions : sessions[s].task \notin {"end", "clear", "leaving"}
        PROVE  IF g_ping_handle = 0 THEN \A s \in Ping!Sessions : ~Ping!Lives(s)
               ELSE Ping!Lives(g_ping_handle)
                    /\ \A s \in Ping!Sessions : Ping!Lives(s) => s = g_ping_handle
    <3>1. CASE g_ping_handle = 0
      BY <2>1, <2>2, <3>1 DEF HandleLives
    <3>2. CASE g_ping_handle # 0
      <4>1. g_ping_handle \in Ping!Sessions /\ Ping!Lives(g_ping_handle)
        BY <2>1, <3>2, SessionsAre DEF PingTyped, HandleLives, Ping!Lives
      <4> QED BY <2>1, <3>2, <4>1 DEF OneLives
    <3> QED BY <3>1, <3>2
  <2> QED BY <2>1, <2>2, Zenon DEF Ping!HandleSound
<1> QED
  BY <1>1, PingInvariant, PTL
-----------------------------------------------------------------------------
(* A set with 0 and with the successor of each has all numbers up to m. *)
LEMMA Induction ==
  ASSUME NEW m_ \in Nat, NEW T, 0 \in T, \A i \in 0 .. m_ - 1 : i \in T => i + 1 \in T
  PROVE  \A i \in 0 .. m_ : i \in T
<1> DEFINE Bad == {i \in 0 .. m_ : i \notin T}
<1>1. SUFFICES ASSUME Bad # {} PROVE FALSE
  OBVIOUS
<1>2. Bad \subseteq Nat
  OBVIOUS
<1> HIDE DEF Bad
<1>3. PICK x \in Bad : \A y \in Bad : x <= y
  BY <1>1, <1>2, Least
<1>4. x \in 0 .. m_ /\ x \notin T /\ x # 0
  BY <1>3 DEF Bad
<1>5. x - 1 \in 0 .. m_ - 1 /\ ~ (x <= x - 1)
  BY <1>4
<1>6. x - 1 \in T
  BY <1>3, <1>4, <1>5 DEF Bad
<1>7. (x - 1) + 1 \in T /\ (x - 1) + 1 = x
  BY <1>4, <1>5, <1>6
<1> QED BY <1>4, <1>7

(* The gains. f has the sums of the first values of g.                     *)
SumsOf(f, g) == f = [n \in 0 .. SAMPLES |-> IF n = 0 THEN 0 ELSE f[n - 1] + g[n]]
Total(g) == CHOOSE f : SumsOf(f, g)

(* At least one packet is sampled. *)
LEMMA SamplesAre == SAMPLES \in Nat /\ SAMPLES > 0
BY ComponentsAssumption DEF ComponentsAssumption

(* There are such sums, *)
LEMMA SumsExist == ASSUME NEW g PROVE \E f : SumsOf(f, g)
<1> DEFINE UpTo(f, k) == f = [n \in 0 .. k |-> IF n = 0 THEN 0 ELSE f[n - 1] + g[n]]
           T == {k \in 0 .. SAMPLES : \E f : UpTo(f, k)}
<1>1. 0 \in T
  <2> DEFINE f == [n \in 0 .. 0 |-> 0]
  <2>1. UpTo(f, 0)
    OBVIOUS
  <2> HIDE DEF f
  <2> QED BY <2>1, SamplesAre
<1>2. ASSUME NEW k \in 0 .. SAMPLES - 1, k \in T PROVE k + 1 \in T
  <2>1. PICK f : UpTo(f, k)
    BY <1>2
  <2> DEFINE h == [n \in 0 .. k + 1 |-> IF n = k + 1 THEN f[k] + g[k + 1] ELSE f[n]]
  <2>2. \A n \in 0 .. k : h[n] = f[n]
    BY SamplesAre
  <2>3. \A n \in 0 .. k + 1 : h[n] = IF n = 0 THEN 0 ELSE h[n - 1] + g[n]
    <3>1. ASSUME NEW n \in 0 .. k PROVE h[n] = IF n = 0 THEN 0 ELSE h[n - 1] + g[n]
      <4>1. f[n] = IF n = 0 THEN 0 ELSE f[n - 1] + g[n]
        BY <2>1
      <4>2. n # 0 => h[n - 1] = f[n - 1]
        BY <2>2
      <4> QED BY <2>2, <4>1, <4>2
    <3>2. h[k + 1] = h[k] + g[k + 1] /\ k + 1 # 0 /\ (k + 1) - 1 = k
      BY <2>2, SamplesAre
    <3> QED BY <3>1, <3>2, SamplesAre
  <2>4. UpTo(h, k + 1)
    BY <2>3
  <2>5. k + 1 \in 0 .. SAMPLES
    BY SamplesAre
  <2> HIDE DEF h
  <2> QED BY <2>4, <2>5
<1> HIDE DEF T
<1>3. SAMPLES \in T
  BY <1>1, <1>2, SamplesAre, Induction
<1> QED BY <1>3 DEF T, SumsOf

(* and Total is one of them, *)
LEMMA TotalIs == ASSUME NEW g PROVE SumsOf(Total(g), g)
BY SumsExist DEF Total

(* which begin with 0 and go on with the next value, *)
LEMMA SumsGo ==
  ASSUME NEW f, NEW g, SumsOf(f, g)
  PROVE  f[0] = 0 /\ \A n \in 0 .. SAMPLES - 1 : f[n + 1] = f[n] + g[n + 1]
BY SamplesAre DEF SumsOf

(* depend on no values but the first ones, *)
LEMMA SumsAgree ==
  ASSUME NEW f, NEW g, NEW h, NEW k, SumsOf(f, g), SumsOf(h, k),
         NEW n \in 0 .. SAMPLES, \A i \in 1 .. n : g[i] = k[i]
  PROVE  f[n] = h[n]
<1> DEFINE T == {i \in 0 .. n : f[i] = h[i]}
<1>1. 0 \in T
  BY SumsGo
<1>2. ASSUME NEW i \in 0 .. n - 1, i \in T PROVE i + 1 \in T
  <2>1. f[i + 1] = f[i] + g[i + 1] /\ h[i + 1] = h[i] + k[i + 1]
    BY SumsGo, SamplesAre
  <2> QED BY <1>2, <2>1
<1> HIDE DEF T
<1>3. n \in T
  BY <1>1, <1>2, SamplesAre, Induction
<1> QED BY <1>3 DEF T

(* stay within the bounds of the values, *)
LEMMA SumsBounded ==
  ASSUME NEW f, NEW g, SumsOf(f, g), NEW n \in 0 .. SAMPLES, NEW b \in Int, NEW c \in Int,
         \A i \in 1 .. n : g[i] \in b .. c
  PROVE  f[n] \in Int /\ n * b <= f[n] /\ f[n] <= n * c
<1> DEFINE T == {i \in 0 .. n : f[i] \in Int /\ i * b <= f[i] /\ f[i] <= i * c}
<1>1. 0 \in T
  BY SumsGo
<1>2. ASSUME NEW i \in 0 .. n - 1, i \in T PROVE i + 1 \in T
  <2>1. f[i + 1] = f[i] + g[i + 1] /\ g[i + 1] \in b .. c
    BY SumsGo, SamplesAre
  <2>2. (i + 1) * b = i * b + b /\ (i + 1) * c = i * c + c
    OBVIOUS
  <2>3. i * b \in Int /\ i * c \in Int
    OBVIOUS
  <2> QED BY <1>2, <2>1, <2>2, <2>3
<1> HIDE DEF T
<1>3. n \in Nat /\ n \in 0 .. n
  BY SamplesAre
<1>4. \A i \in 0 .. n : i \in T
  BY <1>1, <1>2, <1>3, Induction, Zenon
<1>5. n \in T
  BY <1>3, <1>4, Zenon
<1> QED BY <1>5 DEF T

(* and grow with them. *)
LEMMA SumsShift ==
  ASSUME NEW f, NEW g, NEW h, NEW k, SumsOf(f, g), SumsOf(h, k),
         NEW n \in 0 .. SAMPLES, NEW b \in Int,
         \A i \in 1 .. n : g[i] \in Int /\ k[i] = g[i] + b
  PROVE  f[n] \in Int /\ h[n] = f[n] + n * b
<1> DEFINE T == {i \in 0 .. n : f[i] \in Int /\ h[i] = f[i] + i * b}
<1>1. 0 \in T
  BY SumsGo
<1>2. ASSUME NEW i \in 0 .. n - 1, i \in T PROVE i + 1 \in T
  <2>1. /\ f[i + 1] = f[i] + g[i + 1] /\ h[i + 1] = h[i] + k[i + 1]
        /\ g[i + 1] \in Int /\ k[i + 1] = g[i + 1] + b
    BY SumsGo, SamplesAre
  <2>2. (i + 1) * b = i * b + b /\ i * b \in Int
    OBVIOUS
  <2> QED BY <1>2, <2>1, <2>2
<1> HIDE DEF T
<1>3. n \in Nat /\ n \in 0 .. n
  BY SamplesAre
<1>4. \A i \in 0 .. n : i \in T
  BY <1>1, <1>2, <1>3, Induction, Zenon
<1>5. n \in T
  BY <1>3, <1>4, Zenon
<1> QED BY <1>5 DEF T
(* What a packet's gains are, and how wide a byte and a sum. *)
Packet == [agc : AgcGains, fft : FftGains]

(* The assumptions on bytes and gains, and the gains that bytes stand for. *)
LEMMA WidthsAre ==
  /\ BYTE \in Nat /\ WORD \in Nat /\ BYTE % 2 = 0 /\ SAMPLES * (BYTE - 1) < WORD
  /\ AgcGains \subseteq 0 .. BYTE - 1
  /\ FftGains \subseteq -(BYTE \div 2) .. BYTE \div 2 - 1
<1>1. /\ BYTE \in Nat /\ WORD \in Nat /\ BYTE % 2 = 0 /\ SAMPLES * (BYTE - 1) < WORD
      /\ AgcGains \subseteq 0 .. BYTE - 1 /\ FftBytes \subseteq 0 .. BYTE - 1
  BY ComponentsAssumption DEF ComponentsAssumption
<1>2. FftGains \subseteq -(BYTE \div 2) .. BYTE \div 2 - 1
  BY <1>1 DEF FftGains
<1> QED BY <1>1, <1>2

(* A gain read as unsigned is a byte, which has the gain's sign back. *)
LEMMA HalfByte == BYTE = 2 * (BYTE \div 2) /\ BYTE \div 2 \in Nat
BY WidthsAre
(* It is less than a byte's values, and converts back. *)
LEMMA Bytewise ==
  ASSUME NEW x \in FftGains
  PROVE  /\ x \in Int /\ x >= -(BYTE \div 2) /\ x <= BYTE \div 2 - 1
         /\ Gain!Unsigned(x) = IF x >= 0 THEN x ELSE x + BYTE
         /\ Gain!Unsigned(x) \in 0 .. BYTE - 1
         /\ Gain!Signed(Gain!Unsigned(x)) = x
<1> DEFINE H == BYTE \div 2
<1>1. BYTE = 2 * H /\ H \in Nat
  BY HalfByte
<1>2. x \in Int /\ x >= -H /\ x <= H - 1
  BY WidthsAre, <1>1
<1> HIDE DEF H
<1>3. x >= 0 => x % BYTE = x
  BY <1>1, <1>2
<1>4. x < 0 => x % BYTE = x + BYTE
  BY <1>1, <1>2
<1>5. Gain!Unsigned(x) = IF x >= 0 THEN x ELSE x + BYTE
  BY <1>2, <1>3, <1>4 DEF Gain!Unsigned
<1>6. Gain!Unsigned(x) \in 0 .. BYTE - 1
  BY <1>1, <1>2, <1>5
<1>7. Gain!Signed(Gain!Unsigned(x)) = x
  BY <1>1, <1>2, <1>5 DEF Gain!Signed, H
<1> QED BY <1>2, <1>5, <1>6, <1>7 DEF H

(* A 16-bit sum of bytes does not overflow. *)
GoesOn(g, k, c) ==
  /\ \A i \in 1 .. c : k[i] = g[i]
  /\ \A i \in 1 .. c + 1 : k[i] \in 0 .. BYTE - 1
(* It grows by the next byte. *)
LEMMA SumGrows ==
  ASSUME NEW g, NEW k, NEW c \in 0 .. SAMPLES - 1, GoesOn(g, k, c)
  PROVE  Gain!Sum16(Total(g)[c], k[c + 1]) = Total(k)[c + 1]
<1> USE DEF GoesOn
<1>1. SumsOf(Total(g), g) /\ SumsOf(Total(k), k)
  BY TotalIs
<1>2. c \in 0 .. SAMPLES /\ c + 1 \in 0 .. SAMPLES /\ 0 \in Int /\ BYTE - 1 \in Int
  BY SamplesAre, WidthsAre
<1>3. Total(g)[c] = Total(k)[c]
  BY <1>1, <1>2, SumsAgree
<1>4. Total(k)[c + 1] = Total(k)[c] + k[c + 1]
  BY <1>1, SumsGo
<1>5. /\ Total(k)[c + 1] \in Int /\ (c + 1) * 0 <= Total(k)[c + 1]
      /\ Total(k)[c + 1] <= (c + 1) * (BYTE - 1)
  BY <1>1, <1>2, SumsBounded
<1>6. (c + 1) * (BYTE - 1) <= SAMPLES * (BYTE - 1)
  <2>1. k[1] \in 0 .. BYTE - 1
    BY SamplesAre
  <2>2. BYTE - 1 \in Nat
    BY <2>1, WidthsAre
  <2> DEFINE y == BYTE - 1
             x == c + 1
  <2>3. x \in Nat /\ SAMPLES - x \in Nat /\ y \in Nat /\ SAMPLES \in Nat
    BY <2>2, SamplesAre
  <2> HIDE DEF x, y
  <2>4. (SAMPLES - x) * y >= 0 /\ (SAMPLES - x) * y = SAMPLES * y - x * y
    BY <2>3
  <2>5. x * y <= SAMPLES * y
    BY <2>3, <2>4
  <2> QED BY <2>5 DEF x, y
<1>7. (c + 1) * 0 = 0
  BY SamplesAre
<1> DEFINE top == Total(k)[c + 1]
<1>8. top \in 0 .. WORD - 1 /\ WORD \in Nat
  BY <1>5, <1>6, <1>7, WidthsAre, SamplesAre
<1> HIDE DEF top
<1>9. top % WORD = top
  BY <1>8
<1> QED BY <1>3, <1>4, <1>9 DEF top, Gain!Sum16
(* The first gains, as the receivers add them up and as they are meant.    *)
Agc   == [i \in 1 .. SAMPLES |-> gains[i].agc]
Bytes == [i \in 1 .. SAMPLES |-> Gain!Unsigned(gains[i].fft)]
Ffts  == [i \in 1 .. SAMPLES |-> gains[i].fft]

GainTyped ==
  /\ s_count \in Nat /\ gains \in Seq(Packet) /\ Len(gains) = s_count

(* get-started: the sums are those of the packets accepted, up to SAMPLES  *)
(* of them, and the radio was forced to their averages after that.         *)
Counted == IF s_count < SAMPLES THEN s_count ELSE SAMPLES
Averages == [agc |-> Total(Agc)[SAMPLES] \div SAMPLES, fft |-> Total(Bytes)[SAMPLES] \div SAMPLES]
Summed ==
  /\ agc_gain_sum = Total(Agc)[Counted] /\ fft_gain_sum = Total(Bytes)[Counted]
  /\ forced = IF s_count > SAMPLES THEN <<Averages>> ELSE <<>>

(* esp-crab: the library has the same gains. *)
Recorded ==
  /\ recorded = Gain!First
  /\ baselines = IF s_count > SAMPLES THEN <<SAMPLES>> ELSE <<>>
  /\ s_count > 0 => compensated = gains[s_count]

GainInv ==
  /\ GainTyped
  /\ receiver = "get-started" => Summed
  /\ receiver = "esp-crab" => Recorded

(* At first there are no gains. *)
LEMMA GainInit ==
  ASSUME Gain!Init PROVE GainInv
<1> USE DEF Gain!Init
<1>1. GainTyped
  BY DEF GainTyped
<1>2. Summed
  <2>1. Total(Agc)[0] = 0 /\ Total(Bytes)[0] = 0
    BY TotalIs, SumsGo
  <2>2. Counted = 0
    BY SamplesAre DEF Counted
  <2> QED BY <2>1, <2>2, SamplesAre DEF Summed
<1>3. Recorded
  <2>1. Gain!First = <<>>
    BY SamplesAre DEF Gain!First
  <2> QED BY <2>1, SamplesAre DEF Recorded
<1> QED BY <1>1, <1>2, <1>3 DEF GainInv

(* A packet is accepted. *)
Accepts(g) == s_count' = s_count + 1 /\ gains' = Append(gains, g)
(* The recorded gains stay typed. *)
LEMMA GainTypes ==
  ASSUME GainTyped, NEW g \in Packet, Accepts(g)
  PROVE  /\ GainTyped' /\ s_count \in Nat /\ s_count' = s_count + 1
         /\ gains'[s_count + 1] = g
         /\ \A i \in 1 .. s_count : gains'[i] = gains[i]
         /\ \A i \in 1 .. s_count + 1 : gains'[i] \in Packet
BY DEF GainTyped, Accepts

(* get-started adds its gains to the sums, forces the averages, or leaves  *)
(* both.                                                                   *)
LEMMA ForceKeeps ==
  ASSUME GainTyped, Summed,
         NEW info \in [data : BOOLEAN, mac : {"sender", "other"}, agc : AgcGains, fft : FftGains],
         Gain!ForceGain(info), Accepts([agc |-> info.agc, fft |-> info.fft])
  PROVE  Summed'
<1> DEFINE g == [agc |-> info.agc, fft |-> info.fft]
<1>1. g \in Packet
  BY DEF Packet
<1>2. /\ s_count \in Nat /\ s_count' = s_count + 1 /\ gains'[s_count + 1] = g
      /\ \A i \in 1 .. s_count : gains'[i] = gains[i]
      /\ \A i \in 1 .. s_count + 1 : gains'[i] \in Packet
  <2> HIDE DEF g
  <2>1. Accepts(g)
    BY DEF g
  <2> QED BY <1>1, <2>1, GainTypes
<1> HIDE DEF g
<1>9. g.agc = info.agc /\ g.fft = info.fft
  BY DEF g
<1>3. CASE s_count < SAMPLES
  <2>1. /\ s_count \in 0 .. SAMPLES - 1 /\ s_count + 1 \in 1 .. SAMPLES
        /\ 1 .. s_count + 1 \subseteq 1 .. SAMPLES /\ 1 .. s_count \subseteq 1 .. SAMPLES
    BY <1>2, <1>3, SamplesAre
  <2>2. /\ \A i \in 1 .. SAMPLES : Agc[i] = gains[i].agc /\ Bytes[i] = Gain!Unsigned(gains[i].fft)
        /\ \A i \in 1 .. SAMPLES :
             Agc'[i] = gains'[i].agc /\ Bytes'[i] = Gain!Unsigned(gains'[i].fft)
    BY DEF Agc, Bytes
  <2>3. /\ \A i \in 1 .. s_count : Agc'[i] = Agc[i]
        /\ \A i \in 1 .. s_count : Bytes'[i] = Bytes[i]
        /\ Agc'[s_count + 1] = info.agc /\ Bytes'[s_count + 1] = Gain!Unsigned(info.fft)
    BY <1>2, <1>9, <2>1, <2>2
  <2>4. /\ \A i \in 1 .. s_count + 1 : Agc'[i] \in 0 .. BYTE - 1
        /\ \A i \in 1 .. s_count + 1 : Bytes'[i] \in 0 .. BYTE - 1
    <3>1. ASSUME NEW i \in 1 .. s_count + 1
          PROVE  Agc'[i] \in 0 .. BYTE - 1 /\ Bytes'[i] \in 0 .. BYTE - 1
      <4>1. gains'[i] \in Packet /\ i \in 1 .. SAMPLES
        BY <1>2, <2>1
      <4>2. gains'[i].agc \in AgcGains /\ gains'[i].fft \in FftGains
        BY <4>1 DEF Packet
      <4>3. Agc'[i] = gains'[i].agc /\ Bytes'[i] = Gain!Unsigned(gains'[i].fft)
        BY <2>2, <4>1
      <4>4. gains'[i].agc \in 0 .. BYTE - 1
        BY <4>2, WidthsAre
      <4>5. Gain!Unsigned(gains'[i].fft) \in 0 .. BYTE - 1
        BY <4>2, Bytewise
      <4> QED BY <4>3, <4>4, <4>5
    <3> QED BY <3>1
  <2>5. /\ Gain!Sum16(Total(Agc)[s_count], Agc'[s_count + 1]) = Total(Agc')[s_count + 1]
        /\ Gain!Sum16(Total(Bytes)[s_count], Bytes'[s_count + 1]) = Total(Bytes')[s_count + 1]
    <3>1. Gain!Sum16(Total(Agc)[s_count], Agc'[s_count + 1]) = Total(Agc')[s_count + 1]
      <4>1. GoesOn(Agc, Agc', s_count)
        BY <2>3, <2>4, Zenon DEF GoesOn
      <4> QED BY <2>1, <4>1, SumGrows, ZenonT(60)
    <3>2. Gain!Sum16(Total(Bytes)[s_count], Bytes'[s_count + 1]) = Total(Bytes')[s_count + 1]
      <4>1. GoesOn(Bytes, Bytes', s_count)
        BY <2>3, <2>4, Zenon DEF GoesOn
      <4> QED BY <2>1, <4>1, SumGrows, ZenonT(60)
    <3> QED BY <3>1, <3>2
  <2>6. Counted = s_count /\ Counted' = s_count + 1
    BY <1>2, <1>3, <2>1, SamplesAre DEF Counted
  <2>7. /\ agc_gain_sum' = Gain!Sum16(agc_gain_sum, info.agc)
        /\ fft_gain_sum' = Gain!Sum16(fft_gain_sum, Gain!Unsigned(info.fft))
        /\ forced' = forced
    BY <1>2, <1>3, SamplesAre DEF Gain!ForceGain
  <2>8. forced' = <<>> /\ ~(s_count' > SAMPLES)
    BY <1>2, <1>3, <2>7, SamplesAre DEF Summed
  <2> QED BY <2>3, <2>5, <2>6, <2>7, <2>8 DEF Summed
<1>4. CASE ~(s_count < SAMPLES)
  <2>1. Agc' = Agc /\ Bytes' = Bytes
    <3>1. \A i \in 1 .. SAMPLES : gains'[i] = gains[i]
      BY <1>2, <1>4, SamplesAre
    <3> QED BY <3>1 DEF Agc, Bytes
  <2>2. Counted = SAMPLES /\ Counted' = SAMPLES /\ Averages' = Averages /\ s_count' > SAMPLES
    BY <1>2, <1>4, <2>1, SamplesAre DEF Counted, Averages
  <2>3. agc_gain_sum' = agc_gain_sum /\ fft_gain_sum' = fft_gain_sum
    BY <1>4 DEF Gain!ForceGain, Gain!sums
  <2>4. forced' = <<Averages>>
    <3>1. CASE s_count = SAMPLES
      <4>1. forced = <<>> /\ agc_gain_sum = Total(Agc)[SAMPLES] /\ fft_gain_sum = Total(Bytes)[SAMPLES]
        BY <2>2, <3>1, SamplesAre DEF Summed
      <4>2. forced' = Append(forced, [agc |-> agc_gain_sum \div SAMPLES,
                                      fft |-> fft_gain_sum \div SAMPLES])
        BY <3>1 DEF Gain!ForceGain
      <4> QED BY <4>1, <4>2 DEF Averages
    <3>2. CASE s_count # SAMPLES
      <4>1. s_count > SAMPLES
        BY <1>2, <1>4, <3>2, SamplesAre
      <4> QED BY <3>2, <4>1 DEF Summed, Gain!ForceGain
    <3> QED BY <3>1, <3>2
  <2> QED BY <2>1, <2>2, <2>3, <2>4 DEF Summed
<1> QED BY <1>3, <1>4

(* esp-crab has the library record them, take a baseline, or neither. *)
LEMMA RecordKeeps ==
  ASSUME GainTyped, Recorded,
         NEW info \in [data : BOOLEAN, mac : {"sender", "other"}, agc : AgcGains, fft : FftGains],
         Gain!RecordGain(info), Accepts([agc |-> info.agc, fft |-> info.fft])
  PROVE  Recorded'
<1> DEFINE g == [agc |-> info.agc, fft |-> info.fft]
<1>1. g \in Packet
  BY DEF Packet
<1>2. /\ s_count \in Nat /\ s_count' = s_count + 1 /\ gains'[s_count + 1] = g
      /\ \A i \in 1 .. s_count : gains'[i] = gains[i]
      /\ \A i \in 1 .. s_count + 1 : gains'[i] \in Packet
  <2> HIDE DEF g
  <2>1. Accepts(g)
    BY DEF g
  <2> QED BY <1>1, <2>1, GainTypes
<1>3. compensated' = gains'[s_count']
  <2>1. Gain!Signed(Gain!Unsigned(info.fft)) = info.fft
    BY Bytewise
  <2> QED BY <1>2, <2>1 DEF Gain!RecordGain
<1>9. s_count' \in Nat /\ s_count' = s_count + 1
  BY <1>2
<1>4. CASE s_count < SAMPLES
  <2>1. recorded' = Append(Gain!First, g) /\ baselines' = <<>> /\ ~(s_count' > SAMPLES)
    BY <1>2, <1>4, SamplesAre DEF Gain!RecordGain, Recorded
  <2>2. Gain!First = [n \in 1 .. s_count |-> gains[n]]
    BY <1>4 DEF Gain!First
  <2>3. Gain!First' = [n \in 1 .. s_count + 1 |-> gains'[n]]
    <3>1. (IF s_count' < SAMPLES THEN s_count' ELSE SAMPLES) = s_count + 1
      BY <1>2, <1>4, <1>9, SamplesAre
    <3> QED BY <3>1 DEF Gain!First
  <2> DEFINE old == [n \in 1 .. s_count |-> gains[n]]
             new == [n \in 1 .. s_count + 1 |-> gains'[n]]
  <2>4. old \in Seq(Packet) /\ Len(old) = s_count
    BY DEF GainTyped
  <2>5. Append(old, g) = new
    <3>1. /\ DOMAIN Append(old, g) = 1 .. s_count + 1
          /\ Append(old, g)[s_count + 1] = g
          /\ \A i \in 1 .. s_count : Append(old, g)[i] = old[i]
      BY <1>1, <2>4, AppendProperties, <1>2
    <3>2. \A i \in 1 .. s_count + 1 : Append(old, g)[i] = new[i]
      <4>1. \A i \in 1 .. s_count : old[i] = gains[i] /\ new[i] = gains'[i]
        BY <1>2
      <4>2. new[s_count + 1] = gains'[s_count + 1]
        BY <1>2
      <4>3. \A i \in 1 .. s_count + 1 : i \in 1 .. s_count \/ i = s_count + 1
        BY <1>2
      <4> HIDE DEF g, old, new
      <4> QED BY <1>2, <3>1, <4>1, <4>2, <4>3
    <3>3. Append(old, g) \in Seq(Packet) /\ Len(Append(old, g)) = s_count + 1
      <4> HIDE DEF g, old
      <4> QED BY <1>1, <2>4, AppendProperties
    <3>4. new \in Seq(Packet) /\ Len(new) = s_count + 1
      BY <1>2
    <3> HIDE DEF g, old, new
    <3> QED BY <3>2, <3>3, <3>4, SeqEqual
  <2> QED BY <1>3, <2>1, <2>2, <2>3, <2>5 DEF Recorded
<1>5. CASE ~(s_count < SAMPLES)
  <2>1. recorded' = recorded
    BY <1>5 DEF Gain!RecordGain
  <2>2. Gain!First' = Gain!First
    <3>1. /\ (IF s_count' < SAMPLES THEN s_count' ELSE SAMPLES) = SAMPLES
          /\ (IF s_count < SAMPLES THEN s_count ELSE SAMPLES) = SAMPLES
      BY <1>2, <1>5, <1>9, SamplesAre
    <3>2. \A i \in 1 .. SAMPLES : gains'[i] = gains[i]
      BY <1>2, <1>5, SamplesAre
    <3> QED BY <3>1, <3>2 DEF Gain!First
  <2>3. Len(Gain!First) = SAMPLES
    BY <1>2, <1>5, SamplesAre DEF Gain!First
  <2>4. baselines' = <<SAMPLES>> /\ s_count' > SAMPLES
    <3>1. s_count = SAMPLES \/ s_count > SAMPLES
      BY <1>2, <1>5, SamplesAre
    <3>2. CASE s_count = SAMPLES
      <4>1. baselines = <<>> /\ recorded = Gain!First
        BY <3>2, SamplesAre DEF Recorded
      <4>2. baselines' = Append(baselines, Len(recorded))
        BY <3>2 DEF Gain!RecordGain
      <4> QED BY <1>9, <2>3, <3>2, <4>1, <4>2, SamplesAre
    <3>3. CASE s_count > SAMPLES
      <4>1. baselines' = baselines
        BY <3>3, SamplesAre DEF Gain!RecordGain
      <4> QED BY <1>2, <1>9, <3>3, <4>1, SamplesAre DEF Recorded
    <3> QED BY <3>1, <3>2, <3>3
  <2> QED BY <1>3, <2>1, <2>2, <2>4 DEF Recorded
<1> QED BY <1>4, <1>5
(* Without a packet, nothing changes. *)
LEMMA GainRests ==
  ASSUME GainInv,
         UNCHANGED <<receiver, s_count, agc_gain_sum, fft_gain_sum, forced, recorded, baselines,
                     compensated, gains>>
  PROVE  GainInv'
<1>1. Agc' = Agc /\ Bytes' = Bytes /\ Gain!First' = Gain!First
  BY DEF Agc, Bytes, Gain!First
<1>2. Counted' = Counted /\ Averages' = Averages
  BY <1>1 DEF Counted, Averages
<1>3. GainTyped'
  BY DEF GainInv, GainTyped
<1>4. (receiver = "get-started" => Summed')
  BY <1>1, <1>2 DEF GainInv, Summed
<1>5. (receiver = "esp-crab" => Recorded')
  BY <1>1 DEF GainInv, Recorded
<1> QED BY <1>3, <1>4, <1>5 DEF GainInv

(* Every packet, accepted or not, keeps sums and records. *)
LEMMA GainNext ==
  ASSUME GainInv, Gain!Next PROVE GainInv'
<1>1. PICK info \in [data : BOOLEAN, mac : {"sender", "other"}, agc : AgcGains, fft : FftGains] :
        IF Gain!Accepted(info)
        THEN /\ s_count < MaxPackets
             /\ \/ receiver = "get-started" /\ Gain!ForceGain(info)
                \/ receiver = "esp-crab" /\ Gain!RecordGain(info)
             /\ s_count' = s_count + 1
             /\ gains' = Append(gains, [agc |-> info.agc, fft |-> info.fft])
             /\ UNCHANGED receiver
        ELSE UNCHANGED Gain!gain_vars
  BY DEF Gain!Next, Gain!wifi_csi_rx_cb
<1>2. CASE Gain!Accepted(info)
  <2> DEFINE g == [agc |-> info.agc, fft |-> info.fft]
  <2>1. /\ \/ receiver = "get-started" /\ Gain!ForceGain(info)
           \/ receiver = "esp-crab" /\ Gain!RecordGain(info)
        /\ s_count' = s_count + 1 /\ gains' = Append(gains, g) /\ receiver' = receiver
    BY <1>1, <1>2
  <2>2. Accepts(g)
    BY <2>1 DEF Accepts
  <2>3. g \in Packet
    BY DEF Packet
  <2>4. GainTyped'
    BY <2>2, <2>3, GainTypes DEF GainInv
  <2>5. CASE receiver = "get-started" /\ Gain!ForceGain(info)
    <3>1. Summed'
      BY <2>2, <2>5, ForceKeeps DEF GainInv
    <3> QED BY <2>1, <2>4, <2>5, <3>1 DEF GainInv
  <2>6. CASE receiver = "esp-crab" /\ Gain!RecordGain(info)
    <3>1. Recorded'
      BY <2>2, <2>6, RecordKeeps DEF GainInv
    <3> QED BY <2>1, <2>4, <2>6, <3>1 DEF GainInv
  <2> QED BY <2>1, <2>5, <2>6
<1>3. CASE ~Gain!Accepted(info)
  BY <1>1, <1>3, GainRests DEF Gain!gain_vars, Gain!sums
<1> QED BY <1>2, <1>3

(* Steps of other components leave the gains alone. *)
LEMMA GainSteps ==
  ASSUME GainInv, [Next]_vars PROVE GainInv'
<1>1. CASE GainStep
  BY <1>1, GainNext DEF GainStep
<1>2. CASE UNCHANGED gain_vars
  BY <1>2, GainRests DEF gain_vars
<1> QED
  BY <1>1, <1>2 DEF Next, vars, StartStep, PingStep, EvalStep, RadarStep, PresenceStep,
                    TransformStep, HostStep

(* The sums, the forced gains and the records are always those of gains. *)
LEMMA GainInvariant == Spec => []GainInv
<1>1. Init => GainInv
  BY GainInit DEF Init
<1>2. GainInv /\ [Next]_vars => GainInv'
  BY GainSteps
<1> QED
  BY <1>1, <1>2, PTL DEF Spec

(* The average of gains is what their sum says. *)
LEMMA AverageIs ==
  /\ LET agc(n) == gains[n].agc IN Gain!Average(agc) = Total(Agc)[SAMPLES] \div SAMPLES
  /\ LET fft(n) == gains[n].fft IN Gain!Average(fft) = Total(Ffts)[SAMPLES] \div SAMPLES
<1>1. LET agc(n) == gains[n].agc IN Gain!Average(agc) = Total(Agc)[SAMPLES] \div SAMPLES
  <2> DEFINE Q(f) == f = [n \in 0 .. SAMPLES |-> IF n = 0 THEN 0 ELSE f[n - 1] + gains[n].agc]
             total == CHOOSE f : Q(f)
  <2>1. \A n \in 0 .. SAMPLES : n # 0 => Agc[n] = gains[n].agc
    BY SamplesAre DEF Agc
  <2>2. \A f : Q(f) <=> SumsOf(f, Agc)
    BY <2>1 DEF SumsOf
  <2>3. \E f : Q(f)
    BY <2>2, SumsExist
  <2>4. Q(total)
    BY <2>3
  <2>5. SumsOf(total, Agc)
    BY <2>2, <2>4
  <2>6. total[SAMPLES] = Total(Agc)[SAMPLES]
    <3> HIDE DEF total
    <3>1. SAMPLES \in 0 .. SAMPLES
      BY SamplesAre
    <3> QED BY <2>5, <3>1, TotalIs, SumsAgree
  <2> QED BY <2>6 DEF Gain!Average
<1>2. LET fft(n) == gains[n].fft IN Gain!Average(fft) = Total(Ffts)[SAMPLES] \div SAMPLES
  <2> DEFINE Q(f) == f = [n \in 0 .. SAMPLES |-> IF n = 0 THEN 0 ELSE f[n - 1] + gains[n].fft]
             total == CHOOSE f : Q(f)
  <2>1. \A n \in 0 .. SAMPLES : n # 0 => Ffts[n] = gains[n].fft
    BY SamplesAre DEF Ffts
  <2>2. \A f : Q(f) <=> SumsOf(f, Ffts)
    BY <2>1 DEF SumsOf
  <2>3. \E f : Q(f)
    BY <2>2, SumsExist
  <2>4. Q(total)
    BY <2>3
  <2>5. SumsOf(total, Ffts)
    BY <2>2, <2>4
  <2>6. total[SAMPLES] = Total(Ffts)[SAMPLES]
    <3> HIDE DEF total
    <3>1. SAMPLES \in 0 .. SAMPLES
      BY SamplesAre
    <3> QED BY <2>5, <3>1, TotalIs, SumsAgree
  <2> QED BY <2>6 DEF Gain!Average
<1> QED BY <1>1, <1>2

(* Of the average rounded down. *)
LEMMA Quotient ==
  ASSUME NEW x \in Int, NEW d \in Nat, d > 0, NEW b \in Int
  PROVE  /\ (x + d * b) \div d = x \div d + b
         /\ x \div d \in Int /\ d * (x \div d) <= x /\ x < d * (x \div d) + d
OBVIOUS

(* If the gains have one sign, so has the average of their bytes. *)
LEMMA OneSignAverage ==
  ASSUME GainTyped, s_count > SAMPLES, Gain!OneSign
  PROVE  Gain!Signed(Total(Bytes)[SAMPLES] \div SAMPLES) = Total(Ffts)[SAMPLES] \div SAMPLES
<1>1. \A i \in 1 .. SAMPLES : gains[i].fft \in FftGains
  <2>1. \A i \in 1 .. SAMPLES : gains[i] \in Packet
    BY SamplesAre DEF GainTyped
  <2> QED BY <2>1 DEF Packet
<1>2. DOMAIN Gain!First = 1 .. SAMPLES
  BY SamplesAre DEF GainTyped, Gain!First
<1>3. SumsOf(Total(Bytes), Bytes) /\ SumsOf(Total(Ffts), Ffts) /\ SAMPLES \in 0 .. SAMPLES
  BY TotalIs, SamplesAre
<1> DEFINE H == BYTE \div 2
           tf == Total(Ffts)[SAMPLES]
           tb == Total(Bytes)[SAMPLES]
<1>4. BYTE = 2 * H /\ H \in Nat /\ BYTE \in Nat
  BY HalfByte, WidthsAre
<1>5. CASE \A n \in 1 .. SAMPLES : gains[n].fft >= 0
  <2>1. \A i \in 1 .. SAMPLES : Bytes[i] = Ffts[i] /\ Ffts[i] \in 0 .. H - 1
    <3>1. ASSUME NEW i \in 1 .. SAMPLES PROVE Bytes[i] = Ffts[i] /\ Ffts[i] \in 0 .. H - 1
      <4>1. Bytes[i] = Gain!Unsigned(gains[i].fft) /\ Ffts[i] = gains[i].fft
        BY DEF Bytes, Ffts
      <4>2. gains[i].fft \in FftGains /\ gains[i].fft >= 0
        BY <1>1, <1>5
      <4> QED BY <1>4, <4>1, <4>2, Bytewise
    <3> QED BY <3>1
  <2>2. tb = tf
    BY <1>3, <2>1, SumsAgree
  <2>3. tf \in Int /\ SAMPLES * 0 <= tf /\ tf <= SAMPLES * (H - 1)
    <3>1. 0 \in Int /\ H - 1 \in Int
      BY <1>4
    <3> HIDE DEF H
    <3> QED BY <1>3, <2>1, <3>1, SumsBounded
  <2> HIDE DEF tf, tb, H
  <2>4. tf \div SAMPLES \in 0 .. H - 1
    <3>1. /\ tf \div SAMPLES \in Int /\ SAMPLES * (tf \div SAMPLES) <= tf
          /\ tf < SAMPLES * (tf \div SAMPLES) + SAMPLES
      BY <2>3, SamplesAre, Quotient
    <3> DEFINE q == tf \div SAMPLES
    <3> HIDE DEF q
    <3>2. SAMPLES * q <= SAMPLES * (H - 1) /\ 0 < SAMPLES * q + SAMPLES
      BY <1>4, <2>3, <3>1, SamplesAre DEF q
    <3>3. q <= H - 1 /\ q >= 0
      BY <1>4, <3>1, <3>2, SamplesAre DEF q
    <3> QED BY <1>4, <3>1, <3>3 DEF q
  <2> QED BY <1>4, <2>2, <2>4 DEF Gain!Signed, tf, tb, H
<1>6. CASE \A n \in 1 .. SAMPLES : gains[n].fft < 0
  <2>1. \A i \in 1 .. SAMPLES : /\ Ffts[i] \in Int /\ Bytes[i] = Ffts[i] + BYTE
                               /\ Ffts[i] \in (-H) .. (-1)
    <3>1. ASSUME NEW i \in 1 .. SAMPLES
          PROVE  Ffts[i] \in Int /\ Bytes[i] = Ffts[i] + BYTE /\ Ffts[i] \in (-H) .. (-1)
      <4>1. Bytes[i] = Gain!Unsigned(gains[i].fft) /\ Ffts[i] = gains[i].fft
        BY DEF Bytes, Ffts
      <4>2. gains[i].fft \in FftGains /\ gains[i].fft < 0
        BY <1>1, <1>6
      <4> QED BY <1>4, <4>1, <4>2, Bytewise
    <3> QED BY <3>1
  <2>2. tb = tf + SAMPLES * BYTE
    <3> HIDE DEF H
    <3> QED BY <1>3, <1>4, <2>1, SumsShift
  <2>3. tf \in Int /\ SAMPLES * (-H) <= tf /\ tf <= SAMPLES * (-1)
    <3>1. -H \in Int /\ -1 \in Int
      BY <1>4
    <3> HIDE DEF H
    <3> QED BY <1>3, <2>1, <3>1, SumsBounded
  <2> HIDE DEF tf, tb, H
  <2>4. tb \div SAMPLES = tf \div SAMPLES + BYTE
    BY <1>4, <2>2, <2>3, SamplesAre, Quotient
  <2>5. tf \div SAMPLES \in (-H) .. (-1)
    <3> DEFINE q == tf \div SAMPLES
    <3>1. q \in Int /\ SAMPLES * q <= tf /\ tf < SAMPLES * q + SAMPLES
      BY <2>3, SamplesAre, Quotient
    <3> HIDE DEF q
    <3>2. SAMPLES * q <= SAMPLES * (-1) /\ SAMPLES * (-H) < SAMPLES * q + SAMPLES
      BY <1>4, <2>3, <3>1, SamplesAre
    <3>3. q <= -1 /\ q >= -H
      BY <1>4, <3>1, <3>2, SamplesAre
    <3> QED BY <1>4, <3>1, <3>3 DEF q
  <2> QED BY <1>4, <2>4, <2>5 DEF Gain!Signed, tf, tb, H
<1> QED BY <1>2, <1>5, <1>6 DEF Gain!OneSign

(* get-started forces the radio once, to the averages of the first gains   *)
(* of the sender's packets; esp-crab's library records the same gains and  *)
(* takes one baseline of them. No sum overflows, whatever the gains are.   *)
THEOREM ForcedToAverage == Spec => []GainIsAverage
<1>1. GainInv => GainIsAverage
  <2> SUFFICES ASSUME GainInv PROVE Gain!GainIsAverage
    BY DEF GainIsAverage
  <2>1. ASSUME receiver = "get-started"
        PROVE  /\ Len(forced) = IF s_count > SAMPLES THEN 1 ELSE 0
               /\ \A f \in DOMAIN forced :
                    /\ LET agc(n) == gains[n].agc IN forced[f].agc = Gain!Average(agc)
                    /\ Gain!OneSign =>
                         LET fft(n) == gains[n].fft IN Gain!Signed(forced[f].fft) = Gain!Average(fft)
    <3>1. forced = IF s_count > SAMPLES THEN <<Averages>> ELSE <<>>
      BY <2>1 DEF GainInv, Summed
    <3>2. Len(forced) = IF s_count > SAMPLES THEN 1 ELSE 0
      BY <3>1
    <3>3. ASSUME NEW f \in DOMAIN forced PROVE s_count > SAMPLES /\ forced[f] = Averages
      BY <3>1, <3>3
    <3>4. ASSUME NEW f \in DOMAIN forced
          PROVE  LET agc(n) == gains[n].agc IN forced[f].agc = Gain!Average(agc)
      <4>1. forced[f].agc = Total(Agc)[SAMPLES] \div SAMPLES
        BY <3>3 DEF Averages
      <4> QED BY <4>1, AverageIs
    <3>5. ASSUME NEW f \in DOMAIN forced, Gain!OneSign
          PROVE  LET fft(n) == gains[n].fft IN Gain!Signed(forced[f].fft) = Gain!Average(fft)
      <4>1. forced[f].fft = Total(Bytes)[SAMPLES] \div SAMPLES
        BY <3>3 DEF Averages
      <4>2. Gain!Signed(Total(Bytes)[SAMPLES] \div SAMPLES) = Total(Ffts)[SAMPLES] \div SAMPLES
        BY <3>3, <3>5, OneSignAverage, Zenon DEF GainInv
      <4> QED BY <4>1, <4>2, AverageIs
    <3> QED BY <3>2, <3>4, <3>5
  <2>2. ASSUME receiver = "esp-crab"
        PROVE  /\ recorded = Gain!First
               /\ baselines = IF s_count > SAMPLES THEN <<SAMPLES>> ELSE <<>>
               /\ s_count > 0 => compensated = gains[s_count]
    BY <2>2, Zenon DEF GainInv, Recorded
  <2> QED BY <2>1, <2>2, Zenon DEF Gain!GainIsAverage
<1> QED
  BY <1>1, GainInvariant, PTL

-----------------------------------------------------------------------------
(* The transform. What a modulus of 193 makes of sums and of products. *)
LEMMA RestOfSum ==
  ASSUME NEW k \in Int, NEW z \in Int
  PROVE  (193 * k + z) % 193 = z % 193 /\ z % 193 \in 0 .. 192
OBVIOUS

(* A factor may be taken modulo 193 first. *)
LEMMA RestOfProduct ==
  ASSUME NEW x \in Int, NEW y \in Int
  PROVE  (x * (y % 193)) % 193 = (x * y) % 193
<1> DEFINE q == y \div 193  r == y % 193
<1>1. y = 193 * q + r /\ q \in Int /\ r \in Int
  OBVIOUS
<1> HIDE DEF q, r
<1>2. x * y = 193 * (x * q) + x * r /\ x * q \in Int /\ x * r \in Int
  BY <1>1
<1>3. (x * y) % 193 = (x * r) % 193
  <2> DEFINE k == x * q  z == x * r
  <2>1. k \in Int /\ z \in Int /\ x * y = 193 * k + z
    BY <1>2
  <2> HIDE DEF k, z
  <2>2. (193 * k + z) % 193 = z % 193
    BY <2>1, RestOfSum
  <2> QED BY <2>1, <2>2 DEF z
<1> QED BY <1>3 DEF r

(* Multiplication modulo 193. *)
LEMMA TimesIs ==
  ASSUME NEW x \in Int, NEW y \in Int
  PROVE  /\ Transform!Times(x, y) = (x * y) % 193 /\ Transform!Times(x, y) \in 0 .. 192
         /\ Transform!Times(x, y) = Transform!Times(y, x)
<1>1. x * y \in Int /\ x * y = y * x
  OBVIOUS
<1> DEFINE z == x * y
<1>2. z % 193 \in 0 .. 192
  <2> HIDE DEF z
  <2>1. z \in Int
    BY <1>1 DEF z
  <2> QED BY <2>1
<1> QED BY <1>1, <1>2 DEF Transform!Times, Transform!P

(* It is associative. *)
LEMMA TimesTimes ==
  ASSUME NEW x \in Int, NEW y \in Int, NEW z \in Int
  PROVE  Transform!Times(x, Transform!Times(y, z)) = Transform!Times(Transform!Times(x, y), z)
<1>1. x * y \in Int /\ y * z \in Int /\ x * (y * z) = z * (x * y)
  OBVIOUS
<1>2. (y * z) % 193 \in Int /\ (x * y) % 193 \in Int
  BY <1>1, TimesIs
<1>3. Transform!Times(x, Transform!Times(y, z)) = (x * (y * z)) % 193
  BY <1>1, <1>2, TimesIs, RestOfProduct
<1>4. Transform!Times(Transform!Times(x, y), z) = (z * (x * y)) % 193
  BY <1>1, <1>2, TimesIs, RestOfProduct
<1> QED BY <1>1, <1>3, <1>4

-----------------------------------------------------------------------------
(* The powers of the root. *)
PowersTo(f, k) == f = [i \in 0 .. k |-> IF i = 0 THEN 1 ELSE Transform!Times(125, f[i - 1])]

(* There are such powers, *)
LEMMA PowersExist == \E f : PowersTo(f, 63)
<1> DEFINE T == {k \in 0 .. 63 : \E f : PowersTo(f, k)}
<1>1. 0 \in T
  <2> DEFINE f == [n \in 0 .. 0 |-> 1]
  <2>1. PowersTo(f, 0)
    BY DEF PowersTo
  <2> HIDE DEF f
  <2> QED BY <2>1
<1>2. ASSUME NEW k \in 0 .. 62, k \in T PROVE k + 1 \in T
  <2>1. PICK f : PowersTo(f, k)
    BY <1>2
  <2> DEFINE h == [n \in 0 .. k + 1 |-> IF n = k + 1 THEN Transform!Times(125, f[k]) ELSE f[n]]
  <2>2. \A n \in 0 .. k : h[n] = f[n]
    OBVIOUS
  <2>3. \A n \in 0 .. k + 1 : h[n] = IF n = 0 THEN 1 ELSE Transform!Times(125, h[n - 1])
    <3>1. ASSUME NEW n \in 0 .. k
          PROVE  h[n] = IF n = 0 THEN 1 ELSE Transform!Times(125, h[n - 1])
      <4>1. f[n] = IF n = 0 THEN 1 ELSE Transform!Times(125, f[n - 1])
        BY <2>1 DEF PowersTo
      <4>2. n # 0 => h[n - 1] = f[n - 1]
        BY <2>2
      <4> QED BY <2>2, <4>1, <4>2
    <3>2. h[k + 1] = Transform!Times(125, h[k]) /\ k + 1 # 0 /\ (k + 1) - 1 = k
      BY <2>2
    <3> QED BY <3>1, <3>2, SMTT(60)
  <2>4. PowersTo(h, k + 1)
    BY <2>3 DEF PowersTo
  <2> HIDE DEF h
  <2> QED BY <2>4
<1> HIDE DEF T
<1>3. 63 \in T
  BY <1>1, <1>2, Induction
<1> QED BY <1>3 DEF T

(* and the table has them. *)
LEMMA RootPowerIs ==
  /\ DOMAIN Transform!RootPower = 0 .. 63 /\ Transform!RootPower[0] = 1
  /\ \A i \in 0 .. 62 :
       Transform!RootPower[i + 1] = Transform!Times(125, Transform!RootPower[i])
<1>1. Transform!RootPower = CHOOSE f : PowersTo(f, 63)
  BY DEF Transform!RootPower, Transform!Indices, Transform!N, Transform!Root, PowersTo
<1>2. PowersTo(Transform!RootPower, 63)
  BY <1>1, PowersExist
<1> QED BY <1>2 DEF PowersTo

(* A power by its number. *)
Power(k) == Transform!RootPower[k]
(* The first is 1, and each next is the one before it times the root.      *)
LEMMA PowerIs ==
  /\ Power(0) = 1 /\ \A i \in 0 .. 62 : Power(i + 1) = Transform!Times(125, Power(i))
BY RootPowerIs DEF Power

(* They are numbers modulo 193. *)
LEMMA PowerType == \A i \in 0 .. 63 : Power(i) \in 0 .. 192
<1> DEFINE T == {i \in 0 .. 63 : Power(i) \in 0 .. 192}
<1>1. 0 \in T
  BY PowerIs
<1>2. ASSUME NEW i \in 0 .. 62, i \in T PROVE i + 1 \in T
  <2>1. Power(i) \in Int
    BY <1>2
  <2>2. Power(i + 1) = Transform!Times(125, Power(i))
    BY PowerIs
  <2>3. Transform!Times(125, Power(i)) \in 0 .. 192
    <3>1. 125 \in Int
      OBVIOUS
    <3> QED BY <2>1, <3>1, TimesIs, Zenon
  <2>4. i + 1 \in 0 .. 63
    OBVIOUS
  <2> QED BY <2>2, <2>3, <2>4
<1> HIDE DEF T
<1>3. \A i \in 0 .. 63 : i \in T
  BY <1>1, <1>2, Induction
<1> QED BY <1>3 DEF T

(* The product of two powers is that of the sum, *)
LEMMA PowersAdd ==
  ASSUME NEW a \in 0 .. 63, NEW b \in 0 .. 63, a + b <= 63
  PROVE  Transform!Times(Power(a), Power(b))
           = Power(a + b)
<1> DEFINE T == {k \in 0 .. b : Transform!Times(Power(a), Power(k))
                                  = Power(a + k)}
<1>1. 0 \in T
  <2>1. Power(a) \in 0 .. 192 /\ a + 0 = a
    BY PowerType
  <2>2. Transform!Times(Power(a), 1) = Power(a)
    <3> DEFINE x == Power(a)
    <3> HIDE DEF x
    <3>1. x \in 0 .. 192 => (x * 1) % 193 = x
      OBVIOUS
    <3> QED BY <2>1, <3>1 DEF x, Transform!Times, Transform!P
  <2>3. 0 \in 0 .. b
    OBVIOUS
  <2> QED BY <2>1, <2>2, <2>3, PowerIs
<1>2. ASSUME NEW k \in 0 .. b - 1, k \in T PROVE k + 1 \in T
  <2> DEFINE x == Power(a)  y == Power(k)
  <2>1. x \in Int /\ y \in Int
    <3>1. k \in 0 .. 63
      OBVIOUS
    <3>2. x \in 0 .. 192 /\ y \in 0 .. 192
      BY <3>1, PowerType, Zenon
    <3> QED BY <3>2
  <2>2. Power(k + 1) = Transform!Times(125, y) /\ a + k \in 0 .. 62
    BY PowerIs
  <2>3. Power(a + (k + 1)) = Transform!Times(125, Power(a + k))
    <3>1. a + (k + 1) = (a + k) + 1
      OBVIOUS
    <3> QED BY <2>2, <3>1, PowerIs
  <2>4. Transform!Times(x, y) = Power(a + k)
    BY <1>2
  <2> HIDE DEF x, y
  <2>5. Transform!Times(x, Transform!Times(125, y))
          = Transform!Times(125, Transform!Times(x, y))
    BY <2>1, TimesTimes, TimesIs
  <2>6. Transform!Times(x, Power(k + 1)) = Power(a + (k + 1))
    BY <2>2, <2>3, <2>4, <2>5
  <2> QED BY <2>6 DEF x
<1> HIDE DEF T
<1>3. b \in T
  BY <1>1, <1>2, Induction
<1> QED BY <1>3 DEF T

(* The 32nd power is -1, and the 64th is 1 again. *)
LEMMA PowersEnd ==
  /\ Power(32) = 192
  /\ Transform!Times(125, Power(63)) = 1
<1> DEFINE R(k) == Power(k)
<1>1. R(0) = 1 /\ R(1) = 125
  <2>1. R(1) = Transform!Times(125, 1)
    BY PowerIs
  <2> QED BY <2>1, PowerIs DEF Transform!Times, Transform!P
<1> HIDE DEF R
<1>2. \A a, b \in 0 .. 63 : a + b <= 63 => R(a + b) = (R(a) * R(b)) % 193
  <2> SUFFICES ASSUME NEW a \in 0 .. 63, NEW b \in 0 .. 63, a + b <= 63
               PROVE  R(a + b) = (R(a) * R(b)) % 193
    OBVIOUS
  <2> QED BY PowersAdd DEF R, Transform!Times, Transform!P
<1>3. R(2) = 185
  <2>1. R(1 + 1) = (R(1) * R(1)) % 193
    <3>1. 1 \in 0 .. 63 /\ 1 + 1 <= 63
      OBVIOUS
    <3> QED BY <1>2, <3>1, Zenon
  <2> QED BY <1>1, <2>1
<1>4. R(4) = 64
  <2>1. R(2 + 2) = (R(2) * R(2)) % 193
    <3>1. 2 \in 0 .. 63 /\ 2 + 2 <= 63
      OBVIOUS
    <3> QED BY <1>2, <3>1, Zenon
  <2> QED BY <1>3, <2>1
<1>5. R(8) = 43
  <2>1. R(4 + 4) = (R(4) * R(4)) % 193
    <3>1. 4 \in 0 .. 63 /\ 4 + 4 <= 63
      OBVIOUS
    <3> QED BY <1>2, <3>1, Zenon
  <2> QED BY <1>4, <2>1
<1>6. R(16) = 112
  <2>1. R(8 + 8) = (R(8) * R(8)) % 193
    <3>1. 8 \in 0 .. 63 /\ 8 + 8 <= 63
      OBVIOUS
    <3> QED BY <1>2, <3>1, Zenon
  <2> QED BY <1>5, <2>1
<1>7. R(32) = 192
  <2>1. R(16 + 16) = (R(16) * R(16)) % 193
    <3>1. 16 \in 0 .. 63 /\ 16 + 16 <= 63
      OBVIOUS
    <3> QED BY <1>2, <3>1, Zenon
  <2> QED BY <1>6, <2>1
<1>8. R(3) = (185 * 125) % 193 /\ R(7) = (64 * R(3)) % 193 /\ R(15) = (43 * R(7)) % 193
  <2>1. R(2 + 1) = (R(2) * R(1)) % 193 /\ R(4 + 3) = (R(4) * R(3)) % 193
    <3>1. /\ 2 \in 0 .. 63 /\ 1 \in 0 .. 63 /\ 2 + 1 <= 63
          /\ 4 \in 0 .. 63 /\ 3 \in 0 .. 63 /\ 4 + 3 <= 63
      OBVIOUS
    <3> QED BY <1>2, <3>1, Zenon
  <2>2. R(8 + 7) = (R(8) * R(7)) % 193
    <3>1. 8 \in 0 .. 63 /\ 7 \in 0 .. 63 /\ 8 + 7 <= 63
      OBVIOUS
    <3> QED BY <1>2, <3>1, Zenon
  <2> QED BY <1>1, <1>3, <1>4, <1>5, <2>1, <2>2
<1>9. R(31) = (112 * R(15)) % 193 /\ R(63) = (192 * R(31)) % 193
  <2>1. R(16 + 15) = (R(16) * R(15)) % 193 /\ R(32 + 31) = (R(32) * R(31)) % 193
    BY <1>2
  <2> QED BY <1>6, <1>7, <2>1
<1>10. (125 * R(63)) % 193 = 1
  BY <1>8, <1>9
<1> QED BY <1>7, <1>10 DEF R, Transform!Times, Transform!P

(* whatever the sum, modulo 64. *)
LEMMA PowersMultiply ==
  ASSUME NEW a \in 0 .. 63, NEW b \in 0 .. 63
  PROVE  Transform!Times(Power(a), Power(b))
           = Power((a + b) % 64)
<1>1. CASE a + b <= 63
  <2>1. (a + b) % 64 = a + b
    BY <1>1
  <2> QED BY <1>1, <2>1, PowersAdd
<1>2. CASE a + b > 63
  <2> DEFINE c == a + b - 64
             x == Power(a)  y == Power(63 - a)
             z == Power(c)
  <2>1. c \in 0 .. 62 /\ (a + b) % 64 = c /\ b = (63 - a) + (c + 1) /\ c + 1 \in 0 .. 63
    BY <1>2
  <2>2. x \in Int /\ y \in Int /\ z \in Int
    <3>1. 63 - a \in 0 .. 63 /\ c \in 0 .. 63
      BY <2>1
    <3>2. x \in 0 .. 192 /\ y \in 0 .. 192 /\ z \in 0 .. 192
      BY <3>1, PowerType, Zenon
    <3> QED BY <3>2
  <2>3. Power(b) = Transform!Times(y, Power(c + 1))
    <3> HIDE DEF c
    <3>1. 63 - a \in 0 .. 63 /\ (63 - a) + (c + 1) <= 63
      BY <2>1
    <3>2. Transform!Times(y, Power(c + 1)) = Power((63 - a) + (c + 1))
      BY <2>1, <3>1, PowersAdd, Zenon
    <3> QED BY <2>1, <3>2, Zenon
  <2>4. Power(c + 1) = Transform!Times(125, z)
    BY <2>1, PowerIs
  <2>5. Transform!Times(x, y) = Power(63)
    <3> DEFINE d == 63 - a
    <3>1. a + d = 63 /\ a + d <= 63 /\ d \in 0 .. 63
      OBVIOUS
    <3> HIDE DEF d
    <3>2. Transform!Times(x, Power(d)) = Power(a + d)
      BY <3>1, PowersAdd
    <3> QED BY <3>1, <3>2 DEF d
  <2>6. z \in 0 .. 192
    BY <2>1, PowerType
  <2> HIDE DEF c, x, y, z
  <2>7. Transform!Times(x, Transform!Times(y, Transform!Times(125, z)))
          = Transform!Times(Transform!Times(Transform!Times(x, y), 125), z)
    <3>1. Transform!Times(125, z) \in Int /\ Transform!Times(x, y) \in Int
      BY <2>2, TimesIs
    <3> QED BY <2>2, <3>1, TimesTimes
  <2>8. Transform!Times(Transform!Times(x, y), 125) = 1
    <3>1. Power(63) \in Int
      BY PowerType
    <3>2. Transform!Times(Power(63), 125)
            = Transform!Times(125, Power(63))
      <4>1. 125 \in Int
        OBVIOUS
      <4> QED BY <3>1, <4>1, TimesIs, Zenon
    <3> QED BY <2>5, <3>2, PowersEnd
  <2>9. Transform!Times(1, z) = z
    BY <2>6 DEF Transform!Times, Transform!P
  <2>10. Transform!Times(x, Power(b)) = z
    BY <2>3, <2>4, <2>7, <2>8, <2>9
  <2> QED BY <2>1, <2>10 DEF x, z
<1> QED BY <1>1, <1>2

-----------------------------------------------------------------------------
(* Bits in reverse, after each number of steps up to k. *)
ReversalTo(f, x, k) ==
  f = [i \in 0 .. k |->
         IF i = 0 THEN [n |-> 0, x |-> x]
         ELSE [n |-> 2 * f[i - 1].n + (f[i - 1].x % 2), x |-> f[i - 1].x \div 2]]

(* There are such steps. *)
LEMMA ReversalExists == ASSUME NEW x PROVE \E f : ReversalTo(f, x, 6)
<1> DEFINE Next_(r) == [n |-> 2 * r.n + (r.x % 2), x |-> r.x \div 2]
           First == [n |-> 0, x |-> x]
           T == {k \in 0 .. 6 : \E f : ReversalTo(f, x, k)}
<1>1. \A f, k : ReversalTo(f, x, k)
                  <=> f = [i \in 0 .. k |-> IF i = 0 THEN First ELSE Next_(f[i - 1])]
  BY Zenon DEF ReversalTo
<1> HIDE DEF Next_, First
<1>2. 0 \in T
  <2> DEFINE f == [n \in 0 .. 0 |-> First]
  <2>1. f = [i \in 0 .. 0 |-> IF i = 0 THEN First ELSE Next_(f[i - 1])]
    OBVIOUS
  <2> HIDE DEF f
  <2> QED BY <1>1, <2>1
<1>3. ASSUME NEW k \in 0 .. 5, k \in T PROVE k + 1 \in T
  <2>1. PICK f : f = [i \in 0 .. k |-> IF i = 0 THEN First ELSE Next_(f[i - 1])]
    BY <1>1, <1>3
  <2> DEFINE h == [n \in 0 .. k + 1 |-> IF n = k + 1 THEN Next_(f[k]) ELSE f[n]]
  <2>2. \A n \in 0 .. k : h[n] = f[n]
    OBVIOUS
  <2>3. \A n \in 0 .. k + 1 : h[n] = IF n = 0 THEN First ELSE Next_(h[n - 1])
    <3>1. ASSUME NEW n \in 0 .. k PROVE h[n] = IF n = 0 THEN First ELSE Next_(h[n - 1])
      <4>1. f[n] = IF n = 0 THEN First ELSE Next_(f[n - 1])
        BY <2>1
      <4>2. n # 0 => h[n - 1] = f[n - 1]
        BY <2>2
      <4> QED BY <2>2, <4>1, <4>2
    <3>2. h[k + 1] = Next_(h[k]) /\ k + 1 # 0 /\ (k + 1) - 1 = k
      BY <2>2
    <3> QED BY <3>1, <3>2
  <2>4. h = [i \in 0 .. k + 1 |-> IF i = 0 THEN First ELSE Next_(h[i - 1])]
    BY <2>3
  <2> HIDE DEF h
  <2>5. ReversalTo(h, x, k + 1)
    BY <1>1, <2>4
  <2> QED BY <2>5
<1> HIDE DEF T
<1>4. 6 \in T
  BY <1>2, <1>3, Induction
<1> QED BY <1>4 DEF T

(* Six bits, the number they make and the one they make in reverse.        *)
Bits(x, y, a, b, c, d, e, f) ==
  /\ {a, b, c, d, e, f} \subseteq {0, 1}
  /\ x = a + 2 * b + 4 * c + 8 * d + 16 * e + 32 * f
  /\ y = 32 * a + 16 * b + 8 * c + 4 * d + 2 * e + f
(* A number of six bits is made of some, and its reverse of the same.      *)
LEMMA BitsOf ==
  ASSUME NEW x \in 0 .. 63
  PROVE  \E a, b, c, d, e, f : Bits(x, Transform!bitReverse(x, 6), a, b, c, d, e, f)
<1> DEFINE r == CHOOSE g : ReversalTo(g, x, 6)
<1>1. Transform!bitReverse(x, 6) = r[6].n
  BY DEF Transform!bitReverse, ReversalTo
<1>2. ReversalTo(r, x, 6)
  BY ReversalExists
<1> HIDE DEF r
<1>3. /\ r[0] = [n |-> 0, x |-> x]
      /\ \A i \in 1 .. 6 : r[i] = [n |-> 2 * r[i - 1].n + (r[i - 1].x % 2), x |-> r[i - 1].x \div 2]
  <2>1. r = [i \in 0 .. 6 |->
               IF i = 0 THEN [n |-> 0, x |-> x]
               ELSE [n |-> 2 * r[i - 1].n + (r[i - 1].x % 2), x |-> r[i - 1].x \div 2]]
    BY <1>2, Zenon DEF ReversalTo
  <2>2. \A i \in 0 .. 6 :
          r[i] = IF i = 0 THEN [n |-> 0, x |-> x]
                 ELSE [n |-> 2 * r[i - 1].n + (r[i - 1].x % 2), x |-> r[i - 1].x \div 2]
    BY <2>1, Zenon
  <2>3. 0 \in 0 .. 6 /\ \A i \in 1 .. 6 : i \in 0 .. 6 /\ i # 0
    OBVIOUS
  <2> QED BY <2>2, <2>3, Zenon
<1> DEFINE x1 == x \div 2  x2 == x1 \div 2  x3 == x2 \div 2  x4 == x3 \div 2  x5 == x4 \div 2
<1>4. /\ x1 \in 0 .. 31 /\ x = 2 * x1 + (x % 2) /\ x % 2 \in {0, 1}
  OBVIOUS
<1>5. /\ x2 \in 0 .. 15 /\ x1 = 2 * x2 + (x1 % 2) /\ x1 % 2 \in {0, 1}
  <2> HIDE DEF x1
  <2> QED BY <1>4
<1>6. /\ x3 \in 0 .. 7 /\ x2 = 2 * x3 + (x2 % 2) /\ x2 % 2 \in {0, 1}
  <2> HIDE DEF x2
  <2> QED BY <1>5
<1>7. /\ x4 \in 0 .. 3 /\ x3 = 2 * x4 + (x3 % 2) /\ x3 % 2 \in {0, 1}
  <2> HIDE DEF x3
  <2> QED BY <1>6
<1>8. /\ x5 \in {0, 1} /\ x4 = 2 * x5 + (x4 % 2) /\ x4 % 2 \in {0, 1} /\ x5 % 2 = x5
  <2> HIDE DEF x4
  <2> QED BY <1>7
<1>9. r[1].x = x1 /\ r[1].n = 2 * 0 + (x % 2)
  BY <1>3
<1>10. r[2].x = x2 /\ r[2].n = 2 * (x % 2) + (x1 % 2)
  <2>1. r[2].x = r[1].x \div 2 /\ r[2].n = 2 * r[1].n + (r[1].x % 2)
    BY <1>3
  <2> QED BY <1>4, <1>9, <2>1
<1> HIDE DEF x1
<1>11. r[3].x = x3 /\ r[3].n = 4 * (x % 2) + 2 * (x1 % 2) + (x2 % 2)
  <2>1. r[3].x = r[2].x \div 2 /\ r[3].n = 2 * r[2].n + (r[2].x % 2)
    BY <1>3
  <2> HIDE DEF x2
  <2> QED BY <1>4, <1>5, <1>10, <2>1
<1> HIDE DEF x2
<1>12. r[4].x = x4 /\ r[4].n = 8 * (x % 2) + 4 * (x1 % 2) + 2 * (x2 % 2) + (x3 % 2)
  <2>1. r[4].x = r[3].x \div 2 /\ r[4].n = 2 * r[3].n + (r[3].x % 2)
    BY <1>3
  <2> HIDE DEF x3
  <2> QED BY <1>4, <1>5, <1>6, <1>11, <2>1
<1> HIDE DEF x3
<1>13. r[5].x = x5 /\ r[5].n = 16 * (x % 2) + 8 * (x1 % 2) + 4 * (x2 % 2) + 2 * (x3 % 2) + (x4 % 2)
  <2>1. r[5].x = r[4].x \div 2 /\ r[5].n = 2 * r[4].n + (r[4].x % 2)
    BY <1>3
  <2> HIDE DEF x4
  <2> QED BY <1>4, <1>5, <1>6, <1>7, <1>12, <2>1
<1> HIDE DEF x4
<1>14. r[6].n = 32 * (x % 2) + 16 * (x1 % 2) + 8 * (x2 % 2) + 4 * (x3 % 2) + 2 * (x4 % 2) + x5
  <2>1. r[6].n = 2 * r[5].n + (r[5].x % 2)
    BY <1>3
  <2> HIDE DEF x5
  <2> QED BY <1>4, <1>5, <1>6, <1>7, <1>8, <1>13, <2>1
<1>15. Bits(x, r[6].n, x % 2, x1 % 2, x2 % 2, x3 % 2, x4 % 2, x5)
  <2>1. x = (x % 2) + 2 * (x1 % 2) + 4 * (x2 % 2) + 8 * (x3 % 2) + 16 * (x4 % 2) + 32 * x5
    <3> HIDE DEF x5
    <3> QED BY <1>4, <1>5, <1>6, <1>7, <1>8
  <2> HIDE DEF x5
  <2> QED BY <1>4, <1>5, <1>6, <1>7, <1>8, <1>14, <2>1 DEF Bits
<1> QED BY <1>1, <1>15

(* The reverse is a number of six bits, *)
LEMMA ReverseIs ==
  ASSUME NEW x \in 0 .. 63
  PROVE  Transform!bitReverse(x, 6) \in 0 .. 63
<1>1. PICK a, b, c, d, e, f : Bits(x, Transform!bitReverse(x, 6), a, b, c, d, e, f)
  BY BitsOf
<1> QED BY <1>1 DEF Bits

(* and its reverse is the number. *)
LEMMA ReverseTwice ==
  ASSUME NEW x \in 0 .. 63, NEW y \in 0 .. 63, Transform!bitReverse(x, 6) = y
  PROVE  Transform!bitReverse(y, 6) = x
<1>1. PICK a, b, c, d, e, f : Bits(x, y, a, b, c, d, e, f)
  BY BitsOf
<1>2. PICK a1, b1, c1, d1, e1, f1 : Bits(y, Transform!bitReverse(y, 6), a1, b1, c1, d1, e1, f1)
  BY BitsOf
<1>3. a = f1 /\ b = e1 /\ c = d1 /\ d = c1 /\ e = b1 /\ f = a1
  BY <1>1, <1>2 DEF Bits
<1> QED BY <1>1, <1>2, <1>3 DEF Bits

(* The table of fft_iq holds the reverse of every index. *)
LEMMA TableReverses ==
  \A i \in 0 .. 63 : Transform!bitReverseTable[i + 1] = Transform!bitReverse(i, 6)
<1> SUFFICES ASSUME NEW i \in 0 .. 63
             PROVE  Transform!bitReverseTable[i + 1] = Transform!bitReverse(i, 6)
  OBVIOUS
<1>1. PICK a, b, c, d, e, f : Bits(i, Transform!bitReverse(i, 6), a, b, c, d, e, f)
  BY BitsOf
<1> QED BY <1>1 DEF Bits, Transform!bitReverseTable

-----------------------------------------------------------------------------
(* The sizes of the butterflies. *)
Sizes == {2, 4, 8, 16, 32, 64}
(* A size is twice the one before it, and its turns are half as many. *)
LEMMA SizesAre ==
  ASSUME NEW s \in Sizes
  PROVE  /\ s \div 2 \in 1 .. 32 /\ s = 2 * (s \div 2) /\ 64 \div s \in 1 .. 32
         /\ (s \div 2) * (64 \div s) = 32 /\ 64 \div (s \div 2) = 2 * (64 \div s)
BY DEF Sizes

(* A stage joins two blocks: one more bit of a number tells its turns, and *)
(* of its reverse the same bit which of the two it is in.                  *)
LEMMA BlockHalves ==
  ASSUME NEW s \in Sizes, NEW x \in 0 .. 63
  PROVE  \E b \in {0, 1} :
           /\ x \div (64 \div s) = 2 * (x \div (64 \div (s \div 2))) + b
           /\ Transform!bitReverse(x, 6) \div (s \div 2) = 2 * (Transform!bitReverse(x, 6) \div s) + b
           /\ x \div (64 \div (s \div 2)) \in 0 .. 63
           /\ Transform!bitReverse(x, 6) \div s \in 0 .. 63
<1> DEFINE y == Transform!bitReverse(x, 6)
<1>1. PICK a, b, c, d, e, f : Bits(x, y, a, b, c, d, e, f)
  BY BitsOf
<1> HIDE DEF y
<1> DEFINE Halved(t, g) == /\ x \div (64 \div t) = 2 * (x \div (64 \div (t \div 2))) + g
                           /\ y \div (t \div 2) = 2 * (y \div t) + g
                           /\ x \div (64 \div (t \div 2)) \in 0 .. 63
                           /\ y \div t \in 0 .. 63
<1> DEFINE Halves(z, p, q, r, k, l, n) ==
             /\ z \in 0 .. 63 /\ z \div 1 = z /\ z \div 64 = 0
             /\ z = 2 * (16 * n + 8 * l + 4 * k + 2 * r + q) + p
             /\ z \div 2 = 16 * n + 8 * l + 4 * k + 2 * r + q
             /\ z \div 4 = 8 * n + 4 * l + 2 * k + r /\ z \div 8 = 4 * n + 2 * l + k
             /\ z \div 16 = 2 * n + l /\ z \div 32 = n
<1>2. ASSUME NEW z, NEW p \in 0 .. 1, NEW q \in 0 .. 1, NEW r \in 0 .. 1, NEW k \in 0 .. 1,
             NEW l \in 0 .. 1, NEW n \in 0 .. 1,
             z = 32 * n + 16 * l + 8 * k + 4 * r + 2 * q + p
      PROVE  Halves(z, p, q, r, k, l, n)
  <2>1. z \in 0 .. 63 /\ z \div 1 = z /\ z \div 64 = 0
    BY <1>2
  <2>2. z \div 2 = 16 * n + 8 * l + 4 * k + 2 * r + q
    BY <1>2
  <2>3. z \div 4 = 8 * n + 4 * l + 2 * k + r
    BY <1>2
  <2>4. z \div 8 = 4 * n + 2 * l + k
    BY <1>2
  <2>5. z \div 16 = 2 * n + l /\ z \div 32 = n
    BY <1>2
  <2>6. z = 2 * (16 * n + 8 * l + 4 * k + 2 * r + q) + p
    BY <1>2
  <2> QED BY <2>1, <2>2, <2>3, <2>4, <2>5, <2>6
<1>3. /\ a \in 0 .. 1 /\ b \in 0 .. 1 /\ c \in 0 .. 1 /\ d \in 0 .. 1 /\ e \in 0 .. 1
      /\ f \in 0 .. 1 /\ Transform!bitReverse(x, 6) = y
      /\ x = 32 * f + 16 * e + 8 * d + 4 * c + 2 * b + a
      /\ y = 32 * a + 16 * b + 8 * c + 4 * d + 2 * e + f
  BY <1>1 DEF Bits, y
<1>4. Halves(x, a, b, c, d, e, f) /\ Halves(y, f, e, d, c, b, a)
  <2> HIDE DEF Halves
  <2> QED BY <1>2, <1>3
<1>5. Halved(2, f) /\ Halved(4, e)
  <2> HIDE DEF y
  <2> QED BY <1>3, <1>4
<1>6. Halved(8, d) /\ Halved(16, c) /\ Halved(32, b) /\ Halved(64, a)
  <2> HIDE DEF y
  <2> QED BY <1>3, <1>4
<1> HIDE DEF Halved
<1>7. \E g \in {0, 1} : Halved(s, g)
  <2>1. {a, b, c, d, e, f} \subseteq {0, 1}
    BY <1>3
  <2> QED BY <1>5, <1>6, <2>1 DEF Sizes
<1> QED BY <1>7 DEF Halved, y

(* An index of the lower half of a block and the one that the butterfly    *)
(* joins it with are at the same place of two blocks of the stage before.  *)
LEMMA IndexHalves ==
  ASSUME NEW s \in Sizes, NEW i \in 0 .. 63, i % s < s \div 2
  PROVE  /\ i + s \div 2 \in 0 .. 63
         /\ i \div (s \div 2) = 2 * (i \div s) /\ i % (s \div 2) = i % s
         /\ (i + s \div 2) \div (s \div 2) = 2 * (i \div s) + 1
         /\ (i + s \div 2) % (s \div 2) = i % s
         /\ (i + s \div 2) \div s = i \div s /\ (i + s \div 2) % s = (i % s) + s \div 2
         /\ i \div s \in 0 .. 63 /\ i % s \in 0 .. 63
<1>1. CASE s = 2
  BY <1>1
<1>2. CASE s = 4
  BY <1>2
<1>3. CASE s = 8
  BY <1>3
<1>4. CASE s = 16
  BY <1>4
<1>5. CASE s = 32
  BY <1>5
<1>6. CASE s = 64
  BY <1>6
<1> QED BY <1>1, <1>2, <1>3, <1>4, <1>5, <1>6 DEF Sizes

-----------------------------------------------------------------------------
(* How often the root is taken, in the direction of the transform. *)
Turn(t) == (IF inverse THEN t ELSE 4096 - t) % 64
(* What Partial says of the stage of a size. *)
Part(i, s) ==
  IF i \div s # Transform!bitReverse(input, 6) \div s THEN 0
  ELSE Power(Turn((i % s) * (input \div (64 \div s)) * (64 \div s)))

(* Turns add up, and a full one is none. *)
LEMMA TurnIs ==
  ASSUME NEW t \in Int, NEW k \in Int
  PROVE  /\ Turn(t) \in 0 .. 63 /\ (Turn(t) + Turn(k)) % 64 = Turn(t + k)
         /\ Turn(t + 64 * k) = Turn(t) /\ Turn(t + 32) = (Turn(t) + 32) % 64
<1>1. CASE inverse
  BY <1>1 DEF Turn
<1>2. CASE ~inverse
  BY <1>2 DEF Turn
<1> QED BY <1>1, <1>2

(* A half turn changes the sign. *)
LEMMA HalfTurn ==
  ASSUME NEW t \in Int
  PROVE  /\ Power(Turn(t)) \in 0 .. 192
         /\ (0 - Power(Turn(t))) % 193 = Power(Turn(t + 32))
<1> DEFINE x == Power(Turn(t))
<1>1. Turn(t) \in 0 .. 63 /\ Turn(t + 32) = (Turn(t) + 32) % 64 /\ 32 \in 0 .. 63
  BY TurnIs
<1>2. x \in 0 .. 192
  BY <1>1, PowerType, Zenon
<1>3. Transform!Times(x, Power(32)) = Power(Turn(t + 32))
  BY <1>1, PowersMultiply, Zenon
<1> HIDE DEF x
<1>4. (x * 192) % 193 = (0 - x) % 193
  BY <1>2
<1> QED BY <1>2, <1>3, <1>4, PowersEnd DEF x, Transform!Times, Transform!P

(* A butterfly makes two elements of a stage of two of the one before. *)
LEMMA PartsMeet ==
  ASSUME input \in 0 .. 63, NEW s \in Sizes, NEW i \in 0 .. 63, i % s < s \div 2
  PROVE  LET h == s \div 2
             z == Transform!Times(Power(Turn((i % s) * (64 \div s))), Part(i + h, h))
         IN  /\ Part(i, s) = (Part(i, h) + z) % 193
             /\ Part(i + h, s) = (Part(i, h) - z) % 193
<1> DEFINE h == s \div 2  c == 64 \div s  k == i % s  y == Transform!bitReverse(input, 6)
           v == input \div (64 \div h)  I_ == i \div s  B == y \div s
           R(t) == Power(Turn(t))
           z == Transform!Times(R(k * c), Part(i + h, h))
<1>1. /\ h \in 1 .. 32 /\ s = 2 * h /\ c \in 1 .. 32 /\ h * c = 32 /\ 64 \div h = 2 * c
  BY SizesAre
<1>2. /\ i \div h = 2 * I_ /\ i % h = k /\ (i + h) \div h = 2 * I_ + 1 /\ (i + h) % h = k
      /\ (i + h) \div s = I_ /\ (i + h) % s = k + h /\ I_ \in 0 .. 63 /\ k \in 0 .. 63
  BY IndexHalves, Zenon
<1>3. PICK b \in {0, 1} : /\ input \div c = 2 * v + b /\ y \div h = 2 * B + b
                          /\ v \in 0 .. 63 /\ B \in 0 .. 63
  BY BlockHalves, ZenonT(60)
<1>4. /\ Part(i, s) = IF I_ # B THEN 0 ELSE R(k * (2 * v + b) * c)
      /\ Part(i + h, s) = IF I_ # B THEN 0 ELSE R((k + h) * (2 * v + b) * c)
  BY <1>2, <1>3, Zenon DEF Part
<1>5. /\ Part(i, h) = IF 2 * I_ # 2 * B + b THEN 0 ELSE R(k * v * (2 * c))
      /\ Part(i + h, h) = IF 2 * I_ + 1 # 2 * B + b THEN 0 ELSE R(k * v * (2 * c))
  BY <1>1, <1>2, <1>3, Zenon DEF Part
<1>6. ASSUME NEW t \in Int PROVE /\ R(t) \in 0 .. 192 /\ (0 - R(t)) % 193 = R(t + 32)
  BY HalfTurn
<1>7. ASSUME NEW t \in Int, NEW u \in Int
      PROVE  Transform!Times(R(t), R(u)) = R(t + u) /\ R(t + 64 * u) = R(t)
  <2>1. /\ Turn(t) \in 0 .. 63 /\ Turn(u) \in 0 .. 63 /\ (Turn(t) + Turn(u)) % 64 = Turn(t + u)
        /\ Turn(t + 64 * u) = Turn(t)
    BY TurnIs, ZenonT(60)
  <2>2. Transform!Times(R(t), R(u)) = Power((Turn(t) + Turn(u)) % 64)
    BY <2>1, PowersMultiply, Zenon
  <2> QED BY <2>1, <2>2, Zenon
<1>8. ASSUME NEW t \in Int PROVE Transform!Times(R(t), 0) = 0
  <2>1. R(t) \in Int
    <3>1. R(t) \in 0 .. 192
      BY HalfTurn, Zenon
    <3> QED BY <3>1
  <2> HIDE DEF R
  <2> QED BY <2>1 DEF Transform!Times, Transform!P
<1> DEFINE q == k * v * c
<1> HIDE DEF h, c, k, y, v, I_, B, R
<1>9. /\ q \in Int /\ k * c \in Int /\ k * v * (2 * c) = 2 * q
      /\ b = 0 => /\ k * (2 * v + b) * c = 2 * q
                  /\ (k + h) * (2 * v + b) * c = 2 * q + 64 * v
      /\ b = 1 => /\ k * (2 * v + b) * c = 2 * q + k * c
                  /\ (k + h) * (2 * v + b) * c = (2 * q + k * c + 32) + 64 * v
  <2>1. k * v \in Int /\ q \in Int /\ k * c \in Int
    BY <1>1, <1>2, <1>3
  <2>2. k * v * (2 * c) = 2 * q /\ k * (2 * v) * c = 2 * q
    BY <1>1, <1>2, <1>3
  <2>3. k * (2 * v + 1) * c = 2 * q + k * c
    BY <1>1, <1>2, <1>3
  <2>4. h * (2 * v) * c = 64 * v /\ h * (2 * v + 1) * c = 64 * v + 32
    <3>1. h * (2 * v) * c = 2 * ((h * c) * v) /\ h * (2 * v + 1) * c = 2 * ((h * c) * v) + h * c
      BY <1>1, <1>2, <1>3
    <3> QED BY <1>1, <1>3, <3>1
  <2>5. ASSUME NEW a \in Int PROVE (k + h) * a * c = k * a * c + h * a * c
    BY <1>1, <1>2
  <2>6. CASE b = 0
    <3>1. 2 * v + b = 2 * v /\ 2 * v \in Int
      BY <1>3, <2>6
    <3>2. (k + h) * (2 * v) * c = k * (2 * v) * c + h * (2 * v) * c
      BY <2>5, <3>1
    <3> QED BY <2>1, <2>2, <2>4, <2>6, <3>1, <3>2
  <2>7. CASE b = 1
    <3>1. 2 * v + b = 2 * v + 1 /\ 2 * v + 1 \in Int
      BY <1>3, <2>7
    <3>2. (k + h) * (2 * v + 1) * c = k * (2 * v + 1) * c + h * (2 * v + 1) * c
      BY <2>5, <3>1
    <3>3. \A n, p, o \in Int : (n + p) + (o + 32) = (n + p + 32) + o
      OBVIOUS
    <3> HIDE DEF q
    <3>4. 2 * q \in Int /\ 64 * v \in Int
      BY <1>3, <2>1
    <3>5. (k + h) * (2 * v + 1) * c = (2 * q + k * c) + (64 * v + 32)
      BY <2>3, <2>4, <3>2
    <3>6. (k + h) * (2 * v + 1) * c = (2 * q + k * c + 32) + 64 * v
      BY <2>1, <3>3, <3>4, <3>5
    <3> QED BY <2>1, <2>2, <2>3, <2>7, <3>1, <3>6
  <2> QED BY <1>3, <2>6, <2>7
<1> HIDE DEF q
<1>10. CASE I_ # B
  <2>1. 2 * I_ # 2 * B + b /\ 2 * I_ + 1 # 2 * B + b
    BY <1>2, <1>3, <1>10
  <2>2. z = 0
    BY <1>5, <1>8, <1>9, <2>1
  <2> QED BY <1>4, <1>5, <1>10, <2>1, <2>2 DEF h, c, k, R
<1>11. CASE I_ = B /\ b = 0
  <2>1. 2 * I_ = 2 * B + b /\ 2 * I_ + 1 # 2 * B + b
    BY <1>2, <1>3, <1>11
  <2>2. z = 0 /\ Part(i, h) = R(2 * q)
    BY <1>5, <1>8, <1>9, <2>1
  <2>3. Part(i, s) = R(2 * q) /\ Part(i + h, s) = R(2 * q + 64 * v)
    BY <1>4, <1>9, <1>11
  <2>4. R(2 * q) \in 0 .. 192 /\ R(2 * q + 64 * v) = R(2 * q)
    BY <1>3, <1>6, <1>7, <1>9
  <2>5. (R(2 * q) + 0) % 193 = R(2 * q) /\ (R(2 * q) - 0) % 193 = R(2 * q)
    BY <2>4
  <2> QED BY <2>2, <2>3, <2>4, <2>5 DEF h, c, k, R
<1>12. CASE I_ = B /\ b = 1
  <2>1. 2 * I_ # 2 * B + b /\ 2 * I_ + 1 = 2 * B + b
    BY <1>2, <1>3, <1>12
  <2>2. z = Transform!Times(R(k * c), R(2 * q)) /\ Part(i, h) = 0
    BY <1>5, <1>9, <2>1
  <2>3. z = R(2 * q + k * c)
    <3>1. k * c + 2 * q = 2 * q + k * c /\ 2 * q \in Int
      BY <1>9
    <3> QED BY <1>7, <1>9, <2>2, <3>1
  <2>4. /\ Part(i, s) = R(2 * q + k * c)
        /\ Part(i + h, s) = R((2 * q + k * c + 32) + 64 * v)
    BY <1>4, <1>9, <1>12
  <2>5. 2 * q + k * c \in Int /\ 2 * q + k * c + 32 \in Int
    BY <1>9
  <2>6. R((2 * q + k * c + 32) + 64 * v) = R(2 * q + k * c + 32)
    <3>1. v \in Int
      BY <1>3
    <3> QED BY <1>7, <2>5, <3>1, Zenon
  <2>7. /\ R(2 * q + k * c) \in 0 .. 192
        /\ (0 - R(2 * q + k * c)) % 193 = R(2 * q + k * c + 32)
    BY <1>6, <2>5
  <2>8. (0 + R(2 * q + k * c)) % 193 = R(2 * q + k * c)
    BY <2>7
  <2> QED BY <2>2, <2>3, <2>4, <2>6, <2>7, <2>8 DEF h, c, k, R
<1> QED BY <1>3, <1>10, <1>11, <1>12

-----------------------------------------------------------------------------
(* The stages of the transform. With wrong factors only the first element  *)
(* of each block counts.                                                   *)
Counts(i, s) == factor = 0 \/ i % s = 0
(* After the stage of a size all elements that count are as Partial says, *)
Through(s) == \A i \in 0 .. 63 : Counts(i, s) => X[i] = Part(i, s)
(* and within it those that the butterflies have come to.                  *)
Midway(s) ==
  \A i \in 0 .. 63 :
    IF i % (s \div 2) < j THEN Counts(i, s) => X[i] = Part(i, s)
    ELSE Counts(i, s \div 2) => X[i] = Part(i, s \div 2)
FftTyped ==
  /\ X \in [0 .. 63 -> 0 .. 192] /\ w \in 0 .. 192
  /\ m \in {1} \cup Sizes /\ j \in 0 .. m \div 2
  /\ stage \in {"called", "permuted", "butterflies", "scale", "done"}
  /\ callee \in {"fft_iq", "fft"} /\ inverse \in BOOLEAN
  /\ input \in 0 .. 63 /\ factor \in Int
(* The factor is the power of the root that belongs to the butterfly.      *)
FactorRight ==
  /\ j = 0 => w = 1
  /\ factor = 0 => w = Power(Turn(j * (64 \div m)))
FftInv ==
  /\ FftTyped
  /\ stage = "called" => m = 1 /\ X = [i \in 0 .. 63 |-> IF i = input THEN 1 ELSE 0]
  /\ stage \in {"permuted", "scale"} => Through(m)
  /\ stage = "butterflies" => m \in Sizes /\ FactorRight /\ Midway(m)
  /\ stage = "done" =>
       \A i \in 0 .. 63 : Counts(i, m) =>
         X[i] = IF inverse THEN Transform!Times(190, Part(i, m)) ELSE Part(i, m)

(* The root taken no times is 1. *)
LEMMA NoTurn == Power(Turn(0)) = 1
<1>1. Turn(0) = 0
  BY DEF Turn
<1> QED BY <1>1, PowerIs

(* The assumptions on the factors. *)
LEMMA FactorsAre == WrongFactors \subseteq Int
BY ComponentsAssumption DEF ComponentsAssumption

(* At first the array is a unit vector. *)
LEMMA FftInit == ASSUME Transform!Init PROVE FftInv
<1> USE DEF Transform!Init
<1>1. X = [i \in 0 .. 63 |-> IF i = input THEN 1 ELSE 0] /\ m = 1 /\ j = 0 /\ w = 1
  BY DEF Transform!Indices, Transform!N
<1>2. input \in 0 .. 63 /\ factor \in Int
  BY FactorsAre DEF Inputs
<1>3. FftTyped
  BY <1>1, <1>2 DEF FftTyped
<1>4. stage = "called"
  OBVIOUS
<1> QED BY <1>1, <1>3, <1>4 DEF FftInv

(* The permutation puts it where the reverse of its place is. *)
LEMMA PermuteKeeps == ASSUME FftInv, Transform!Permute PROVE FftInv'
<1>1. /\ stage = "called" /\ m = 1 /\ X = [i \in 0 .. 63 |-> IF i = input THEN 1 ELSE 0]
      /\ FftTyped /\ input \in 0 .. 63
  BY DEF FftInv, Transform!Permute, FftTyped
<1>2. /\ callee' = callee /\ inverse' = inverse /\ input' = input /\ factor' = factor
      /\ m' = m /\ j' = j /\ w' = w /\ stage' = "permuted"
  BY DEF Transform!Permute
<1>3. X' = [i \in 0 .. 63 |-> X[Transform!bitReverse(i, 6)]]
  <2>1. X' = [i \in 0 .. 63 |-> X[IF callee = "fft" THEN Transform!bitReverse(i, 6)
                                  ELSE Transform!bitReverseTable[i + 1]]]
    BY DEF Transform!Permute, Transform!Indices, Transform!N, Transform!log2N
  <2> QED BY <2>1, TableReverses, Zenon
<1>4. \A i \in 0 .. 63 : X'[i] = IF i = Transform!bitReverse(input, 6) THEN 1 ELSE 0
  <2> SUFFICES ASSUME NEW i \in 0 .. 63
               PROVE  X'[i] = IF i = Transform!bitReverse(input, 6) THEN 1 ELSE 0
    OBVIOUS
  <2>1. X'[i] = X[Transform!bitReverse(i, 6)] /\ Transform!bitReverse(i, 6) \in 0 .. 63
    BY <1>3, ReverseIs
  <2>2. X'[i] = IF Transform!bitReverse(i, 6) = input THEN 1 ELSE 0
    BY <1>1, <2>1
  <2>3. Transform!bitReverse(i, 6) = input <=> i = Transform!bitReverse(input, 6)
    BY <1>1, ReverseTwice, ReverseIs
  <2> QED BY <2>2, <2>3
<1>5. \A i \in 0 .. 63 : Part(i, 1) = IF i = Transform!bitReverse(input, 6) THEN 1 ELSE 0
  <2> SUFFICES ASSUME NEW i \in 0 .. 63
               PROVE  Part(i, 1) = IF i = Transform!bitReverse(input, 6) THEN 1 ELSE 0
    OBVIOUS
  <2> DEFINE y == Transform!bitReverse(input, 6)
  <2>1. y \in 0 .. 63
    BY <1>1, ReverseIs
  <2> HIDE DEF y
  <2>2. i \div 1 = i /\ y \div 1 = y
    BY <2>1
  <2>3. (i % 1) * (input \div (64 \div 1)) * (64 \div 1) = 0
    BY <1>1
  <2> QED BY <2>2, <2>3, NoTurn DEF Part, y
<1>6. Through(m)'
  <2>1. \A i \in 0 .. 63 : X'[i] = Part(i, 1)
    BY <1>4, <1>5
  <2>2. \A i : Part(i, 1)' = Part(i, 1)
    BY <1>2 DEF Part, Turn
  <2> QED BY <1>1, <1>2, <2>1, <2>2 DEF Through
<1>7. FftTyped'
  <2>1. \A i \in 0 .. 63 : X[Transform!bitReverse(i, 6)] \in 0 .. 192
    <3>1. X \in [0 .. 63 -> 0 .. 192]
      BY <1>1, Zenon DEF FftTyped
    <3>2. \A i \in 0 .. 63 : X[i] \in 0 .. 192
      BY <3>1
    <3> QED BY <3>2, ReverseIs, Zenon
  <2>2. X' \in [0 .. 63 -> 0 .. 192]
    BY <1>3, <2>1
  <2> QED BY <1>1, <1>2, <2>2 DEF FftTyped
<1> QED BY <1>2, <1>6, <1>7 DEF FftInv

(* What does not depend on the step. *)
LEMMA PartRests ==
  ASSUME input' = input, inverse' = inverse, factor' = factor
  PROVE  \A i, s : Part(i, s)' = Part(i, s) /\ Counts(i, s)' = Counts(i, s)
BY DEF Part, Turn, Counts

(* A stage begins where the one before ended. *)
LEMMA BeginKeeps == ASSUME FftInv, Transform!BeginStage PROVE FftInv'
<1>1. /\ m \in {1} \cup Sizes /\ m < 64 /\ stage = "permuted" /\ Through(m) /\ FftTyped
  BY DEF FftInv, Transform!BeginStage, Transform!N, FftTyped
<1>2. /\ callee' = callee /\ inverse' = inverse /\ input' = input /\ factor' = factor
      /\ m' = 2 * m /\ j' = 0 /\ w' = 1 /\ stage' = "butterflies" /\ X' = X
  BY DEF Transform!BeginStage, Transform!FirstW
<1>3. m' \in Sizes /\ m' \div 2 = m
  BY <1>1, <1>2 DEF Sizes
<1>4. Midway(m)'
  <2> SUFFICES ASSUME NEW i \in 0 .. 63
               PROVE  ~ (i % m < 0) /\ (Counts(i, m) => X[i] = Part(i, m))
    BY <1>2, <1>3, PartRests DEF Midway
  <2>1. m \in 1 .. 32
    BY <1>1 DEF Sizes
  <2> QED BY <1>1, <2>1 DEF Through
<1>5. FactorRight'
  <2>1. j' * (64 \div m') = 0
    <3>1. 64 \div m' \in Int
      BY <1>3 DEF Sizes
    <3> QED BY <1>2, <3>1
  <2>2. Turn(0)' = Turn(0)
    BY <1>2 DEF Turn
  <2> QED BY <1>2, <2>1, <2>2, NoTurn DEF FactorRight, Turn
<1>6. FftTyped'
  <2>1. m \in 1 .. 32
    BY <1>1 DEF Sizes
  <2>2. j' \in 0 .. m' \div 2 /\ w' \in 0 .. 192
    BY <1>2, <1>3, <2>1
  <2> QED BY <1>1, <1>2, <1>3, <2>2 DEF FftTyped
<1> QED BY <1>2, <1>3, <1>4, <1>5, <1>6 DEF FftInv

(* It ends with its last factor. *)
LEMMA EndKeeps == ASSUME FftInv, Transform!EndStage PROVE FftInv'
<1>1. m \in Sizes /\ j = m \div 2 /\ Midway(m) /\ FftTyped
  BY DEF FftInv, Transform!EndStage, Transform!m2
<1>2. /\ callee' = callee /\ inverse' = inverse /\ input' = input /\ factor' = factor
      /\ m' = m /\ j' = j /\ w' = w /\ stage' \in {"permuted", "scale"} /\ X' = X
  BY DEF Transform!EndStage
<1>3. Through(m)
  <2> SUFFICES ASSUME NEW i \in 0 .. 63, Counts(i, m) PROVE X[i] = Part(i, m)
    BY DEF Through
  <2>1. i % (m \div 2) < j
    BY <1>1, SizesAre
  <2> QED BY <1>1, <2>1 DEF Midway
<1>4. Through(m)'
  BY <1>2, <1>3, PartRests DEF Through
<1>5. FftTyped'
  BY <1>1, <1>2 DEF FftTyped
<1> QED BY <1>2, <1>4, <1>5 DEF FftInv

(* The inverse is scaled at last. *)
LEMMA ScaleKeeps == ASSUME FftInv, Transform!Scale PROVE FftInv'
<1>1. Through(m) /\ FftTyped
  BY DEF FftInv, Transform!Scale
<1>2. /\ callee' = callee /\ inverse' = inverse /\ input' = input /\ factor' = factor
      /\ m' = m /\ j' = j /\ w' = w /\ stage' = "done"
      /\ X' = IF inverse THEN [i \in 0 .. 63 |-> Transform!Times(190, X[i])] ELSE X
  BY DEF Transform!Scale, Transform!Unscale, Transform!Indices, Transform!N
<1>3. ASSUME NEW i \in 0 .. 63, Counts(i, m)
      PROVE  X'[i] = IF inverse THEN Transform!Times(190, Part(i, m)) ELSE Part(i, m)
  <2>1. X[i] = Part(i, m)
    BY <1>1, <1>3 DEF Through
  <2> QED BY <1>2, <2>1
<1>4. X' \in [0 .. 63 -> 0 .. 192]
  <2>1. \A i \in 0 .. 63 : Transform!Times(190, X[i]) \in 0 .. 192
    <3> SUFFICES ASSUME NEW i \in 0 .. 63 PROVE Transform!Times(190, X[i]) \in 0 .. 192
      OBVIOUS
    <3>1. X[i] \in 0 .. 192
      <4>1. X \in [0 .. 63 -> 0 .. 192]
        BY <1>1, Zenon DEF FftTyped
      <4> QED BY <4>1, ZenonT(60)
    <3>2. X[i] \in Int /\ 190 \in Int
      BY <3>1
    <3> QED BY <3>2, TimesIs, Zenon
  <2> QED BY <1>1, <1>2, <2>1 DEF FftTyped
<1>5. FftTyped'
  BY <1>1, <1>2, <1>4 DEF FftTyped
<1> QED BY <1>2, <1>3, <1>5, PartRests DEF FftInv

-----------------------------------------------------------------------------
(* The two indices of a butterfly. *)
LEMMA PairOf ==
  ASSUME NEW s \in Sizes, NEW i \in 0 .. 63, NEW k \in 0 .. (s \div 2) - 1
  PROVE  /\ i % (s \div 2) = k <=> i % s = k \/ i % s = k + s \div 2
         /\ i % s = k + s \div 2 => i - s \div 2 \in 0 .. 63 /\ (i - s \div 2) % s = k
         /\ i % s = k => i + s \div 2 \in 0 .. 63
<1>1. CASE s = 2
  BY <1>1
<1>2. CASE s = 4
  BY <1>2
<1>3. CASE s = 8
  BY <1>3
<1>4. CASE s = 16
  BY <1>4
<1>5. CASE s = 32
  BY <1>5
<1>6. CASE s = 64
  BY <1>6
<1> QED BY <1>1, <1>2, <1>3, <1>4, <1>5, <1>6 DEF Sizes

(* The upper element of a butterfly is taken with its factor. *)
LEMMA UpperTurned ==
  ASSUME FftTyped, FactorRight, Midway(m), m \in Sizes, j < m \div 2,
         NEW i \in 0 .. 63, i % m = j, Counts(i, m)
  PROVE  /\ X[i] = Part(i, m \div 2)
         /\ Transform!Times(w, X[i + m \div 2])
              = Transform!Times(Power(Turn((i % m) * (64 \div m))),
                                Part(i + m \div 2, m \div 2))
<1> DEFINE h == m \div 2
<1>1. /\ h \in 1 .. 32 /\ i + h \in 0 .. 63 /\ i % h = j /\ (i + h) % h = j
  BY SizesAre, IndexHalves
<1>2. factor # 0 => j = 0
  BY DEF Counts
<1>3. Counts(i, h) /\ Counts(i + h, h)
  BY <1>1, <1>2 DEF Counts
<1>4. j \in Int /\ ~ (i % h < j) /\ ~ ((i + h) % h < j)
  <2>1. j \in 0 .. h
    BY Zenon DEF FftTyped
  <2> HIDE DEF h
  <2> QED BY <1>1, <2>1
<1>5. X[i] = Part(i, h) /\ X[i + h] = Part(i + h, h)
  BY <1>1, <1>3, <1>4, Zenon DEF Midway
<1>6. w = Power(Turn(j * (64 \div m)))
  <2>1. CASE factor = 0
    BY <2>1 DEF FactorRight
  <2>2. CASE j = 0
    <3>1. j * (64 \div m) = 0
      BY <2>2, SizesAre
    <3> QED BY <2>2, <3>1, NoTurn DEF FactorRight
  <2> QED BY <1>2, <2>1, <2>2
<1> QED BY <1>5, <1>6

(* The butterflies of one factor bring two elements of every block on. *)
LEMMA ButterfliesKeep == ASSUME FftInv, Transform!Butterflies PROVE FftInv'
<1> DEFINE h == m \div 2
<1>1. /\ m \in Sizes /\ j < m \div 2 /\ FactorRight /\ Midway(m) /\ FftTyped /\ input \in 0 .. 63
  BY DEF FftInv, FftTyped, Transform!Butterflies, Transform!m2
<1>2. /\ callee' = callee /\ inverse' = inverse /\ input' = input /\ factor' = factor
      /\ m' = m /\ j' = j + 1 /\ w' = Transform!Times(w, Transform!wm)
      /\ stage' = "butterflies"
  BY DEF Transform!Butterflies, FftInv
<1>3. X' = [i \in 0 .. 63 |->
              CASE i % m = j -> (X[i] + Transform!Times(w, X[i + h])) % 193
                [] i % m = j + h -> (X[i - h] - Transform!Times(w, X[i])) % 193
                [] OTHER -> X[i]]
  BY DEF Transform!Butterflies, Transform!Indices, Transform!N, Transform!P, Transform!m2
<1>4. h \in 1 .. 32 /\ m = 2 * h /\ 64 \div m \in 1 .. 32 /\ j \in 0 .. h - 1 /\ w \in 0 .. 192
  <2>1. j \in 0 .. h /\ w \in 0 .. 192
    BY <1>1, Zenon DEF FftTyped
  <2>2. h \in 1 .. 32 /\ m = 2 * h /\ 64 \div m \in 1 .. 32 /\ j < h
    BY <1>1, SizesAre
  <2> HIDE DEF h
  <2> QED BY <2>1, <2>2
<1> DEFINE c == 64 \div m
           z(i) == Transform!Times(Power(Turn((i % m) * c)), Part(i + h, h))
<1>5. ASSUME NEW i \in 0 .. 63
      PROVE  /\ i % h = j <=> i % m = j \/ i % m = j + h
             /\ i % m = j + h => i - h \in 0 .. 63 /\ (i - h) % m = j
             /\ i % m = j => i + h \in 0 .. 63
  BY <1>1, <1>4, PairOf
<1>6. ASSUME NEW i \in 0 .. 63, i % m = j
      PROVE  /\ Part(i, m) = (Part(i, h) + z(i)) % 193
             /\ Part(i + h, m) = (Part(i, h) - z(i)) % 193
             /\ Counts(i, m) => X[i] = Part(i, h) /\ Transform!Times(w, X[i + h]) = z(i)
  <2>1. i % m < h
    BY <1>1, <1>6
  <2>2. /\ Part(i, m) = (Part(i, h) + z(i)) % 193
        /\ Part(i + h, m) = (Part(i, h) - z(i)) % 193
    BY <1>1, <2>1, PartsMeet
  <2>3. Counts(i, m) => X[i] = Part(i, h) /\ Transform!Times(w, X[i + h]) = z(i)
    BY <1>1, <1>6, UpperTurned
  <2> QED BY <2>2, <2>3
<1>7. \A i \in 0 .. 63 : IF i % h < j THEN Counts(i, m) => X[i] = Part(i, m)
                         ELSE Counts(i, h) => X[i] = Part(i, h)
  BY <1>1 DEF Midway
<1> HIDE DEF h, c, z
<1>8. ASSUME NEW i \in 0 .. 63
      PROVE  /\ i % m = j => X'[i] = (X[i] + Transform!Times(w, X[i + h])) % 193
             /\ i % m = j + h => X'[i] = (X[i - h] - Transform!Times(w, X[i])) % 193
             /\ i % m # j /\ i % m # j + h => X'[i] = X[i]
  <2>1. j # j + h
    BY <1>4
  <2> QED BY <1>3, <2>1
<1>9. ASSUME NEW i \in 0 .. 63, i % h < j + 1, Counts(i, m) PROVE X'[i] = Part(i, m)
  <2>1. CASE i % m = j
    BY <1>6, <1>8, <1>9, <2>1
  <2>2. CASE i % m = j + h
    <3> DEFINE k == i - h
    <3>1. k \in 0 .. 63 /\ k % m = j /\ k + h = i
      <4>1. i - h \in 0 .. 63 /\ (i - h) % m = j
        BY <1>5, <2>2, Zenon
      <4>2. (i - h) + h = i
        BY <1>4
      <4> QED BY <4>1, <4>2
    <3>2. X'[i] = (X[k] - Transform!Times(w, X[i])) % 193
      BY <1>8, <2>2
    <3>3. Counts(k, m)
      BY <1>4, <1>9, <2>2, <3>1 DEF Counts
    <3> HIDE DEF k
    <3> QED BY <1>6, <3>1, <3>2, <3>3
  <2>3. CASE i % m # j /\ i % m # j + h
    <3>1. i % h # j
      BY <1>5, <2>3
    <3>2. i % h \in Int
      BY <1>4
    <3>3. i % h < j
      BY <1>4, <1>9, <3>1, <3>2
    <3> QED BY <1>7, <1>8, <1>9, <2>3, <3>3
  <2> QED BY <2>1, <2>2, <2>3
<1>10. ASSUME NEW i \in 0 .. 63, ~ (i % h < j + 1), Counts(i, h) PROVE X'[i] = Part(i, h)
  <2>1. i % h \in Int
    BY <1>4
  <2>2. i % h # j /\ ~ (i % h < j)
    BY <1>4, <1>10, <2>1
  <2>3. i % m # j /\ i % m # j + h
    BY <1>5, <2>2
  <2> QED BY <1>7, <1>8, <1>10, <2>2, <2>3
<1>11. Midway(m)'
  BY <1>2, <1>9, <1>10, PartRests DEF Midway, h
<1>12. Transform!wm \in Int /\ (factor = 0 => Transform!wm = Power(Turn(c)))
  <2>1. CASE factor # 0
    BY <1>1, <2>1 DEF Transform!wm, Transform!Factor, FftTyped
  <2>2. CASE factor = 0
    <3>1. Transform!wm = Power((IF inverse THEN c ELSE 64 - c) % 64)
      BY <2>2 DEF Transform!wm, Transform!Factor, Transform!N, c, Power
    <3>2. c \in Int
      BY <1>4 DEF c
    <3>3. (IF inverse THEN c ELSE 64 - c) % 64 = Turn(c)
      BY <3>2 DEF Turn
    <3>4. Turn(c) \in 0 .. 63
      BY <3>2, TurnIs
    <3>5. Power(Turn(c)) \in 0 .. 192
      BY <3>4, PowerType, Zenon
    <3> QED BY <3>1, <3>3, <3>5
  <2> QED BY <2>1, <2>2
<1>13. FactorRight'
  <2>1. j' # 0
    BY <1>2, <1>4
  <2>2. c \in Int /\ j \in Int /\ j * c \in Int /\ (j + 1) * c = j * c + c
    BY <1>4 DEF c
  <2>3. ASSUME factor = 0 PROVE w' = Power(Turn((j + 1) * c))
    <3>1. w = Power(Turn(j * c))
      BY <1>1, <2>3 DEF FactorRight, c
    <3>2. Transform!Times(w, Transform!wm) = Power(Turn(j * c + c))
      <4> DEFINE a == Turn(j * c)  b == Turn(c)
      <4>1. a \in 0 .. 63 /\ b \in 0 .. 63 /\ (a + b) % 64 = Turn(j * c + c)
        BY <2>2, TurnIs
      <4>2. w = Power(a) /\ Transform!wm = Power(b)
        BY <1>12, <2>3, <3>1
      <4> HIDE DEF a, b
      <4>3. Transform!Times(Power(a), Power(b))
              = Power((a + b) % 64)
        BY <4>1, PowersMultiply, Zenon
      <4> QED BY <4>1, <4>2, <4>3
    <3> QED BY <1>2, <2>2, <3>2
  <2>4. Turn(j * (64 \div m))' = Turn((j + 1) * c)
    BY <1>2 DEF Turn, c
  <2> QED BY <1>2, <2>1, <2>3, <2>4 DEF FactorRight
<1>14. FftTyped'
  <2>1. ASSUME NEW x \in 0 .. 192, NEW y \in 0 .. 192
        PROVE  /\ (x + Transform!Times(w, y)) % 193 \in 0 .. 192
               /\ (x - Transform!Times(w, y)) % 193 \in 0 .. 192
    <3>1. w \in Int /\ y \in Int
      BY <1>4
    <3>2. Transform!Times(w, y) \in 0 .. 192
      BY <3>1, TimesIs, Zenon
    <3> DEFINE a == Transform!Times(w, y)
    <3> HIDE DEF a
    <3>3. x + a \in Int /\ x - a \in Int
      BY <3>2 DEF a
    <3>4. \A b \in Int : b % 193 \in 0 .. 192
      OBVIOUS
    <3> QED BY <3>3, <3>4 DEF a
  <2>2. \A i \in 0 .. 63 : X[i] \in 0 .. 192
    BY <1>1 DEF FftTyped
  <2>3. ASSUME NEW i \in 0 .. 63 PROVE X'[i] \in 0 .. 192
    <3>1. CASE i % m = j
      <4>1. X[i] \in 0 .. 192 /\ X[i + h] \in 0 .. 192
        BY <1>5, <2>2, <3>1
      <4>2. X'[i] = (X[i] + Transform!Times(w, X[i + h])) % 193
        BY <1>8, <3>1
      <4>3. (X[i] + Transform!Times(w, X[i + h])) % 193 \in 0 .. 192
        BY <2>1, <4>1, Zenon
      <4> QED BY <4>2, <4>3
    <3>2. CASE i % m = j + h
      <4>1. X[i] \in 0 .. 192 /\ X[i - h] \in 0 .. 192
        BY <1>5, <2>2, <3>2
      <4>2. X'[i] = (X[i - h] - Transform!Times(w, X[i])) % 193
        BY <1>8, <3>2
      <4>3. (X[i - h] - Transform!Times(w, X[i])) % 193 \in 0 .. 192
        BY <2>1, <4>1, ZenonT(60)
      <4> QED BY <4>2, <4>3
    <3>3. CASE i % m # j /\ i % m # j + h
      BY <1>8, <2>2, <3>3
    <3> QED BY <3>1, <3>2, <3>3
  <2>4. X' \in [0 .. 63 -> 0 .. 192]
    BY <1>3, <2>3
  <2>5. w' \in 0 .. 192
    <3>1. w \in Int
      BY <1>4
    <3> QED BY <1>2, <1>12, <3>1, TimesIs, Zenon
  <2>6. j' \in 0 .. m' \div 2 /\ m' \in {1} \cup Sizes
    BY <1>1, <1>2, <1>4 DEF h
  <2> QED BY <1>1, <1>2, <2>4, <2>5, <2>6 DEF FftTyped
<1> QED BY <1>1, <1>2, <1>11, <1>13, <1>14 DEF FftInv

(* Every step keeps the stages. *)
LEMMA FftSteps == ASSUME FftInv, [Next]_vars PROVE FftInv'
<1>1. CASE TransformStep
  <2>1. Transform!Next
    BY <1>1 DEF TransformStep
  <2> QED
    BY <2>1, PermuteKeeps, BeginKeeps, ButterfliesKeep, EndKeeps, ScaleKeeps, Zenon DEF Transform!Next
<1>2. CASE UNCHANGED fft_vars
  <2>1. UNCHANGED <<callee, X, inverse, input, factor, m, j, w, stage>>
    BY <1>2 DEF fft_vars
  <2>2. FftTyped'
    BY <2>1 DEF FftInv, FftTyped
  <2>3. /\ (Through(m) => Through(m)') /\ (FactorRight => FactorRight')
        /\ (Midway(m) => Midway(m)')
    BY <2>1, PartRests DEF Through, Midway, FactorRight, Turn
  <2> QED BY <2>1, <2>2, <2>3, PartRests DEF FftInv
<1> QED
  BY <1>1, <1>2 DEF Next, vars, StartStep, PingStep, EvalStep, RadarStep, PresenceStep,
                    GainStep, HostStep

(* So it holds always. *)
LEMMA FftInvariant == Spec => []FftInv
<1>1. Init => FftInv
  BY FftInit DEF Init
<1>2. FftInv /\ [Next]_vars => FftInv'
  BY FftSteps
<1> QED
  BY <1>1, <1>2, PTL DEF Spec

(* What the property says of an element. *)
LEMMA PartialIs ==
  ASSUME FftTyped, NEW i \in 0 .. 63 PROVE Transform!Partial(i) = Part(i, m)
<1>1. Transform!N * Transform!N = 4096 /\ Transform!N = 64 /\ Transform!log2N = 6
  BY DEF Transform!N, Transform!log2N
<1> QED BY <1>1 DEF Transform!Partial, Part, Turn, Power

(* The transform ends with the discrete Fourier transform of its input, or *)
(* the inverse one, and with any other factors with its first element.     *)
THEOREM TransformIsRight == Spec => []Transformed
<1>1. FftInv => Transformed
  <2> SUFFICES ASSUME FftInv, stage \in {"permuted", "scale", "done"}, NEW i \in 0 .. 63,
                      factor = 0 \/ i % m = 0
               PROVE  X[i] = IF stage = "done" /\ inverse
                             THEN Transform!Times(190, Transform!Partial(i)) ELSE Transform!Partial(i)
    BY DEF Transformed, Transform!Transformed, Transform!Indices, Transform!N, Transform!Unscale
  <2>1. Transform!Partial(i) = Part(i, m) /\ Counts(i, m)
    BY PartialIs DEF FftInv, Counts
  <2>2. CASE stage = "done"
    BY <2>1, <2>2 DEF FftInv
  <2>3. CASE stage \in {"permuted", "scale"}
    BY <2>1, <2>3 DEF FftInv, Through
  <2> QED BY <2>2, <2>3
<1> QED
  BY <1>1, FftInvariant, PTL
=============================================================================
