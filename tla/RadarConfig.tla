---------------------------- MODULE RadarConfig ----------------------------
(***************************************************************************)
(* The radar's configuration in console_test                               *)
(* (examples/esp-radar/console_test/main/app_main.c, radar_evaluate.c,     *)
(* components/esp-radar/include/esp_radar.h). The library offers a get and *)
(* a set of the whole record; app_main, the console task, a sender task    *)
(* per connection and the evaluation server each get it, change a field of *)
(* their copy and set it, without a lock, so an update can be written over *)
(* by a task that got the record before it.                                *)
(***************************************************************************)
EXTENDS Naturals

CONSTANTS
  Intervals,    \* values of g_send_data_interval, the initial 10 among them
  NullData,     \* WIFI_CSI_SEND_NULL_DATA_ENABLE
  MaxCommands,  \* bound: radar commands
  MaxConnects   \* bound: addresses obtained, and clients of the server

VARIABLES
  config,       \* the configuration, as the library holds it
  g_send_data_interval,
  tasks,        \* per task, where it is, its copy, the fields it changed, and
                \* where it goes when it has set them
  wanted,       \* history: per field, the value that was last set on purpose
  overlapped,   \* history: per task, fields others set since it got the record
  overwritten,  \* history: fields written back by a task that they overlapped
  commands_left, connects, clients

config_vars == <<config, g_send_data_interval, tasks, wanted, overlapped, overwritten>>
vars == <<config_vars, commands_left, connects, clients>>

-----------------------------------------------------------------------------
(* wifi_radar_config_t and WIFI_RADAR_CONFIG_DEFAULT, without what nobody  *)
(* changes. A MAC filter is "any", "example" (1a:00:00:00:00:00), "zero",  *)
(* "station" or the access point's.                                        *)
WIFI_RADAR_CONFIG_DEFAULT ==
  [filter_mac |-> "any", filter_dmac |-> "any", wifi_radar_cb |-> FALSE,
   wifi_radar_cb_ctx |-> FALSE, wifi_csi_filtered_cb |-> FALSE, csi_recv_interval |-> 10,
   shift |-> 4, channel_filter_en |-> 0, dump_ack_en |-> FALSE]
Fields == DOMAIN WIFI_RADAR_CONFIG_DEFAULT
Zeroed == [WIFI_RADAR_CONFIG_DEFAULT EXCEPT !.filter_mac = "zero", !.filter_dmac = "zero",
                                            !.csi_recv_interval = 0, !.shift = 0]

Senders == 1 .. MaxConnects
app_main == <<"app_main", 0>>
console == <<"console", 0>>
server == <<"server", 0>>
sender(n) == <<"sender", n>>
Tasks == {app_main, console, server} \union {sender(n) : n \in Senders}

(* The server keeps its copy while it serves a client, the others drop it. *)
NoCopy == [at |-> "idle", copy |-> Zeroed, changed |-> {}, then |-> "done"]

Init ==
  /\ config = Zeroed /\ wanted = Zeroed
  /\ g_send_data_interval = 10
  /\ tasks = [t \in Tasks |-> NoCopy]
  /\ overlapped = [t \in Tasks |-> {}] /\ overwritten = {}
  /\ commands_left = MaxCommands /\ connects = 0 /\ clients = 0

-----------------------------------------------------------------------------
(* The three steps of an update: the record is got; fields of the copy are *)
(* changed; the copy is set.                                               *)
Get(t, from, then) ==
  /\ tasks[t].at = from
  /\ tasks' = [tasks EXCEPT ![t] = [at |-> "got", copy |-> config, changed |-> {}, then |-> then]]
  /\ overlapped' = [overlapped EXCEPT ![t] = {}]
  /\ UNCHANGED <<config, g_send_data_interval, wanted, overwritten>>

Change(t, from, values) ==
  /\ tasks[t].at = from
  /\ tasks' = [tasks EXCEPT ![t].at = "filled", ![t].changed = DOMAIN values,
       ![t].copy = [f \in Fields |-> IF f \in DOMAIN values THEN values[f] ELSE @[f]]]
  /\ UNCHANGED <<config, g_send_data_interval, wanted, overlapped, overwritten>>

Set(t) ==
  LET mine == tasks[t] IN
  /\ mine.at = "filled"
  /\ config' = mine.copy
  /\ wanted' = [f \in Fields |-> IF f \in mine.changed THEN mine.copy[f] ELSE wanted[f]]
  /\ tasks' = [tasks EXCEPT ![t] = IF @.then = "serving" THEN [@ EXCEPT !.at = "serving"]
                                   ELSE [NoCopy EXCEPT !.at = mine.then]]
  /\ overlapped' = [u \in Tasks |->
       IF u # t /\ tasks[u].at \in {"got", "filled"} THEN overlapped[u] \union mine.changed ELSE {}]
  /\ overwritten' = (overwritten \union overlapped[t]) \ mine.changed
  /\ UNCHANGED g_send_data_interval

-----------------------------------------------------------------------------
(* app_main, after esp_radar_init: it does not get the record, which it    *)
(* replaces, with the console task running.                                *)
Main ==
  /\ \/ Change(app_main, "idle",
          [WIFI_RADAR_CONFIG_DEFAULT EXCEPT !.wifi_radar_cb = TRUE, !.filter_mac = "example",
             !.csi_recv_interval = g_send_data_interval, !.dump_ack_en = NullData])
     \/ Set(app_main)
  /\ UNCHANGED <<commands_left, connects, clients>>

(* wifi_cmd_radar: --csi_output_type, --scale_shift, --channel_filter. A   *)
(* command with several of them is several in a row.                       *)
Output == \E on \in BOOLEAN : Change(console, "got", [wifi_csi_filtered_cb |-> on])
Shift == Change(console, "got", [shift |-> 15])
ChannelFilter == Change(console, "got", [channel_filter_en |-> 1])
RadarCommand ==
  \/ /\ commands_left > 0 /\ commands_left' = commands_left - 1
     /\ Get(console, "idle", "idle")
     /\ UNCHANGED <<connects, clients>>
  \/ /\ Output \/ Shift \/ ChannelFilter \/ Set(console)
     /\ UNCHANGED <<commands_left, connects, clients>>

(* --send_data_interval: only the next sender task tells the radar. *)
SendDataInterval ==
  /\ tasks[console].at = "idle" /\ commands_left > 0
  /\ g_send_data_interval' \in Intervals
  /\ commands_left' = commands_left - 1
  /\ UNCHANGED <<config, tasks, wanted, overlapped, overwritten, connects, clients>>

(* wifi_event_handler: an address makes a task; trigger_router_send_data_  *)
(* task tells the radar whom to listen to and how often.                   *)
GotIp ==
  /\ connects < MaxConnects
  /\ connects' = connects + 1
  /\ tasks' = [tasks EXCEPT ![sender(connects + 1)].at = "made"]
  /\ UNCHANGED <<config, g_send_data_interval, wanted, overlapped, overwritten,
                 commands_left, clients>>
trigger_router_send_data_task(n) ==
  /\ \/ Get(sender(n), "made", "done")
     \/ Change(sender(n), "got",
          [csi_recv_interval |-> g_send_data_interval, filter_dmac |-> "station",
           filter_mac |-> IF NullData THEN "zero" ELSE "access point"])
     \/ Set(sender(n))
  /\ UNCHANGED <<commands_left, connects, clients>>

(* tcp_server_task: a client's data carry its timestamps, until it is gone *)
(* and the record, got anew, goes without. The variant does not get it     *)
(* anew.                                                                   *)
ClientComes ==
  /\ clients < MaxConnects
  /\ clients' = clients + 1
  /\ Get(server, "idle", "serving")
ReleaseOldCopy ==
  /\ tasks[server].at = "serving"
  /\ tasks' = [tasks EXCEPT ![server].at = "got", ![server].then = "idle"]
  /\ overlapped' = [overlapped EXCEPT ![server] = {}]
  /\ UNCHANGED <<config, g_send_data_interval, wanted, overwritten, clients>>
ClientGoes ==
  /\ Get(server, "serving", "idle")
  /\ UNCHANGED clients
ServerSets ==
  /\ \/ Change(server, "got", [wifi_radar_cb_ctx |-> tasks[server].then = "serving"])
     \/ Set(server)
  /\ UNCHANGED clients
tcp_server_task ==
  /\ ClientComes \/ ClientGoes \/ ServerSets
  /\ UNCHANGED <<commands_left, connects>>

Next ==
  \/ Main \/ RadarCommand \/ SendDataInterval \/ GotIp \/ tcp_server_task
  \/ \E n \in Senders : trigger_router_send_data_task(n)

-----------------------------------------------------------------------------
TypeOK ==
  /\ DOMAIN config = Fields /\ DOMAIN wanted = Fields
  /\ g_send_data_interval \in Intervals
  /\ \A t \in Tasks : tasks[t].at \in {"idle", "made", "got", "filled", "serving", "done"}

(* Every field has the value that was last set on purpose, unless it was   *)
(* set between the get and the set of another task, which wrote the old    *)
(* value back.                                                             *)
UpdatesKept == \A f \in Fields \ overwritten : config[f] = wanted[f]
=============================================================================
