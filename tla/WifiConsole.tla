----------------------------- MODULE WifiConsole -----------------------------
(***************************************************************************)
(* The station of the console_test example: wifi_config and wifi_scan      *)
(* (components/commands/src/wifi_cmd.c), run by the console task; the two  *)
(* wifi_event_handlers (there and in main/app_main.c), run one after the   *)
(* other by the event task; and trigger_router_send_data_task, of which    *)
(* main's handler makes one per address obtained. They share s_reconnect,  *)
(* the event group and g_wifi_connect_status without a lock, so console    *)
(* and handler are sequences of steps. The Wi-Fi driver is external: it    *)
(* associates and gets an address in its own time, fails and drops, and    *)
(* posts events.                                                           *)
(***************************************************************************)
EXTENDS Naturals, Sequences

CONSTANTS
  Nets,       \* SSIDs a user may type
  None,       \* no SSID
  MaxCmds,    \* bound: commands
  MaxFaults,  \* bound: associations that fail and connections that drop
  MaxTries    \* retry_count of wifi_scan (20)

ASSUME WifiAssumption ==
  None \notin Nets /\ MaxCmds \in Nat /\ MaxFaults \in Nat
  /\ MaxTries \in Nat \ {0}

VARIABLES
  wifi, net,       \* driver: state of the station, network it is on or trying
  conf,            \* driver: configured network
  events,          \* the default event loop's queue
  s_reconnect,
  connected, disconnected,   \* the two bits of s_wifi_event_group
  g_wifi_connect_status,
  senders,         \* sender tasks that run
  handler,         \* where the event task is
  console, ssid, tries,   \* where the console task is, the network of its
                          \* wifi_config, the tries of its wifi_scan
  cmds, faults,    \* bounds
  asked,           \* history: network the commands ask for, None after --disconnect
  unnamed,         \* history: no SSID was typed since --disconnect
  disturbed,       \* history: the last command met a station in transition
  aborted          \* history: an ESP_ERROR_CHECK failed

driver  == <<wifi, net, conf>>
bits    == <<connected, disconnected>>
tasks   == <<g_wifi_connect_status, senders>>
command == <<console, ssid, tries>>
past    == <<cmds, asked, unnamed, disturbed, aborted>>
vars == <<driver, events, s_reconnect, bits, tasks, handler, command, faults, past>>

-----------------------------------------------------------------------------
(* The driver. esp_wifi_connect acts on an idle station only,              *)
(* esp_wifi_disconnect on any other and posts the event;                   *)
(* esp_wifi_set_config is refused while the station is associating.        *)
Connect ==
  /\ wifi' = IF wifi = "idle" THEN "connecting" ELSE wifi
  /\ net' = IF wifi = "idle" THEN conf ELSE net

Down == /\ wifi # "idle" /\ wifi' = "idle"
        /\ events' = Append(events, "DISCONNECTED")

Disconnect == \/ Down
              \/ wifi = "idle" /\ UNCHANGED <<wifi, events>>

Associate ==
  /\ wifi = "connecting" /\ wifi' = "associated"
  /\ UNCHANGED <<net, conf, events, s_reconnect, bits, tasks, handler, command, faults, past>>

GotIp ==
  /\ wifi = "associated" /\ wifi' = "up"
  /\ events' = Append(events, "GOT_IP")
  /\ UNCHANGED <<net, conf, s_reconnect, bits, tasks, handler, command, faults, past>>

Fault ==
  /\ faults < MaxFaults /\ faults' = faults + 1
  /\ Down
  /\ UNCHANGED <<net, conf, s_reconnect, bits, tasks, handler, command, past>>

Init ==
  /\ wifi = "idle" /\ net = None /\ conf = None /\ events = <<>>
  /\ s_reconnect = TRUE /\ connected = FALSE /\ disconnected = FALSE
  /\ g_wifi_connect_status = FALSE /\ senders = 0
  /\ handler = "idle" /\ console = "idle" /\ ssid = None /\ tries = 0
  /\ cmds = 0 /\ faults = 0 /\ asked = None /\ unnamed = FALSE
  /\ disturbed = FALSE /\ aborted = FALSE

-----------------------------------------------------------------------------
(* The event task. For GOT_IP main's handler runs first, for DISCONNECTED  *)
(* the one of wifi_cmd.                                                    *)
Handle ==
  /\ handler = "idle" /\ events # <<>>
  /\ handler' = Head(events) /\ events' = Tail(events)
  /\ UNCHANGED <<driver, s_reconnect, bits, tasks, command, faults, past>>

(* main's wifi_event_handler; the variant makes the sender task first. *)
TaskFirst ==
  \/ handler = "GOT_IP" /\ senders' = senders + 1 /\ handler' = "create"
       /\ UNCHANGED g_wifi_connect_status
  \/ handler = "create" /\ g_wifi_connect_status' = TRUE /\ handler' = "clear_down"
       /\ UNCHANGED senders
StatusFirst ==
  \/ handler = "GOT_IP" /\ g_wifi_connect_status' = TRUE /\ handler' = "create"
       /\ UNCHANGED senders
  \/ handler = "create" /\ senders' = senders + 1 /\ handler' = "clear_down"
       /\ UNCHANGED g_wifi_connect_status
StartSender ==
  /\ StatusFirst
  /\ UNCHANGED <<driver, events, s_reconnect, bits, command, faults, past>>

(* wifi_cmd's wifi_event_handler *)
ClearDown ==
  /\ handler = "clear_down"
  /\ disconnected' = FALSE /\ handler' = "set_up"
  /\ UNCHANGED <<driver, events, s_reconnect, connected, tasks, command, faults, past>>

SetUp ==
  /\ handler = "set_up"
  /\ connected' = TRUE /\ handler' = "idle"
  /\ UNCHANGED <<driver, events, s_reconnect, disconnected, tasks, command, faults, past>>

ReadReconnect ==
  /\ handler = "DISCONNECTED"
  /\ handler' = IF s_reconnect THEN "reconnect" ELSE "clear_up"
  /\ UNCHANGED <<driver, events, s_reconnect, bits, tasks, command, faults, past>>

Reconnect ==
  /\ handler = "reconnect"
  /\ Connect /\ handler' = "clear_up"
  /\ UNCHANGED <<conf, events, s_reconnect, bits, tasks, command, faults, past>>

ClearUp ==
  /\ handler = "clear_up"
  /\ connected' = FALSE /\ handler' = "set_down"
  /\ UNCHANGED <<driver, events, s_reconnect, disconnected, tasks, command, faults, past>>

(* Setting the bit wakes a console that waits for it; the variant does not *)
(* set it.                                                                 *)
NoDown == UNCHANGED <<disconnected, console>>
Wake ==
  /\ disconnected' = TRUE
  /\ console' = IF console = "blocked" THEN "resume" ELSE console
SetDown ==
  /\ handler = "set_down"
  /\ Wake /\ handler' = "status"
  /\ UNCHANGED <<driver, events, s_reconnect, connected, tasks, ssid, tries, faults, past>>

(* main's wifi_event_handler, and the variant without its assignment *)
StatusKept == g_wifi_connect_status
StatusCleared == FALSE
ClearStatus ==
  /\ handler = "status"
  /\ g_wifi_connect_status' = StatusCleared /\ handler' = "idle"
  /\ UNCHANGED <<driver, events, s_reconnect, bits, senders, command, faults, past>>

Handler ==
  \/ Handle \/ StartSender \/ ClearDown \/ SetUp
  \/ ReadReconnect \/ Reconnect \/ ClearUp \/ SetDown \/ ClearStatus

(* A sender task loops while the status is set: of its two bodies the one  *)
(* that WIFI_CSI_SEND_NULL_DATA_ENABLE of esp_radar.h, which is 1, selects.*)
SenderEnds ==
  /\ senders > 0 /\ ~g_wifi_connect_status
  /\ senders' = senders - 1
  /\ UNCHANGED <<driver, events, s_reconnect, bits, g_wifi_connect_status, handler,
                 command, faults, past>>

-----------------------------------------------------------------------------
Pending == handler # "idle" \/ events # <<>>

(* wifi_config: without --ssid it goes on with the configured network; on  *)
(* a board with none, it only prints or sets what else was asked.          *)
Named(n)  == n \in Nets /\ unnamed' = FALSE
Stored(n) == n = conf /\ n # None /\ UNCHANGED unnamed
Config ==
  /\ console = "idle" /\ cmds < MaxCmds /\ cmds' = cmds + 1
  /\ \E n \in Nets : (Named(n) \/ Stored(n)) /\ ssid' = n /\ asked' = n
  /\ console' = "look"
  /\ UNCHANGED <<driver, events, s_reconnect, bits, tasks, handler, tries, faults,
                 disturbed, aborted>>

Look ==
  /\ console = "look"
  /\ console' = IF connected THEN "hold" ELSE "resume"
  /\ disturbed' = (Pending \/ wifi \notin {"idle", "up"})
  /\ UNCHANGED <<driver, events, s_reconnect, bits, tasks, handler, ssid, tries, faults,
                 cmds, asked, unnamed, aborted>>

Hold ==
  /\ console = "hold"
  /\ s_reconnect' = FALSE /\ console' = "forget"
  /\ UNCHANGED <<driver, events, bits, tasks, handler, ssid, tries, faults, past>>

Forget ==
  /\ console = "forget"
  /\ connected' = FALSE /\ console' = "leave"
  /\ UNCHANGED <<driver, events, s_reconnect, disconnected, tasks, handler, ssid, tries, faults, past>>

Leave ==
  /\ console = "leave"
  /\ Disconnect /\ console' = "wait_down"
  /\ disturbed' = (disturbed \/ Pending \/ wifi # "up")
  /\ UNCHANGED <<net, conf, s_reconnect, bits, tasks, handler, ssid, tries, faults,
                 cmds, asked, unnamed, aborted>>

(* The wait, without a timeout; the variant does not wait. *)
NoWait == TRUE
DownBit == disconnected
WaitDown ==
  /\ console = "wait_down"
  /\ console' = IF DownBit THEN "resume" ELSE "blocked"
  /\ UNCHANGED <<driver, events, s_reconnect, bits, tasks, handler, ssid, tries, faults, past>>

(* The variant forgets what --disconnect and Hold have switched off. *)
StillHeld == s_reconnect
Resumed == TRUE
Resume ==
  /\ console = "resume"
  /\ s_reconnect' = Resumed /\ console' = "configure"
  /\ UNCHANGED <<driver, events, bits, tasks, handler, ssid, tries, faults, past>>

Configure ==
  /\ console = "configure"
  /\ \/ /\ wifi # "connecting"
        /\ conf' = ssid /\ console' = "join"
        /\ UNCHANGED aborted
     \/ /\ wifi = "connecting"
        /\ aborted' = TRUE
        /\ UNCHANGED <<conf, console>>
  /\ UNCHANGED <<wifi, net, events, s_reconnect, bits, tasks, handler, ssid, tries, faults,
                 cmds, asked, unnamed, disturbed>>

Join ==
  /\ console = "join"
  /\ Connect /\ console' = "wait_up"
  /\ UNCHANGED <<conf, events, s_reconnect, bits, tasks, handler, ssid, tries, faults, past>>

(* The wait ends with the bit or after five seconds. *)
WaitUp ==
  /\ console = "wait_up" /\ console' = "idle"
  /\ UNCHANGED <<driver, events, s_reconnect, bits, tasks, handler, ssid, tries, faults, past>>

(* wifi_config --disconnect; the variant disconnects only. *)
ReconnectLeft == s_reconnect
ReconnectOff == FALSE
ConfigDisconnect ==
  /\ console = "idle" /\ cmds < MaxCmds /\ cmds' = cmds + 1
  /\ s_reconnect' = ReconnectOff
  /\ asked' = None /\ unnamed' = TRUE
  /\ disturbed' = (handler = "reconnect")
  /\ console' = "disconnect"
  /\ UNCHANGED <<driver, events, bits, tasks, handler, ssid, tries, faults, aborted>>

ConfigDisconnected ==
  /\ console = "disconnect"
  /\ Disconnect /\ console' = "idle"
  /\ UNCHANGED <<net, conf, s_reconnect, bits, tasks, handler, ssid, tries, faults, past>>

(* wifi_scan disconnects, and with a malformed --bssid returns; then it    *)
(* disconnects before each of its tries, the last of which is the one that *)
(* finds an access point; the variant tries once more.                     *)
RetryPostfix == tries < MaxTries
Retry == tries + 1 < MaxTries
Scan ==
  /\ console = "idle" /\ cmds < MaxCmds /\ cmds' = cmds + 1
  /\ Disconnect /\ console' \in {"scan", "idle"}
  /\ UNCHANGED <<net, conf, s_reconnect, bits, tasks, handler, ssid, tries, faults,
                 asked, unnamed, disturbed, aborted>>

ScanTry ==
  /\ console = "scan"
  /\ Disconnect
  /\ \/ Retry /\ tries' = tries + 1 /\ UNCHANGED console
     \/ ~Retry /\ tries' = 0 /\ console' = "idle"
     \/ tries' = 0 /\ console' = "channel"
  /\ UNCHANGED <<net, conf, s_reconnect, bits, tasks, handler, ssid, faults, past>>

(* After one that found something it sets the channel it began on, from 1  *)
(* to 12, which the driver may refuse to a station that is connecting.     *)
SetChannel ==
  /\ console = "channel"
  /\ \/ console' = "idle" /\ UNCHANGED aborted
     \/ wifi = "connecting" /\ aborted' = TRUE /\ UNCHANGED console
  /\ UNCHANGED <<driver, events, s_reconnect, bits, tasks, handler, ssid, tries, faults,
                 cmds, asked, unnamed, disturbed>>

Console ==
  \/ Look \/ Hold \/ Forget \/ Leave \/ WaitDown \/ Resume \/ Configure \/ Join \/ WaitUp
  \/ ConfigDisconnected \/ ScanTry \/ SetChannel

Next ==
  /\ ~aborted
  /\ \/ Config \/ ConfigDisconnect \/ Scan \/ Console
     \/ Handler \/ SenderEnds \/ Associate \/ GotIp \/ Fault

(* Both tasks run when they can; nothing is assumed of the driver. *)
Spec == Init /\ [][Next]_vars /\ WF_vars(~aborted /\ Console) /\ WF_vars(~aborted /\ Handler)

-----------------------------------------------------------------------------
TypeOK ==
  /\ wifi \in {"idle", "connecting", "associated", "up"}
  /\ {net, conf, ssid, asked} \subseteq Nets \cup {None}
  /\ events \in Seq({"GOT_IP", "DISCONNECTED"})
  /\ {s_reconnect, connected, disconnected, g_wifi_connect_status, unnamed,
      disturbed, aborted} \subseteq BOOLEAN
  /\ senders \in Nat
  /\ handler \in {"idle", "GOT_IP", "create", "clear_down", "set_up", "DISCONNECTED",
                  "reconnect", "clear_up", "set_down", "status"}
  /\ console \in {"idle", "look", "hold", "forget", "leave", "wait_down", "blocked",
                  "resume", "configure", "join", "wait_up", "disconnect", "scan",
                  "channel"}
  /\ tries \in 0 .. MaxTries - 1
  /\ cmds \in 0 .. MaxCmds /\ faults \in 0 .. MaxFaults

AtRest == console = "idle" /\ ~Pending

(* At rest the bit of the event group and the status of app_main both say  *)
(* whether the station has its address, although each of them is written   *)
(* by a handler of its own, and the bit by wifi_config too; and with the   *)
(* address there is a task that sends to the router, however the ends of   *)
(* earlier ones and the events interleave.                                 *)
FlagsAgree ==
  AtRest =>
    /\ connected = (wifi = "up") /\ g_wifi_connect_status = (wifi = "up")
    /\ wifi = "up" => senders > 0

(* The station is on the network of the last wifi_config, and the command  *)
(* did not abort, unless it met a station between idle and up or one that  *)
(* dropped during the command; and after --disconnect it stays down until  *)
(* a wifi_config, unless the handler had already decided to reconnect. A   *)
(* wifi_scan may abort as it sets the channel.                             *)
RightNetwork ==
  /\ aborted => disturbed \/ console = "channel"
  /\ AtRest /\ ~disturbed =>
       IF asked = None THEN wifi = "idle" ELSE wifi = "up" => net = asked

(* Once a network was asked for, the station is never left idle: neither   *)
(* by a failure, nor by a scan, nor by the change from another network.    *)
KeepsTrying == AtRest /\ asked # None => wifi # "idle"

(* wifi_config waits without a timeout for the disconnection, and the wait *)
(* ends, unless the station dropped during the command.                    *)
WaitEnds == console = "blocked" ~> console # "blocked" \/ disturbed

(* The help texts: --disconnect disconnects the router; to ask for         *)
(* information with --info does not connect it again.                      *)
DisconnectHolds == AtRest /\ unnamed /\ ~disturbed => wifi = "idle"
=============================================================================
