--------------------------- MODULE ConsoleCollect ---------------------------
(***************************************************************************)
(* Labelled collection in the console_test example                         *)
(* (examples/esp-radar/console_test/main/app_main.c): the radar command,   *)
(* run by the console task, sets a label and a number and starts a timer;  *)
(* collect_timercb, run by the timer daemon, counts the number down and    *)
(* takes label and timer away. They share g_console_input_config and the   *)
(* timer handle without a lock, so both are sequences of steps, named by   *)
(* console and daemon; csi_data_print_task reads number and label for the  *)
(* rows it prints. Timers are numbered as they are made; a command on      *)
(* a deleted one is a use of freed memory, one on NULL fails an assertion  *)
(* of FreeRTOS and ends the run.                                           *)
(***************************************************************************)
EXTENDS Naturals, Sequences

CONSTANTS
  Numbers,  \* values of --collect_number
  Width,    \* values of the uint32_t collect_number (2^32)
  MaxCmds   \* bound: collect commands

ASSUME CollectAssumption ==
  Width \in Nat \ {0} /\ Numbers \subseteq 0 .. Width - 1 /\ MaxCmds \in Nat

VARIABLES
  collect_number, collect_taget,   \* taget 0 is "unknown", k the label of command k
  g_collect_timer_handele,         \* 0 is NULL
  timers,      \* per timer, what FreeRTOS has of it
  commands,    \* the daemon's command queue
  console,     \* where the console task is
  daemon,      \* where the timer daemon is
  reg,         \* the number the callback has in a register
  printer,     \* where csi_data_print_task is
  row,         \* the number it has read, and when
  cmds,        \* bound: commands so far
  asked,       \* history: the number of the last command
  ticks,       \* history: runs of the callback since it
  collided,    \* history: the callback ran during a command, or before its timer
               \* commands were carried out
  broken       \* history: freed memory used or NULL given to a timer function

data == <<collect_number, collect_taget>>
rtos == <<timers, commands>>
past == <<cmds, asked, collided>>
printing == <<printer, row>>
vars == <<data, g_collect_timer_handele, rtos, console, daemon, reg, printing, past, ticks, broken>>

-----------------------------------------------------------------------------
Timers == 1 .. MaxCmds
NoRow == [number |-> 0, cmds |-> 0, ending |-> FALSE]

Init ==
  /\ collect_number = 0 /\ collect_taget = 0 /\ g_collect_timer_handele = 0
  /\ timers = [t \in Timers |-> "none"] /\ commands = <<>>
  /\ console = "idle" /\ daemon = "idle" /\ reg = 0
  /\ printer = "idle" /\ row = NoRow
  /\ cmds = 0 /\ asked = 0 /\ ticks = 0 /\ collided = FALSE /\ broken = FALSE

(* The handle names the active timer, NULL when there is none. *)
OneTimer == \A t \in Timers : timers[t] = "active" <=> t = g_collect_timer_handele

AtRest == console = "idle" /\ daemon = "idle" /\ commands = <<>>

(* A timer function sends a command for the timer that the handle names *)
(* now; it asserts that this is not NULL.                                *)
Request(op) ==
  \/ /\ g_collect_timer_handele # 0
     /\ commands' = Append(commands, [op |-> op, timer |-> g_collect_timer_handele])
     /\ UNCHANGED broken
  \/ /\ g_collect_timer_handele = 0
     /\ broken' = TRUE
     /\ UNCHANGED commands

-----------------------------------------------------------------------------
(* wifi_cmd_radar with --collect_tagets, --collect_number and              *)
(* --collect_duration                                                      *)
Collect ==
  /\ console = "idle" /\ cmds < MaxCmds
  /\ cmds' = cmds + 1
  /\ collect_number' \in Numbers
  /\ asked' = collect_number' /\ ticks' = 0
  /\ collided' = (daemon # "idle" \/ (collided /\ ~(AtRest /\ OneTimer)))
  /\ console' = "taget"
  /\ UNCHANGED <<collect_taget, g_collect_timer_handele, rtos, daemon, reg, broken>>

SetTaget ==
  /\ console = "taget"
  /\ collect_taget' = cmds
  /\ console' = "replace"
  /\ UNCHANGED <<collect_number, g_collect_timer_handele, rtos, daemon, reg, past, ticks, broken>>

(* An earlier timer is stopped and deleted; the variant leaves it. *)
ReplaceNever == console = "replace" /\ console' = "create"
Replaced ==
  \/ console = "replace" /\ g_collect_timer_handele = 0 /\ console' = "create"
  \/ console = "replace" /\ g_collect_timer_handele # 0 /\ console' = "stop"
Replace ==
  /\ Replaced
  /\ UNCHANGED <<data, g_collect_timer_handele, rtos, daemon, reg, past, ticks, broken>>

StopOld ==
  /\ console = "stop"
  /\ Request("stop")
  /\ console' = "delete"
  /\ UNCHANGED <<data, g_collect_timer_handele, timers, daemon, reg, past, ticks>>

DeleteOld ==
  /\ console = "delete"
  /\ Request("delete")
  /\ console' = "create"
  /\ UNCHANGED <<data, g_collect_timer_handele, timers, daemon, reg, past, ticks>>

Create ==
  /\ console = "create"
  /\ g_collect_timer_handele' = cmds
  /\ timers' = [timers EXCEPT ![cmds] = "stopped"]
  /\ console' = "start"
  /\ UNCHANGED <<data, commands, daemon, reg, past, ticks, broken>>

Start ==
  /\ console = "start"
  /\ Request("start")
  /\ console' = "idle"
  /\ UNCHANGED <<data, g_collect_timer_handele, timers, daemon, reg, past, ticks>>

-----------------------------------------------------------------------------
(* The timer daemon: an active timer expires and its callback runs; then   *)
(* the commands in the queue are carried out.                              *)
Expire ==
  /\ daemon = "idle"
  /\ \E t \in Timers : timers[t] = "active"
  /\ daemon' = "load"
  /\ collided' = (collided \/ console # "idle" \/ commands # <<>>)
  /\ UNCHANGED <<data, g_collect_timer_handele, rtos, console, reg, cmds, asked, ticks, broken>>

(* collect_number-- is a load, a subtraction, which wraps 0 round (the     *)
(* variant has a wider register), and a store.                             *)
DecrementWide == collect_number + Width - 1
Decrement == (collect_number + Width - 1) % Width
Load ==
  /\ daemon = "load"
  /\ reg' = Decrement
  /\ ticks' = ticks + 1
  /\ daemon' = "store"
  /\ UNCHANGED <<data, g_collect_timer_handele, rtos, console, past, broken>>

(* Variants: the last tick is the one that finds 0; the label is kept. *)
LastLate == collect_number = 0
Last == reg = 0
Store ==
  /\ daemon = "store"
  /\ collect_number' = reg
  /\ daemon' = IF Last THEN "stop" ELSE "commands"
  /\ UNCHANGED <<collect_taget, g_collect_timer_handele, rtos, console, reg, past, ticks, broken>>

Stop ==
  /\ daemon = "stop"
  /\ Request("stop")
  /\ daemon' = "delete"
  /\ UNCHANGED <<data, g_collect_timer_handele, timers, console, reg, past, ticks>>

Delete ==
  /\ daemon = "delete"
  /\ Request("delete")
  /\ daemon' = "clear"
  /\ UNCHANGED <<data, g_collect_timer_handele, timers, console, reg, past, ticks>>

Clear ==
  /\ daemon = "clear"
  /\ g_collect_timer_handele' = 0
  /\ daemon' = "unknown"
  /\ UNCHANGED <<data, rtos, console, reg, past, ticks, broken>>

LabelKept == collect_taget
LabelCleared == 0
Unknown ==
  /\ daemon = "unknown"
  /\ collect_taget' = LabelCleared
  /\ daemon' = "commands"
  /\ UNCHANGED <<collect_number, g_collect_timer_handele, rtos, console, reg, past, ticks, broken>>

Command ==
  /\ daemon \in {"idle", "commands"} /\ commands # <<>>
  /\ LET c == Head(commands) IN
       /\ timers' = [timers EXCEPT ![c.timer] =
                       IF @ = "deleted" THEN @
                       ELSE CASE c.op = "start"  -> "active"
                              [] c.op = "stop"   -> "stopped"
                              [] c.op = "delete" -> "deleted"]
       /\ broken' = (broken \/ timers[c.timer] = "deleted")
  /\ commands' = Tail(commands)
  /\ UNCHANGED <<data, g_collect_timer_handele, console, daemon, reg, past, ticks>>

Commanded ==
  /\ daemon = "commands" /\ commands = <<>>
  /\ daemon' = "idle"
  /\ UNCHANGED <<data, g_collect_timer_handele, rtos, console, reg, past, ticks, broken>>

-----------------------------------------------------------------------------
(* csi_data_print_task has taken a packet that wifi_csi_raw_cb queued; the *)
(* number is an argument of sprintf, the label is copied by it.            *)
PrintNumber ==
  /\ printer = "idle"
  /\ printer' = "taget"
  /\ row' = [number |-> collect_number, cmds |-> cmds,
             ending |-> daemon \in {"stop", "delete", "clear", "unknown"}]
PrintTaget ==
  /\ printer = "taget"
  /\ printer' = "idle" /\ row' = NoRow

Console == (SetTaget \/ Replace \/ StopOld \/ DeleteOld \/ Create \/ Start) /\ UNCHANGED printing
Daemon  ==
  /\ Expire \/ Load \/ Store \/ Stop \/ Delete \/ Clear \/ Unknown \/ Command \/ Commanded
  /\ UNCHANGED printing
csi_data_print_task ==
  /\ PrintNumber \/ PrintTaget
  /\ UNCHANGED <<data, g_collect_timer_handele, rtos, console, daemon, reg, past, ticks, broken>>

Next == ~broken /\ ((Collect /\ UNCHANGED printing) \/ Console \/ Daemon \/ csi_data_print_task)

(* Both tasks run when they can, and an active timer expires. *)
Spec == Init /\ [][Next]_vars /\ WF_vars(~broken /\ Console) /\ WF_vars(~broken /\ Daemon)

-----------------------------------------------------------------------------
TypeOK ==
  /\ collect_number \in 0 .. Width - 1 /\ collect_taget \in 0 .. MaxCmds
  /\ g_collect_timer_handele \in 0 .. MaxCmds
  /\ timers \in [Timers -> {"none", "stopped", "active", "deleted"}]
  /\ commands \in Seq([op : {"start", "stop", "delete"}, timer : Timers])
  /\ console \in {"idle", "taget", "replace", "stop", "delete", "create", "start"}
  /\ daemon \in {"idle", "load", "store", "stop", "delete", "clear", "unknown", "commands"}
  /\ reg \in 0 .. Width - 1 /\ cmds \in 0 .. MaxCmds /\ asked \in 0 .. Width - 1
  /\ printer \in {"idle", "taget"} /\ row.number \in 0 .. Width - 1
  /\ ticks \in Nat /\ collided \in BOOLEAN /\ broken \in BOOLEAN

(* At rest a label is in force exactly while the one timer that the handle *)
(* names runs, however often a command replaces a collection that runs,    *)
(* and on the way no freed timer and no NULL handle is used. A callback    *)
(* that ran into the command is excepted.                                  *)
NothingLeft ==
  /\ AtRest /\ ~collided => (collect_taget = 0 <=> g_collect_timer_handele = 0) /\ OneTimer
  /\ broken => collided

(* A row with a label has a number of that collection, counted down from   *)
(* what was asked for to 1; only a row printed while the last callback is  *)
(* taking the label away has a label and 0. Rows printed across a command  *)
(* are excepted, and such a callback as above.                             *)
RowsLabelled ==
  [][ /\ printer = "taget" /\ printer' = "idle" /\ collect_taget # 0
      /\ console = "idle" /\ row.cmds = cmds /\ ~collided
      => asked = 0 \/ row.number \in 1 .. asked \/ (row.number = 0 /\ row.ending) ]_vars

(* A collection takes the number of samples asked for, and 0 as 2^32.     *)
TicksAsAsked ==
  [][ daemon = "clear" /\ daemon' # "clear" /\ ~collided =>
        ticks = IF asked = 0 THEN Width ELSE asked ]_vars

(* Every label is taken away in the end. *)
LabelEnds == collect_taget # 0 ~> collect_taget = 0 \/ collided
=============================================================================
