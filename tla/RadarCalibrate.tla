--------------------------- MODULE RadarCalibrate ---------------------------
(***************************************************************************)
(* Threshold calibration of the RainMaker radar                            *)
(* (examples/esp-radar/connect_rainmaker): write_cb runs in the task of    *)
(* the cloud agent, auto_calibrate_timercb in the timer daemon or, called  *)
(* by write_cb, in the cloud task too. Both change g_detect_config and the *)
(* timer with no lock, so each is a sequence of steps, named by pc, and    *)
(* the steps of the two interleave. A reboot keeps what the NVS has.       *)
(*                                                                         *)
(* Timer commands go through the daemon's queue. That it has room is       *)
(* assumed: ten writes within one run of the callback would fill it.       *)
(***************************************************************************)
EXTENDS Integers, Sequences

CONSTANTS
  Interval,       \* AUTO_CALIBRATE_RAPORT_INTERVAL (5)
  Width,          \* values of the uint8_t threshold_calibrate_timeout (256)
  DefaultTimeout, \* its initial value (60)
  Timeouts,       \* values the app may write, of 10 .. 3600
  MaxWrites,      \* bound: writes by the app
  MaxReboots      \* bound: reboots of the device

ASSUME CalibrateAssumption ==
  /\ Interval \in Nat \ {0} /\ Width \in Nat \ {0} /\ DefaultTimeout \in 0 .. Width - 1
  /\ Timeouts \subseteq Nat /\ MaxWrites \in Nat /\ MaxReboots \in Nat

VARIABLES
  calibrate,   \* g_detect_config.threshold_calibrate
  timeout,     \* g_detect_config.threshold_calibrate_timeout
  seconds,     \* the threshold_calibrate_timeout the app shows
  nvs,         \* the blob: both of them
  timerleft,   \* g_auto_calibrate_timerleft
  timer,       \* the FreeRTOS timer
  commands,    \* the daemon's command queue
  training,    \* the radar library is learning thresholds
  shown,       \* the threshold_calibrate the app shows
  outdated,    \* history: it was not the current one any more when sent
  pc,          \* per task, where it is
  reg,         \* per task, the timerleft it has in a register
  seen,        \* per task, the threshold_calibrate it is about to show
  asked,       \* the value being written
  started,     \* history: the seconds the app showed when the calibration began
  ticks,       \* history: expiries since it began
  crossed,     \* history: a finish and a newer calibration ran into each other
  writes, reboots

config == <<calibrate, timeout, seconds>>
clock  == <<timerleft, timer, commands, reg>>
cloud  == <<shown, outdated, seen, asked>>
past   == <<started, ticks, crossed>>
bounds == <<writes, reboots>>
vars   == <<config, nvs, clock, training, cloud, pc, past, bounds>>

-----------------------------------------------------------------------------
Tasks == {"cloud", "timer"}
Goto(t, place) == pc' = [pc EXCEPT ![t] = place]

Init ==
  /\ calibrate = FALSE /\ timeout = DefaultTimeout /\ seconds = DefaultTimeout
  /\ nvs = [calibrate |-> FALSE, timeout |-> DefaultTimeout]
  /\ timerleft = 0 /\ timer = "none" /\ commands = <<>>
  /\ training = FALSE /\ shown = FALSE /\ outdated = FALSE
  /\ pc = [t \in Tasks |-> "idle"]
  /\ reg = [t \in Tasks |-> 0]
  /\ seen = [t \in Tasks |-> FALSE]
  /\ asked = FALSE
  /\ started = 0 /\ ticks = 0 /\ crossed = FALSE
  /\ writes = 0 /\ reboots = 0

-----------------------------------------------------------------------------
(* write_cb *)

(* The app writes threshold_calibrate_timeout: a uint8_t takes it, and the *)
(* value as it was written is reported back to the app.                    *)
StoredWhole(v) == v
Stored(v) == v % Width

WriteTimeout ==
  /\ pc["cloud"] = "idle" /\ writes < MaxWrites
  /\ writes' = writes + 1
  /\ \E v \in Timeouts : timeout' = Stored(v) /\ seconds' = v
  /\ Goto("cloud", "persist")
  /\ UNCHANGED <<calibrate, nvs, clock, training, cloud, past, reboots>>

(* The app writes threshold_calibrate; the timer is made at the first time. *)
WriteCalibrate ==
  /\ pc["cloud"] = "idle" /\ writes < MaxWrites
  /\ writes' = writes + 1
  /\ asked' \in BOOLEAN
  /\ calibrate' = asked'
  /\ timer' = IF timer = "none" THEN "stopped" ELSE timer
  /\ Goto("cloud", "branch")
  /\ crossed' = (crossed /\ pc["timer"] # "idle")
  /\ UNCHANGED <<timeout, seconds, nvs, timerleft, commands, reg, training, shown, outdated,
                 seen, started, ticks, reboots>>

(* threshold_calibrate is read again to tell a start from an end. *)
Branch ==
  /\ pc["cloud"] = "branch"
  /\ \/ /\ calibrate
        /\ timerleft' = timeout
        /\ started' = seconds /\ ticks' = 0
        /\ crossed' = (crossed \/ pc["timer"] = "check")
        /\ Goto("cloud", "start")
     \/ /\ ~calibrate
        /\ timerleft' = 0
        /\ Goto("cloud", "tick")
        /\ UNCHANGED <<started, ticks, crossed>>
  /\ UNCHANGED <<config, nvs, timer, commands, reg, training, cloud, bounds>>

(* A variant that leaves out the xTimerStart of Start below. *)
StartForgotten ==
  /\ pc["cloud"] = "start"
  /\ Goto("cloud", "train")
  /\ UNCHANGED <<config, nvs, clock, training, cloud, past, bounds>>
Start ==
  /\ pc["cloud"] = "start"
  /\ commands' = Append(commands, "start")
  /\ Goto("cloud", "train")
  /\ UNCHANGED <<config, nvs, timerleft, timer, reg, training, cloud, past, bounds>>

esp_radar_train_start ==
  /\ pc["cloud"] = "train"
  /\ training' = TRUE
  /\ Goto("cloud", "publish")
  /\ UNCHANGED <<config, nvs, clock, cloud, past, bounds>>

(* The end of write_cb: the written value is shown, the blob is saved. *)
Publish ==
  /\ pc["cloud"] = "publish"
  /\ shown' = asked /\ outdated' = (asked # calibrate)
  /\ Goto("cloud", "persist")
  /\ UNCHANGED <<config, nvs, clock, training, seen, asked, past, bounds>>

Blob == [calibrate |-> calibrate, timeout |-> timeout]

Persist ==
  /\ pc["cloud"] = "persist"
  /\ nvs' = Blob
  /\ Goto("cloud", "idle")
  /\ UNCHANGED <<config, clock, training, cloud, past, bounds>>

-----------------------------------------------------------------------------
(* auto_calibrate_timercb, in task t *)

(* g_auto_calibrate_timerleft -= 5 is a load, a subtraction and a store. *)
Tick(t) ==
  /\ pc[t] = "tick"
  /\ reg' = [reg EXCEPT ![t] = timerleft - Interval]
  /\ ticks' = IF t = "timer" THEN ticks + 1 ELSE ticks
  /\ Goto(t, "check")
  /\ UNCHANGED <<config, nvs, timerleft, timer, commands, training, cloud, started,
                 crossed, bounds>>

(* Too little left for another interval: the calibration ends. The variant *)
(* waits until the time has run out altogether.                            *)
OverLate(left) == left < 0
Over(left) == left < Interval

Starting == pc["cloud"] \in {"branch", "start", "train"}

Check(t) ==
  /\ pc[t] = "check"
  /\ \/ /\ Over(reg[t])
        /\ timerleft' = timeout
        /\ calibrate' = FALSE
        /\ crossed' = (crossed \/ (t = "timer" /\ Starting))
        /\ Goto(t, "stop")
     \/ /\ ~Over(reg[t])
        /\ timerleft' = reg[t]
        /\ crossed' = (crossed \/ t = "cloud")
        /\ Goto(t, "report")
        /\ UNCHANGED calibrate
  /\ UNCHANGED <<timeout, seconds, nvs, timer, commands, reg, training, cloud, started,
                 ticks, bounds>>

(* xTimerStop: with a calibration begun since, it stops that one's timer. *)
StopTimer(t) ==
  /\ pc[t] = "stop"
  /\ commands' = Append(commands, "stop")
  /\ crossed' = (crossed \/ calibrate)
  /\ Goto(t, "train_stop")
  /\ UNCHANGED <<config, nvs, timerleft, timer, reg, training, cloud, started,
                 ticks, bounds>>

(* The variant returns from the callback without stopping the training. *)
TrainStopForgotten(t) ==
  /\ pc[t] = "train_stop"
  /\ Goto(t, "save")
  /\ UNCHANGED <<config, nvs, clock, training, cloud, past, bounds>>
esp_radar_train_stop(t) ==
  /\ pc[t] = "train_stop"
  /\ training' = FALSE
  /\ crossed' = (crossed \/ calibrate)
  /\ Goto(t, "save")
  /\ UNCHANGED <<config, nvs, clock, cloud, started, ticks, bounds>>

(* Variants of Save: the blob is not written; the callback returns at once. *)
SaveForgotten(t) ==
  /\ pc[t] = "save"
  /\ Goto(t, "report")
  /\ UNCHANGED <<config, nvs, clock, training, cloud, past, bounds>>
Return(t) == IF t = "timer" THEN "commands" ELSE "publish"
SaveAndReturn(t) ==
  /\ pc[t] = "save"
  /\ nvs' = Blob
  /\ Goto(t, Return(t))
  /\ UNCHANGED <<config, clock, training, cloud, past, bounds>>
Save(t) ==
  /\ pc[t] = "save"
  /\ nvs' = Blob
  /\ Goto(t, "report")
  /\ UNCHANGED <<config, clock, training, cloud, past, bounds>>

(* threshold_calibrate is read for the app, and then shown. *)
Report(t) ==
  /\ pc[t] = "report"
  /\ seen' = [seen EXCEPT ![t] = calibrate]
  /\ Goto(t, "show")
  /\ UNCHANGED <<config, nvs, clock, training, shown, outdated, asked, past, bounds>>

Show(t) ==
  /\ pc[t] = "show"
  /\ shown' = seen[t] /\ outdated' = (seen[t] # calibrate)
  /\ Goto(t, Return(t))
  /\ UNCHANGED <<config, nvs, clock, training, seen, asked, past, bounds>>

-----------------------------------------------------------------------------
(* The timer daemon runs the callback of an expired timer and then, before *)
(* it looks at the timers again, the commands in its queue.                *)
Expire ==
  /\ pc["timer"] = "idle" /\ timer = "active"
  /\ Goto("timer", "tick")
  /\ UNCHANGED <<config, nvs, clock, training, cloud, past, bounds>>

Command ==
  /\ pc["timer"] \in {"idle", "commands"} /\ commands # <<>>
  /\ timer' = IF Head(commands) = "start" THEN "active" ELSE "stopped"
  /\ commands' = Tail(commands)
  /\ UNCHANGED <<config, nvs, timerleft, reg, training, cloud, pc, past, bounds>>

Commanded ==
  /\ pc["timer"] = "commands" /\ commands = <<>>
  /\ Goto("timer", "idle")
  /\ UNCHANGED <<config, nvs, clock, training, cloud, past, bounds>>

(* A reboot at any point: app_main takes the blob, shows the app what is   *)
(* in it, and starts no timer and no training.                             *)
Reboot ==
  /\ reboots < MaxReboots
  /\ reboots' = reboots + 1
  /\ calibrate' = nvs.calibrate /\ timeout' = nvs.timeout /\ seconds' = nvs.timeout
  /\ timerleft' = 0 /\ timer' = "none" /\ commands' = <<>> /\ training' = FALSE
  /\ shown' = nvs.calibrate /\ outdated' = FALSE
  /\ pc' = [t \in Tasks |-> "idle"]
  /\ crossed' = nvs.calibrate
  /\ UNCHANGED <<nvs, reg, seen, asked, started, ticks, writes>>

Callback(t) ==
  \/ Tick(t)
  \/ Check(t)
  \/ StopTimer(t)
  \/ esp_radar_train_stop(t)
  \/ Save(t)
  \/ Report(t)
  \/ Show(t)
CloudTask == Branch \/ Start \/ esp_radar_train_start \/ Publish \/ Persist \/ Callback("cloud")
TimerDaemon == Expire \/ Command \/ Commanded \/ Callback("timer")

Next == WriteTimeout \/ WriteCalibrate \/ CloudTask \/ TimerDaemon \/ Reboot

(* Both tasks run when they can, and an active timer expires. *)
Spec == Init /\ [][Next]_vars /\ WF_vars(CloudTask) /\ WF_vars(TimerDaemon)

-----------------------------------------------------------------------------
Places == {"idle", "branch", "start", "train", "publish", "persist", "tick", "check",
           "stop", "train_stop", "save", "report", "show", "commands"}

TypeOK ==
  /\ calibrate \in BOOLEAN /\ timeout \in 0 .. Width - 1 /\ seconds \in Nat
  /\ nvs \in [calibrate : BOOLEAN, timeout : 0 .. Width - 1]
  /\ timerleft \in Int /\ timer \in {"none", "stopped", "active"}
  /\ commands \in Seq({"start", "stop"})
  /\ training \in BOOLEAN /\ shown \in BOOLEAN /\ outdated \in BOOLEAN /\ crossed \in BOOLEAN
  /\ pc \in [Tasks -> Places]
  /\ reg \in [Tasks -> Int] /\ seen \in [Tasks -> BOOLEAN] /\ asked \in BOOLEAN
  /\ started \in Nat /\ ticks \in Nat
  /\ writes \in Nat /\ reboots \in Nat

AtRest == (\A t \in Tasks : pc[t] = "idle") /\ commands = <<>>

(* When both tasks are at rest the flag, the timer and the library agree: *)
(* calibrating means that the timer runs and the library learns, and not  *)
(* calibrating that neither does. The one way out is the history variable:*)
(* a finish that ran into a newer calibration, or a reboot during one.    *)
Coherent ==
  AtRest /\ ~crossed => (training <=> calibrate) /\ (timer = "active" <=> calibrate)

(* At rest a reboot would restore exactly the configuration in force,     *)
(* whichever of the two tasks wrote the blob last.                         *)
Persisted == AtRest => nvs = Blob

(* At rest the app shows whether a calibration runs: each change of the   *)
(* flag, in either task, is followed by a report of it; or the report was *)
(* overtaken by the other task between the read and the update.           *)
ShownAtRest == AtRest => (shown <=> calibrate) \/ outdated

(* The timer ends a calibration, and none was being started meanwhile. *)
TimerEnds ==
  pc["timer"] = "check" /\ pc'["timer"] = "stop" /\ ~crossed' /\ calibrate

(* It has lasted the timeout to within an interval, one at the least. *)
OnTime ==
  /\ started - Interval < Interval * ticks
  /\ ticks = 1 \/ Interval * (ticks - 1) < started

(* A calibration that the timer ends has lasted the timeout that the app   *)
(* showed when it began, to within an interval, whatever is written during *)
(* it, if that timeout fits the uint8_t it is kept in.                     *)
LastsItsTimeout == [][TimerEnds /\ started < Width => OnTime]_vars

(* The README's threshold_calibrate_timeout is the auto-calibration        *)
(* timeout in seconds, and the app offers 10 to 3600: a calibration that   *)
(* the timer ends has lasted that long.                                    *)
LastsAsAskedFor == [][TimerEnds => OnTime]_vars

(* Every calibration ends by itself, or by a write; not the ones that a   *)
(* reboot or a crossing finish left without timer.                        *)
CalibrationEnds == calibrate ~> (~calibrate \/ crossed)

(* The README's threshold_calibrate_timeout is the auto-calibration       *)
(* timeout in seconds: every calibration ends.                             *)
CalibrationTimesOut == calibrate ~> ~calibrate
=============================================================================
