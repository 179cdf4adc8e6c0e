------------------------ MODULE RadarCalibrateProofs ------------------------
(***************************************************************************)
(* Proofs about RadarCalibrate for every interval, width and timeout and   *)
(* any number of writes and reboots: what the flag, the timer, the radar   *)
(* library, the blob and the app agree on when both tasks are at rest, and *)
(* how long a calibration lasts.                                           *)
(***************************************************************************)
EXTENDS RadarCalibrate, SequenceTheorems, TLAPS

USE CalibrateAssumption

(* A finish that is under way in the timer daemon has yet to be saved, and *)
(* to be reported.                                                         *)
Unsaved    == {"stop", "train_stop", "save"}
Unreported == Unsaved \cup {"report", "show"}

(* What has changed is being saved, by the cloud task or by the callback. *)
SavedSoon == pc["cloud"] = "idle" /\ pc["timer"] \notin Unsaved => nvs = Blob

(* And it is being reported, or the last report was overtaken. *)
ReportedSoon ==
  pc["cloud"] \in {"idle", "persist"} /\ pc["timer"] \notin Unreported =>
    (shown <=> calibrate) \/ outdated

(* What the queue makes of the timer. *)
Last == commands[Len(commands)]
TimerWillRun == IF commands = <<>> THEN timer = "active" ELSE Last = "start"

(* Unless crossed, the timer runs and the library learns with the flag, or *)
(* a task is about to start or to stop them.                               *)
StartsWithFlag ==
  /\ pc["cloud"] \in {"start", "train"} => calibrate
  /\ pc["cloud"] \in {"tick", "check", "stop", "train_stop", "save", "report", "show"} => ~calibrate
Following ==
  /\ calibrate =>
       /\ TimerWillRun \/ pc["cloud"] \in {"branch", "start"}
       /\ training \/ pc["cloud"] \in {"branch", "start", "train"}
  /\ ~calibrate =>
       /\ TimerWillRun => pc["cloud"] \in {"branch", "tick", "check", "stop"} \/ pc["timer"] = "stop"
       /\ training => \/ pc["cloud"] \in {"branch", "tick", "check", "stop", "train_stop"}
                      \/ pc["timer"] \in {"stop", "train_stop"}

(* What the app shows is what is stored, if that can hold it. *)
ToldAsStored == seconds < Width => timeout = seconds

(* And the time left is what the expiries have left of that timeout. *)
Elapsed == Interval * ticks
TimeLeft ==
  calibrate /\ pc["cloud"] # "branch" /\ started < Width =>
    IF pc["timer"] = "check"
    THEN /\ ticks > 0 /\ reg["timer"] = started - Elapsed
         /\ timerleft = reg["timer"] + Interval
         /\ ticks = 1 \/ timerleft >= Interval
    ELSE timerleft = started - Elapsed /\ (ticks = 0 \/ timerleft >= Interval)

IInv ==
  /\ TypeOK /\ SavedSoon /\ ReportedSoon /\ ToldAsStored
  /\ ~crossed => StartsWithFlag /\ Following /\ TimeLeft
-----------------------------------------------------------------------------
USE DEF config, clock, cloud, past, bounds

(* A step is one of the app's, of the cloud task's own, of a callback in   *)
(* either task, of the daemon's own, or a reboot.                          *)
LEMMA Steps ==
  ASSUME [Next]_vars
  PROVE  \/ UNCHANGED vars
         \/ WriteTimeout \/ WriteCalibrate
         \/ Branch \/ Start \/ esp_radar_train_start \/ Publish \/ Persist
         \/ \E t \in Tasks : \/ Tick(t) \/ Check(t) \/ StopTimer(t) \/ esp_radar_train_stop(t)
                             \/ Save(t) \/ Report(t) \/ Show(t)
         \/ Expire \/ Command \/ Commanded \/ Reboot
<1>1. "cloud" \in Tasks /\ "timer" \in Tasks
  BY DEF Tasks
<1> QED
  BY <1>1, Zenon DEF Next, CloudTask, TimerDaemon, Callback

(* Where a task goes, the other stays. *)
LEMMA Went ==
  ASSUME TypeOK, NEW t \in Tasks, NEW place \in Places, Goto(t, place)
  PROVE  /\ pc' \in [Tasks -> Places] /\ pc'[t] = place
         /\ t = "cloud" => pc'["timer"] = pc["timer"]
         /\ t = "timer" => pc'["cloud"] = pc["cloud"]
<1>1. pc \in [Tasks -> Places]
  BY Zenon DEF TypeOK
<1> QED
  BY <1>1 DEF Goto, Tasks

(* The places of a task, and the two tasks. *)
LEMMA PlacesAre ==
  /\ Places = {"idle", "branch", "start", "train", "publish", "persist", "tick", "check",
               "stop", "train_stop", "save", "report", "show", "commands"}
  /\ "cloud" \in Tasks /\ "timer" \in Tasks /\ \A t \in Tasks : t = "cloud" \/ t = "timer"
BY DEF Places, Tasks

(* A write takes the cloud task away, whose steps then take it on, and     *)
(* only saving the blob brings it to rest.                                 *)
LEMMA CloudGoes ==
  ASSUME TypeOK
  PROVE  /\ WriteTimeout => /\ pc["cloud"] = "idle" /\ pc'["cloud"] = "persist"
                            /\ pc'["timer"] = pc["timer"] /\ pc' \in [Tasks -> Places]
         /\ WriteCalibrate => /\ pc["cloud"] = "idle" /\ pc'["cloud"] = "branch"
                              /\ pc'["timer"] = pc["timer"] /\ pc' \in [Tasks -> Places]
         /\ Branch => /\ pc["cloud"] = "branch"
                      /\ pc'["cloud"] = IF calibrate THEN "start" ELSE "tick"
                      /\ pc'["timer"] = pc["timer"] /\ pc' \in [Tasks -> Places]
         /\ Start => /\ pc["cloud"] = "start" /\ pc'["cloud"] = "train"
                     /\ pc'["timer"] = pc["timer"] /\ pc' \in [Tasks -> Places]
         /\ esp_radar_train_start => /\ pc["cloud"] = "train" /\ pc'["cloud"] = "publish"
                                     /\ pc'["timer"] = pc["timer"] /\ pc' \in [Tasks -> Places]
         /\ Publish => /\ pc["cloud"] = "publish" /\ pc'["cloud"] = "persist"
                       /\ pc'["timer"] = pc["timer"] /\ pc' \in [Tasks -> Places]
         /\ Persist => /\ pc["cloud"] = "persist" /\ pc'["cloud"] = "idle"
                       /\ pc'["timer"] = pc["timer"] /\ pc' \in [Tasks -> Places]
<1>1. \A place \in Places : Goto("cloud", place) =>
        pc' \in [Tasks -> Places] /\ pc'["cloud"] = place /\ pc'["timer"] = pc["timer"]
  BY Went, PlacesAre
<1> QED
  BY <1>1, PlacesAre DEF WriteTimeout, WriteCalibrate, Branch, Start, esp_radar_train_start,
     Publish, Persist

(* The same of the daemon, and of a callback in either. *)
LEMMA DaemonGoes ==
  ASSUME TypeOK
  PROVE  /\ Expire => /\ pc["timer"] = "idle" /\ pc'["timer"] = "tick"
                      /\ pc'["cloud"] = pc["cloud"] /\ pc' \in [Tasks -> Places]
         /\ Commanded => /\ pc["timer"] = "commands" /\ pc'["timer"] = "idle"
                         /\ pc'["cloud"] = pc["cloud"] /\ pc' \in [Tasks -> Places]
<1>1. \A place \in Places : Goto("timer", place) =>
        pc' \in [Tasks -> Places] /\ pc'["timer"] = place /\ pc'["cloud"] = pc["cloud"]
  BY Went, PlacesAre
<1> QED
  BY <1>1, PlacesAre DEF Expire, Commanded

(* The callback goes through its places in order, in either task. *)
LEMMA CallbackGoes ==
  ASSUME TypeOK, NEW t \in Tasks
  PROVE  /\ Tick(t) => pc[t] = "tick" /\ pc'[t] = "check"
         /\ Check(t) => pc[t] = "check" /\ pc'[t] = IF Over(reg[t]) THEN "stop" ELSE "report"
         /\ StopTimer(t) => pc[t] = "stop" /\ pc'[t] = "train_stop"
         /\ esp_radar_train_stop(t) => pc[t] = "train_stop" /\ pc'[t] = "save"
         /\ Save(t) => pc[t] = "save" /\ pc'[t] = "report"
         /\ Report(t) => pc[t] = "report" /\ pc'[t] = "show"
         /\ Show(t) => pc[t] = "show" /\ pc'[t] = Return(t)
         /\ \/ Tick(t) \/ Check(t) \/ StopTimer(t) \/ esp_radar_train_stop(t)
            \/ Save(t) \/ Report(t) \/ Show(t)
            => /\ pc' \in [Tasks -> Places]
               /\ t = "cloud" => pc'["timer"] = pc["timer"]
               /\ t = "timer" => pc'["cloud"] = pc["cloud"]
<1>1. \A place \in Places : Goto(t, place) =>
        /\ pc' \in [Tasks -> Places] /\ pc'[t] = place
        /\ t = "cloud" => pc'["timer"] = pc["timer"]
        /\ t = "timer" => pc'["cloud"] = pc["cloud"]
  BY Went
<1>2. Return(t) \in Places
  BY PlacesAre DEF Return
<1> QED
  BY <1>1, <1>2, PlacesAre DEF Tick, Check, StopTimer, esp_radar_train_stop, Save, Report, Show

-----------------------------------------------------------------------------
(* The types. *)
LEMMA TypeStep ==
  ASSUME TypeOK, [Next]_vars
  PROVE  TypeOK'
<1>1. /\ calibrate \in BOOLEAN /\ timeout \in 0 .. Width - 1 /\ seconds \in Nat
      /\ nvs \in [calibrate : BOOLEAN, timeout : 0 .. Width - 1]
      /\ timerleft \in Int /\ timer \in {"none", "stopped", "active"}
      /\ commands \in Seq({"start", "stop"})
      /\ training \in BOOLEAN /\ shown \in BOOLEAN /\ outdated \in BOOLEAN /\ crossed \in BOOLEAN
      /\ pc \in [Tasks -> Places]
      /\ reg \in [Tasks -> Int] /\ seen \in [Tasks -> BOOLEAN] /\ asked \in BOOLEAN
      /\ started \in Nat /\ ticks \in Nat
      /\ writes \in Nat /\ reboots \in Nat
  BY Zenon DEF TypeOK
<1>2. /\ 0 \in Int /\ 0 \in Nat /\ Interval \in Int /\ Width \in Nat
      /\ timeout \in Int /\ ticks + 1 \in Nat /\ writes + 1 \in Nat /\ reboots + 1 \in Nat
  BY <1>1
<1>3. /\ Append(commands, "start") \in Seq({"start", "stop"})
      /\ Append(commands, "stop") \in Seq({"start", "stop"})
      /\ <<>> \in Seq({"start", "stop"})
      /\ commands # <<>> => Tail(commands) \in Seq({"start", "stop"})
  BY <1>1
<1>4. CASE UNCHANGED vars
  BY <1>1, <1>4, Zenon DEF vars, TypeOK
<1>5. CASE WriteTimeout
  <2>1. timeout' \in 0 .. Width - 1 /\ seconds' \in Nat
    <3>1. PICK v \in Timeouts : timeout' = v % Width /\ seconds' = v
      BY <1>5, Zenon DEF WriteTimeout, Stored
    <3>2. v \in Nat /\ Width \in Nat \ {0}
      OBVIOUS
    <3>3. v % Width \in 0 .. Width - 1
      BY <3>2
    <3> QED
      BY <3>1, <3>3
  <2> QED
    BY <1>1, <1>2, <1>5, <2>1, CloudGoes, ZenonT(60) DEF WriteTimeout, TypeOK
<1>6. CASE WriteCalibrate
  <2>1. crossed' \in BOOLEAN /\ timer' \in {"none", "stopped", "active"} /\ calibrate' \in BOOLEAN
    BY <1>1, <1>6, Zenon DEF WriteCalibrate
  <2> QED
    BY <1>1, <1>2, <1>6, <2>1, CloudGoes, Zenon DEF WriteCalibrate, TypeOK
<1>7. CASE Branch
  <2>1. crossed' \in BOOLEAN
    BY <1>1, <1>7, Zenon DEF Branch
  <2>2. timerleft' \in Int /\ started' \in Nat /\ ticks' \in Nat
    BY <1>1, <1>2, <1>7, Zenon DEF Branch
  <2> QED
    BY <1>1, <1>7, <2>1, <2>2, CloudGoes, Zenon DEF Branch, TypeOK
<1>8. CASE Start
  BY <1>1, <1>3, <1>8, CloudGoes, ZenonT(60) DEF Start, TypeOK
<1>9. CASE esp_radar_train_start
  BY <1>1, <1>9, CloudGoes, Zenon DEF esp_radar_train_start, TypeOK
<1>10. CASE Publish
  <2>1. outdated' \in BOOLEAN
    BY <1>10, Zenon DEF Publish
  <2> QED
    BY <1>1, <1>10, <2>1, CloudGoes, Zenon DEF Publish, TypeOK
<1>11. CASE Persist
  <2>1. nvs' \in [calibrate : BOOLEAN, timeout : 0 .. Width - 1]
    BY <1>1, <1>11 DEF Persist, Blob
  <2> QED
    BY <1>1, <1>11, <2>1, CloudGoes, Zenon DEF Persist, TypeOK
<1>12. ASSUME NEW t \in Tasks, Tick(t) PROVE TypeOK'
  <2>1. timerleft - Interval \in Int
    BY <1>1, <1>2
  <2>2. reg' \in [Tasks -> Int] /\ ticks' \in Nat
    BY <1>1, <1>2, <1>12, <2>1, Zenon DEF Tick
  <2> QED
    BY <1>1, <1>12, <2>2, CallbackGoes, ZenonT(60) DEF Tick, TypeOK
<1>13. ASSUME NEW t \in Tasks, Check(t) PROVE TypeOK'
  <2>1. crossed' \in BOOLEAN /\ calibrate' \in BOOLEAN
    BY <1>1, <1>13, Zenon DEF Check
  <2>2. timerleft' \in Int
    <3>1. reg[t] \in Int /\ timeout \in Int
      BY <1>1, <1>2
    <3>2. timerleft' = timeout \/ timerleft' = reg[t]
      BY <1>13, Zenon DEF Check
    <3> QED
      BY <3>1, <3>2, Zenon
  <2> QED
    BY <1>1, <1>13, <2>1, <2>2, CallbackGoes, Zenon DEF Check, TypeOK
<1>14. ASSUME NEW t \in Tasks, StopTimer(t) \/ esp_radar_train_stop(t) PROVE TypeOK'
  <2>1. crossed' \in BOOLEAN
    BY <1>14, Zenon DEF StopTimer, esp_radar_train_stop
  <2> QED
    BY <1>1, <1>3, <1>14, <2>1, CallbackGoes, ZenonT(60) DEF StopTimer, esp_radar_train_stop, TypeOK
<1>15. ASSUME NEW t \in Tasks, Save(t) PROVE TypeOK'
  <2>1. nvs' \in [calibrate : BOOLEAN, timeout : 0 .. Width - 1]
    BY <1>1, <1>15 DEF Save, Blob
  <2> QED
    BY <1>1, <1>15, <2>1, CallbackGoes, Zenon DEF Save, TypeOK
<1>16. ASSUME NEW t \in Tasks, Report(t) PROVE TypeOK'
  <2>1. seen' \in [Tasks -> BOOLEAN]
    BY <1>1, <1>16, Zenon DEF Report
  <2> QED
    BY <1>1, <1>16, <2>1, CallbackGoes, ZenonT(60) DEF Report, TypeOK
<1>17. ASSUME NEW t \in Tasks, Show(t) PROVE TypeOK'
  <2>1. outdated' \in BOOLEAN /\ shown' \in BOOLEAN
    BY <1>1, <1>17, Zenon DEF Show
  <2> QED
    BY <1>1, <1>17, <2>1, CallbackGoes, Zenon DEF Show, TypeOK
<1>18. CASE Expire \/ Commanded
  BY <1>1, <1>18, DaemonGoes, ZenonT(60) DEF Expire, Commanded, TypeOK
<1>19. CASE Command
  <2>1. timer' \in {"none", "stopped", "active"}
    BY <1>19 DEF Command
  <2> QED
    BY <1>1, <1>3, <1>19, <2>1, Zenon DEF Command, TypeOK
<1>20. CASE Reboot
  <2>1. /\ calibrate' \in BOOLEAN /\ timeout' \in 0 .. Width - 1 /\ shown' \in BOOLEAN
        /\ crossed' \in BOOLEAN /\ seconds' \in Nat
    BY <1>1, <1>20 DEF Reboot
  <2>2. pc' \in [Tasks -> Places]
    BY <1>20, PlacesAre DEF Reboot
  <2> QED
    BY <1>1, <1>2, <1>3, <1>20, <2>1, <2>2, Zenon DEF Reboot, TypeOK
<1> QED
  BY <1>4, <1>5, <1>6, <1>7, <1>8, <1>9, <1>10, <1>11, <1>12, <1>13, <1>14, <1>15, <1>16,
     <1>17, <1>18, <1>19, <1>20, Steps, Zenon
-----------------------------------------------------------------------------
(* Timeout and seconds are written together, and a reboot has both from the *)
(* blob.                                                                    *)
LEMMA ToldStep ==
  ASSUME ToldAsStored, [Next]_vars
  PROVE  ToldAsStored'
<1>1. CASE UNCHANGED <<timeout, seconds>>
  BY <1>1, Zenon DEF ToldAsStored
<1>2. CASE WriteTimeout
  <2>1. PICK v \in Timeouts : timeout' = v % Width /\ seconds' = v
    BY <1>2, Zenon DEF WriteTimeout, Stored
  <2>2. v \in Nat /\ Width \in Nat \ {0}
    OBVIOUS
  <2>3. v < Width => v % Width = v
    BY <2>2
  <2> QED
    BY <2>1, <2>3, Zenon DEF ToldAsStored
<1>3. CASE Reboot
  BY <1>3, Zenon DEF Reboot, ToldAsStored
<1>4. UNCHANGED <<timeout, seconds>> \/ WriteTimeout \/ Reboot
  BY Steps, Zenon DEF vars, WriteCalibrate, Branch, Start, esp_radar_train_start, Publish, Persist,
     Tick, Check, StopTimer, esp_radar_train_stop, Save, Report, Show, Expire, Command, Commanded
<1> QED
  BY <1>1, <1>2, <1>3, <1>4
-----------------------------------------------------------------------------
(* Every change of the configuration is on its way to the blob. *)
LEMMA SavedStep ==
  ASSUME TypeOK, SavedSoon, [Next]_vars
  PROVE  SavedSoon'
<1>1. ASSUME pc'["cloud"] # "idle" PROVE SavedSoon'
  BY <1>1, Zenon DEF SavedSoon
<1>2. ASSUME UNCHANGED <<config, nvs>>, pc'["cloud"] = pc["cloud"],
             pc["timer"] \in Unsaved => pc'["timer"] \in Unsaved
      PROVE  SavedSoon'
  BY <1>2, Zenon DEF SavedSoon, Blob
<1>3. ASSUME UNCHANGED config, nvs' = Blob PROVE SavedSoon'
  BY <1>3, Zenon DEF SavedSoon, Blob
<1>4. CASE UNCHANGED vars
  BY <1>2, <1>4, Zenon DEF vars
<1>5. CASE WriteTimeout \/ WriteCalibrate \/ Branch \/ Start \/ esp_radar_train_start \/ Publish
  <2>1. pc'["cloud"] # "idle"
    BY <1>5, CloudGoes
  <2> QED
    BY <1>1, <2>1, Zenon
<1>6. CASE Persist
  BY <1>3, <1>6, Zenon DEF Persist
<1>7. ASSUME NEW t \in Tasks,
             \/ Tick(t) \/ Check(t) \/ StopTimer(t) \/ esp_radar_train_stop(t)
             \/ Save(t) \/ Report(t) \/ Show(t)
      PROVE  SavedSoon'
  <2>1. CASE t = "cloud"
    <3>1. pc'["cloud"] # "idle"
      BY <1>7, <2>1, CallbackGoes DEF Return
    <3> QED
      BY <1>1, <3>1, Zenon
  <2>2. CASE t = "timer"
    <3>1. CASE Tick(t) \/ Report(t) \/ Show(t)
      <4>1. /\ UNCHANGED <<config, nvs>> /\ pc'["cloud"] = pc["cloud"]
            /\ pc["timer"] \notin Unsaved
        BY <2>2, <3>1, CallbackGoes DEF Unsaved, Tick, Report, Show
      <4> QED
        BY <1>2, <4>1, Zenon
    <3>2. CASE Check(t)
      <4>1. CASE pc'["timer"] = "stop"
        BY <4>1 DEF SavedSoon, Unsaved
      <4>2. CASE pc'["timer"] # "stop"
        <5>1. /\ UNCHANGED <<config, nvs>> /\ pc'["cloud"] = pc["cloud"]
              /\ pc["timer"] \notin Unsaved
          BY <2>2, <3>2, <4>2, CallbackGoes DEF Unsaved, Check
        <5> QED
          BY <1>2, <5>1, Zenon
      <4> QED
        BY <4>1, <4>2
    <3>3. CASE StopTimer(t) \/ esp_radar_train_stop(t)
      <4>1. pc'["timer"] \in Unsaved
        BY <2>2, <3>3, CallbackGoes DEF Unsaved
      <4> QED
        BY <4>1, Zenon DEF SavedSoon
    <3>4. CASE Save(t)
      BY <1>3, <3>4, Zenon DEF Save
    <3> QED
      BY <1>7, <3>1, <3>2, <3>3, <3>4
  <2> QED
    BY <2>1, <2>2, PlacesAre
<1>8. CASE Expire \/ Commanded
  <2>1. /\ UNCHANGED <<config, nvs>> /\ pc'["cloud"] = pc["cloud"]
        /\ pc["timer"] \notin Unsaved
    BY <1>8, DaemonGoes DEF Unsaved, Expire, Commanded
  <2> QED
    BY <1>2, <2>1, Zenon
<1>9. CASE Command
  BY <1>2, <1>9, Zenon DEF Command
<1>10. CASE Reboot
  <2>1. nvs \in [calibrate : BOOLEAN, timeout : 0 .. Width - 1]
    BY Zenon DEF TypeOK
  <2>2. nvs' = Blob'
    BY <1>10, <2>1 DEF Reboot, Blob
  <2> QED
    BY <2>2, Zenon DEF SavedSoon
<1> QED
  BY <1>4, <1>5, <1>6, <1>7, <1>8, <1>9, <1>10, Steps, Zenon

(* Every change of the flag is on its way to the app. *)
LEMMA ReportedStep ==
  ASSUME TypeOK, ReportedSoon, [Next]_vars
  PROVE  ReportedSoon'
<1>1. /\ calibrate \in BOOLEAN /\ shown \in BOOLEAN /\ outdated \in BOOLEAN /\ asked \in BOOLEAN
      /\ seen \in [Tasks -> BOOLEAN] /\ nvs.calibrate \in BOOLEAN
  <2>1. nvs \in [calibrate : BOOLEAN, timeout : 0 .. Width - 1]
    BY Zenon DEF TypeOK
  <2>2. nvs.calibrate \in BOOLEAN
    BY <2>1
  <2> QED
    BY <2>2, Zenon DEF TypeOK
<1>2. ASSUME pc'["cloud"] \notin {"idle", "persist"} PROVE ReportedSoon'
  BY <1>2, Zenon DEF ReportedSoon
<1>3. ASSUME UNCHANGED <<calibrate, shown, outdated>>,
             pc'["cloud"] \in {"idle", "persist"} => pc["cloud"] \in {"idle", "persist"},
             pc["timer"] \in Unreported => pc'["timer"] \in Unreported
      PROVE  ReportedSoon'
  BY <1>3, Zenon DEF ReportedSoon
<1>4. ASSUME NEW v \in BOOLEAN, shown' = v, outdated' = (v # calibrate), UNCHANGED calibrate
      PROVE  ReportedSoon'
  <2>1. (shown' <=> calibrate') \/ outdated'
    <3>1. CASE v = calibrate
      BY <1>4, <3>1, Zenon
    <3>2. CASE v # calibrate
      BY <1>4, <3>2, Zenon
    <3> QED
      BY <3>1, <3>2, Zenon
  <2> QED
    BY <2>1, Zenon DEF ReportedSoon
<1>5. CASE UNCHANGED vars
  BY <1>3, <1>5, Zenon DEF vars
<1>6. CASE WriteTimeout \/ Persist
  <2>1. /\ UNCHANGED <<calibrate, shown, outdated>> /\ pc'["timer"] = pc["timer"]
        /\ pc["cloud"] \in {"idle", "persist"}
    BY <1>6, CloudGoes DEF WriteTimeout, Persist
  <2> QED
    BY <1>3, <2>1, Zenon
<1>7. CASE WriteCalibrate \/ Branch \/ Start \/ esp_radar_train_start
  <2>1. pc'["cloud"] \notin {"idle", "persist"}
    BY <1>7, CloudGoes
  <2> QED
    BY <1>2, <2>1, Zenon
<1>8. CASE Publish
  BY <1>1, <1>4, <1>8, Zenon DEF Publish
<1>9. ASSUME NEW t \in Tasks,
             \/ Tick(t) \/ Check(t) \/ StopTimer(t) \/ esp_radar_train_stop(t)
             \/ Save(t) \/ Report(t) \/ Show(t)
      PROVE  ReportedSoon'
  <2>1. CASE Show(t)
    <3>1. seen[t] \in BOOLEAN
      BY <1>1
    <3> QED
      BY <1>4, <2>1, <3>1, Zenon DEF Show
  <2>2. CASE t = "cloud" /\ ~Show(t)
    <3>1. pc'["cloud"] \notin {"idle", "persist"}
      BY <1>9, <2>2, CallbackGoes
    <3> QED
      BY <1>2, <3>1, Zenon
  <2>3. CASE t = "timer" /\ Tick(t)
    <3>1. /\ UNCHANGED <<calibrate, shown, outdated>> /\ pc'["cloud"] = pc["cloud"]
          /\ pc["timer"] \notin Unreported
      BY <2>3, CallbackGoes DEF Unreported, Unsaved, Tick
    <3> QED
      BY <1>3, <3>1, Zenon
  <2>4. CASE t = "timer" /\ ~Tick(t) /\ ~Show(t)
    <3>1. pc'["timer"] \in Unreported
      BY <1>9, <2>4, CallbackGoes DEF Unreported, Unsaved
    <3> QED
      BY <3>1, Zenon DEF ReportedSoon
  <2> QED
    BY <2>1, <2>2, <2>3, <2>4, PlacesAre
<1>10. CASE Expire \/ Commanded
  <2>1. /\ UNCHANGED <<calibrate, shown, outdated>> /\ pc'["cloud"] = pc["cloud"]
        /\ pc["timer"] \notin Unreported
    BY <1>10, DaemonGoes DEF Unreported, Unsaved, Expire, Commanded
  <2> QED
    BY <1>3, <2>1, Zenon
<1>11. CASE Command
  BY <1>3, <1>11, Zenon DEF Command
<1>12. CASE Reboot
  <2>1. shown' = calibrate'
    BY <1>12, Zenon DEF Reboot
  <2> QED
    BY <2>1, Zenon DEF ReportedSoon
<1> QED
  BY <1>5, <1>6, <1>7, <1>8, <1>9, <1>10, <1>11, <1>12, Steps, Zenon
-----------------------------------------------------------------------------
(* What the queue makes of the timer, as commands come and go. *)
LEMMA QueueEnds ==
  ASSUME TypeOK
  PROVE  /\ \A op \in {"start", "stop"} : commands' = Append(commands, op) =>
              (TimerWillRun' <=> op = "start")
         /\ Command => (TimerWillRun' <=> TimerWillRun)
<1>1. commands \in Seq({"start", "stop"})
  BY Zenon DEF TypeOK
<1>2. ASSUME NEW op \in {"start", "stop"}, commands' = Append(commands, op)
      PROVE  TimerWillRun' <=> op = "start"
  <2>1. commands' # <<>> /\ commands'[Len(commands')] = op
    BY <1>1, <1>2
  <2> QED
    BY <2>1, Zenon DEF TimerWillRun, Last
<1>3. ASSUME Command
      PROVE  TimerWillRun' <=> TimerWillRun
  <2>1. /\ commands # <<>> /\ commands' = Tail(commands)
        /\ timer' = IF Head(commands) = "start" THEN "active" ELSE "stopped"
    BY <1>3, Zenon DEF Command
  <2>2. /\ Len(commands) \in Nat \ {0} /\ Len(Tail(commands)) = Len(commands) - 1
        /\ Head(commands) = commands[1]
        /\ \A i \in 1 .. Len(commands) - 1 : Tail(commands)[i] = commands[i + 1]
    BY <1>1, <2>1
  <2>3. CASE Len(commands) = 1
    <3>1. Tail(commands) = <<>> /\ Last = Head(commands)
      <4>1. Tail(commands) \in Seq({"start", "stop"}) /\ Len(Tail(commands)) = 0
        BY <1>1, <2>1, <2>2, <2>3
      <4>2. Tail(commands) = <<>>
        BY <4>1, EmptySeq
      <4> QED
        BY <2>2, <2>3, <4>2, Zenon DEF Last
    <3>2. TimerWillRun <=> Head(commands) = "start"
      BY <2>1, <3>1, Zenon DEF TimerWillRun
    <3>3. TimerWillRun' <=> timer' = "active"
      BY <2>1, <3>1, Zenon DEF TimerWillRun
    <3>4. timer' = "active" <=> Head(commands) = "start"
      BY <2>1
    <3> QED
      BY <3>2, <3>3, <3>4, Zenon
  <2>4. CASE Len(commands) # 1
    <3>1. /\ Len(commands) - 1 \in 1 .. Len(commands) - 1
          /\ (Len(commands) - 1) + 1 = Len(commands)
      BY <2>2, <2>4
    <3>2. Tail(commands)[Len(Tail(commands))] = Last
      BY <2>2, <3>1 DEF Last
    <3>3. Tail(commands) # <<>>
      BY <2>2, <2>4
    <3> QED
      BY <2>1, <3>2, <3>3, Zenon DEF TimerWillRun, Last
  <2> QED
    BY <2>3, <2>4
<1> QED
  BY <1>2, <1>3, Zenon

(* What is not crossed after a step was not before it, but for a write of  *)
(* the flag, which begins anew, and a reboot outside a calibration; and    *)
(* what was done by the step ran into nothing.                             *)
LEMMA Uncrossed ==
  ASSUME TypeOK, [Next]_vars, ~crossed'
  PROVE  /\ ~crossed \/ WriteCalibrate \/ Reboot
         /\ Branch /\ calibrate => pc["timer"] # "check"
         /\ \A t \in Tasks :
              /\ Check(t) /\ Over(reg[t]) => ~(t = "timer" /\ Starting)
              /\ Check(t) /\ ~Over(reg[t]) => t = "timer"
              /\ StopTimer(t) \/ esp_radar_train_stop(t) => ~calibrate
         /\ Reboot => nvs.calibrate = FALSE
<1>1. ~crossed \/ WriteCalibrate \/ Reboot
  BY Steps, Zenon DEF vars, WriteTimeout, Branch, Start, esp_radar_train_start, Publish, Persist,
     Tick, Check, StopTimer, esp_radar_train_stop, Save, Report, Show, Expire, Command, Commanded
<1>2. Branch /\ calibrate => pc["timer"] # "check"
  BY Zenon DEF Branch
<1>3. ASSUME NEW t \in Tasks
      PROVE  /\ Check(t) /\ Over(reg[t]) => ~(t = "timer" /\ Starting)
             /\ Check(t) /\ ~Over(reg[t]) => t = "timer"
             /\ StopTimer(t) \/ esp_radar_train_stop(t) => ~calibrate
  <2>1. Check(t) /\ Over(reg[t]) => ~(t = "timer" /\ Starting)
    BY Zenon DEF Check
  <2>2. Check(t) /\ ~Over(reg[t]) => t = "timer"
    BY PlacesAre, Zenon DEF Check
  <2>3. StopTimer(t) \/ esp_radar_train_stop(t) => ~calibrate
    BY Zenon DEF StopTimer, esp_radar_train_stop
  <2> QED
    BY <2>1, <2>2, <2>3, Zenon
<1>4. Reboot => nvs.calibrate = FALSE
  <2>1. nvs \in [calibrate : BOOLEAN, timeout : 0 .. Width - 1]
    BY Zenon DEF TypeOK
  <2>2. nvs.calibrate \in BOOLEAN
    BY <2>1
  <2> QED
    BY <2>2, Zenon DEF Reboot
<1> QED
  BY <1>1, <1>2, <1>3, <1>4, Zenon

(* The flag goes with the timer and the library, or a task is at it. *)
LEMMA FollowingStep ==
  ASSUME TypeOK, ~crossed => StartsWithFlag /\ Following, [Next]_vars, ~crossed'
  PROVE  StartsWithFlag' /\ Following'
<1>1. CASE WriteCalibrate
  <2>1. pc'["cloud"] = "branch"
    BY <1>1, CloudGoes
  <2> QED
    BY <2>1 DEF StartsWithFlag, Following
<1>2. CASE Reboot
  <2>1. /\ calibrate' = FALSE /\ pc'["cloud"] = "idle" /\ training' = FALSE
        /\ commands' = <<>> /\ timer' = "none"
    BY <1>2, Uncrossed, PlacesAre DEF Reboot
  <2>2. ~TimerWillRun'
    BY <2>1 DEF TimerWillRun
  <2> QED
    BY <2>1, <2>2 DEF StartsWithFlag, Following
<1>3. CASE ~WriteCalibrate /\ ~Reboot
  <2>1. StartsWithFlag /\ Following
    BY <1>3, Uncrossed, Zenon
  <2>2. ASSUME UNCHANGED <<calibrate, commands, timer, training>>
        PROVE  TimerWillRun' = TimerWillRun
    BY <2>2, Zenon DEF TimerWillRun, Last
  <2>3. CASE UNCHANGED vars
    <3>1. UNCHANGED <<calibrate, commands, timer, training, pc>>
      BY <2>3, Zenon DEF vars
    <3> QED
      BY <2>1, <2>2, <3>1 DEF StartsWithFlag, Following
  <2>4. CASE WriteTimeout \/ Publish \/ Persist
    <3>1. /\ UNCHANGED <<calibrate, commands, timer, training>> /\ pc'["timer"] = pc["timer"]
          /\ pc["cloud"] \in {"idle", "publish", "persist"}
          /\ pc'["cloud"] \in {"idle", "publish", "persist"}
      BY <2>4, CloudGoes DEF WriteTimeout, Publish, Persist
    <3> QED
      BY <2>1, <2>2, <3>1 DEF StartsWithFlag, Following
  <2>5. CASE Branch
    <3>1. /\ UNCHANGED <<calibrate, commands, timer, training>> /\ pc'["timer"] = pc["timer"]
          /\ pc["cloud"] = "branch" /\ pc'["cloud"] = IF calibrate THEN "start" ELSE "tick"
      BY <2>5, CloudGoes DEF Branch
    <3> QED
      BY <2>1, <2>2, <3>1 DEF StartsWithFlag, Following
  <2>6. CASE Start
    <3>1. /\ UNCHANGED <<calibrate, training>> /\ commands' = Append(commands, "start")
          /\ pc["cloud"] = "start" /\ pc'["cloud"] = "train"
      BY <2>6, CloudGoes DEF Start
    <3>2. TimerWillRun'
      BY <3>1, QueueEnds
    <3> QED
      BY <2>1, <3>1, <3>2 DEF StartsWithFlag, Following
  <2>7. CASE esp_radar_train_start
    <3>1. /\ UNCHANGED <<calibrate, commands, timer>> /\ training' = TRUE
          /\ pc["cloud"] = "train" /\ pc'["cloud"] = "publish"
      BY <2>7, CloudGoes DEF esp_radar_train_start
    <3>2. TimerWillRun' = TimerWillRun
      BY <3>1, Zenon DEF TimerWillRun, Last
    <3> QED
      BY <2>1, <3>1, <3>2 DEF StartsWithFlag, Following
  <2>8. ASSUME NEW t \in Tasks, Tick(t) \/ Save(t) \/ Report(t) \/ Show(t)
        PROVE  StartsWithFlag' /\ Following'
    <3>1. UNCHANGED <<calibrate, commands, timer, training>>
      BY <2>8, Zenon DEF Tick, Save, Report, Show
    <3>2. CASE t = "cloud"
      <4>1. /\ pc'["timer"] = pc["timer"]
            /\ \/ pc["cloud"] = "tick" /\ pc'["cloud"] = "check"
               \/ /\ pc["cloud"] \in {"save", "report", "show"}
                  /\ pc'["cloud"] \in {"report", "show", "publish"}
        BY <2>8, <3>2, CallbackGoes DEF Return
      <4> QED
        BY <2>1, <2>2, <3>1, <4>1 DEF StartsWithFlag, Following
    <3>3. CASE t = "timer"
      <4>1. /\ pc'["cloud"] = pc["cloud"]
            /\ pc["timer"] \notin {"stop", "train_stop"} /\ pc'["timer"] \notin {"stop", "train_stop"}
        BY <2>8, <3>3, CallbackGoes DEF Return
      <4> QED
        BY <2>1, <2>2, <3>1, <4>1 DEF StartsWithFlag, Following
    <3> QED
      BY <3>2, <3>3, PlacesAre
  <2>9. ASSUME NEW t \in Tasks, Check(t)
        PROVE  StartsWithFlag' /\ Following'
    <3>1. UNCHANGED <<commands, timer, training>>
      BY <2>9, Zenon DEF Check
    <3>2. TimerWillRun' = TimerWillRun
      BY <3>1, Zenon DEF TimerWillRun, Last
    <3>3. CASE t = "cloud"
      <4>1. /\ calibrate' = FALSE /\ pc["cloud"] = "check" /\ pc'["cloud"] = "stop"
            /\ pc'["timer"] = pc["timer"]
        BY <2>9, <3>3, CallbackGoes, Uncrossed DEF Check
      <4> QED
        BY <2>1, <3>1, <3>2, <4>1 DEF StartsWithFlag, Following
    <3>4. CASE t = "timer" /\ Over(reg[t])
      <4>1. /\ calibrate' = FALSE /\ pc["timer"] = "check" /\ pc'["timer"] = "stop"
            /\ pc'["cloud"] = pc["cloud"] /\ pc["cloud"] \notin {"branch", "start", "train"}
        BY <2>9, <3>4, CallbackGoes, Uncrossed DEF Check, Starting
      <4> QED
        BY <2>1, <3>1, <3>2, <4>1 DEF StartsWithFlag, Following
    <3>5. CASE t = "timer" /\ ~Over(reg[t])
      <4>1. /\ calibrate' = calibrate /\ pc["timer"] = "check" /\ pc'["timer"] = "report"
            /\ pc'["cloud"] = pc["cloud"]
        BY <2>9, <3>5, CallbackGoes DEF Check
      <4> QED
        BY <2>1, <3>1, <3>2, <4>1 DEF StartsWithFlag, Following
    <3> QED
      BY <3>3, <3>4, <3>5, PlacesAre
  <2>10. ASSUME NEW t \in Tasks, StopTimer(t)
         PROVE  StartsWithFlag' /\ Following'
    <3>1. UNCHANGED <<calibrate, training>> /\ commands' = Append(commands, "stop") /\ ~calibrate
      BY <2>10, Uncrossed, Zenon DEF StopTimer
    <3>2. ~TimerWillRun'
      BY <3>1, QueueEnds
    <3>3. /\ t = "cloud" => /\ pc["cloud"] = "stop" /\ pc'["cloud"] = "train_stop"
                            /\ pc'["timer"] = pc["timer"]
          /\ t = "timer" => /\ pc["timer"] = "stop" /\ pc'["timer"] = "train_stop"
                            /\ pc'["cloud"] = pc["cloud"]
      BY <2>10, CallbackGoes
    <3> QED
      BY <2>1, <3>1, <3>2, <3>3, PlacesAre DEF StartsWithFlag, Following
  <2>11. ASSUME NEW t \in Tasks, esp_radar_train_stop(t)
         PROVE  StartsWithFlag' /\ Following'
    <3>1. UNCHANGED <<calibrate, commands, timer>> /\ training' = FALSE /\ ~calibrate
      BY <2>11, Uncrossed, Zenon DEF esp_radar_train_stop
    <3>2. TimerWillRun' = TimerWillRun
      BY <3>1, Zenon DEF TimerWillRun, Last
    <3>3. /\ t = "cloud" => /\ pc["cloud"] = "train_stop" /\ pc'["cloud"] = "save"
                            /\ pc'["timer"] = pc["timer"]
          /\ t = "timer" => /\ pc["timer"] = "train_stop" /\ pc'["timer"] = "save"
                            /\ pc'["cloud"] = pc["cloud"]
      BY <2>11, CallbackGoes
    <3> QED
      BY <2>1, <3>1, <3>2, <3>3, PlacesAre DEF StartsWithFlag, Following
  <2>12. CASE Expire \/ Commanded
    <3>1. /\ UNCHANGED <<calibrate, commands, timer, training>> /\ pc'["cloud"] = pc["cloud"]
          /\ pc["timer"] \notin {"stop", "train_stop"}
      BY <2>12, DaemonGoes DEF Expire, Commanded
    <3> QED
      BY <2>1, <2>2, <3>1 DEF StartsWithFlag, Following
  <2>13. CASE Command
    <3>1. UNCHANGED <<calibrate, training, pc>> /\ (TimerWillRun' <=> TimerWillRun)
      BY <2>13, QueueEnds, Zenon DEF Command
    <3> QED
      BY <2>1, <3>1, Zenon DEF StartsWithFlag, Following
  <2> QED
    BY <1>3, <2>3, <2>4, <2>5, <2>6, <2>7, <2>8, <2>9, <2>10, <2>11, <2>12, <2>13, Steps, Zenon
<1> QED
  BY <1>1, <1>2, <1>3
-----------------------------------------------------------------------------
(* One more expiry takes one more interval. *)
LEMMA ElapsedGrows ==
  ASSUME TypeOK
  PROVE  /\ Elapsed \in Nat /\ Interval \in Nat \ {0} /\ Interval * 0 = 0
         /\ Interval * (ticks + 1) = Elapsed + Interval
         /\ ticks > 0 => Interval * (ticks - 1) = Elapsed - Interval
<1>1. ticks \in Nat /\ Interval \in Nat \ {0}
  BY Zenon DEF TypeOK
<1> QED
  BY <1>1 DEF Elapsed

(* The time left is the timeout less the intervals that have gone by, if   *)
(* the timeout was stored whole.                                           *)
LEMMA TimeStep ==
  ASSUME TypeOK, ToldAsStored, ~crossed => StartsWithFlag /\ TimeLeft, [Next]_vars, ~crossed'
  PROVE  TimeLeft'
<1>1. /\ timerleft \in Int /\ started \in Int /\ ticks \in Nat /\ reg \in [Tasks -> Int]
      /\ timeout \in Int /\ reg["timer"] \in Int
  BY PlacesAre DEF TypeOK
<1>2. ASSUME ~calibrate' \/ pc'["cloud"] = "branch" \/ ~(started' < Width) PROVE TimeLeft'
  BY <1>2, Zenon DEF TimeLeft
<1>3. CASE WriteCalibrate
  BY <1>2, <1>3, CloudGoes, Zenon
<1>4. CASE Reboot
  BY <1>2, <1>4, Uncrossed, Zenon DEF Reboot
<1>5. CASE ~WriteCalibrate /\ ~Reboot
  <2>1. StartsWithFlag /\ TimeLeft
    BY <1>5, Uncrossed, Zenon
  <2>2. ASSUME UNCHANGED <<timerleft, started, ticks, calibrate>>, reg'["timer"] = reg["timer"],
               pc["cloud"] = "branch" => pc'["cloud"] = "branch",
               pc'["timer"] = "check" <=> pc["timer"] = "check"
        PROVE  TimeLeft'
    BY <2>1, <2>2, Zenon DEF TimeLeft, Elapsed
  <2>3. CASE UNCHANGED vars
    BY <2>2, <2>3, Zenon DEF vars
  <2>4. CASE WriteTimeout \/ Start \/ esp_radar_train_start \/ Publish \/ Persist
    <3>1. /\ UNCHANGED <<timerleft, started, ticks, calibrate, reg>>
          /\ pc["cloud"] # "branch" /\ pc'["timer"] = pc["timer"]
      BY <2>4, CloudGoes DEF WriteTimeout, Start, esp_radar_train_start, Publish, Persist
    <3> QED
      BY <2>2, <3>1, Zenon
  <2>5. CASE Branch
    <3>1. CASE calibrate /\ seconds < Width
      <4>1. /\ timerleft' = timeout /\ started' = seconds /\ ticks' = 0
            /\ pc["timer"] # "check" /\ pc'["timer"] = pc["timer"]
        BY <2>5, <3>1, CloudGoes, Uncrossed, Zenon DEF Branch
      <4>2. timerleft' = started' - Interval * ticks'
        BY <1>1, <3>1, <4>1, ElapsedGrows DEF ToldAsStored
      <4> QED
        BY <4>1, <4>2, Zenon DEF TimeLeft, Elapsed
    <3>2. CASE ~(calibrate /\ seconds < Width)
      <4>1. ~calibrate' \/ ~(started' < Width)
        BY <2>5, <3>2, Zenon DEF Branch
      <4> QED
        BY <1>2, <4>1, Zenon
    <3> QED
      BY <3>1, <3>2
  <2>6. ASSUME NEW t \in Tasks, StopTimer(t) \/ esp_radar_train_stop(t) \/ Save(t) \/ Report(t) \/ Show(t)
        PROVE  TimeLeft'
    <3>1. UNCHANGED <<timerleft, started, ticks, calibrate, reg>>
      BY <2>6, Zenon DEF StopTimer, esp_radar_train_stop, Save, Report, Show
    <3>2. /\ pc["cloud"] = "branch" => pc'["cloud"] = "branch"
          /\ pc'["timer"] = "check" <=> pc["timer"] = "check"
      BY <2>6, CallbackGoes, PlacesAre DEF Return
    <3> QED
      BY <2>2, <3>1, <3>2, Zenon
  <2>7. CASE Tick("cloud")
    <3>1. /\ UNCHANGED <<timerleft, started, ticks, calibrate>> /\ reg'["timer"] = reg["timer"]
          /\ pc["cloud"] # "branch" /\ pc'["timer"] = pc["timer"]
      BY <1>1, <2>7, CallbackGoes, PlacesAre DEF Tick
    <3> QED
      BY <2>2, <3>1, Zenon
  <2>8. CASE Tick("timer")
    <3>1. /\ UNCHANGED <<timerleft, started, calibrate>> /\ pc'["cloud"] = pc["cloud"]
          /\ pc["timer"] = "tick" /\ pc'["timer"] = "check" /\ ticks' = ticks + 1
          /\ reg'["timer"] = timerleft - Interval
      BY <1>1, <2>8, CallbackGoes, PlacesAre DEF Tick
    <3>2. CASE calibrate /\ pc["cloud"] # "branch" /\ started < Width
      <4>1. timerleft = started - Elapsed /\ (ticks = 0 \/ timerleft >= Interval)
        BY <2>1, <3>1, <3>2 DEF TimeLeft
      <4>2. Elapsed' = Elapsed + Interval
        BY <3>1, ElapsedGrows, Zenon DEF Elapsed
      <4>3. /\ ticks' > 0 /\ reg'["timer"] = started' - Elapsed'
            /\ timerleft' = reg'["timer"] + Interval
            /\ ticks' = 1 \/ timerleft' >= Interval
        BY <1>1, <3>1, <4>1, <4>2, ElapsedGrows
      <4> QED
        BY <3>1, <4>3, Zenon DEF TimeLeft
    <3>3. CASE ~(calibrate /\ pc["cloud"] # "branch" /\ started < Width)
      BY <1>2, <3>1, <3>3, Zenon
    <3> QED
      BY <3>2, <3>3
  <2>9. ASSUME NEW t \in Tasks, Check(t)
        PROVE  TimeLeft'
    <3>1. CASE Over(reg[t])
      BY <1>2, <2>9, <3>1, Zenon DEF Check
    <3>2. CASE ~Over(reg[t])
      <4>1. t = "timer"
        BY <2>9, <3>2, Uncrossed, Zenon
      <4>2. /\ timerleft' = reg["timer"] /\ UNCHANGED <<started, calibrate, ticks>>
            /\ pc["timer"] = "check" /\ pc'["timer"] = "report" /\ pc'["cloud"] = pc["cloud"]
        BY <2>9, <3>2, <4>1, CallbackGoes DEF Check
      <4>3. CASE calibrate /\ pc["cloud"] # "branch" /\ started < Width
        <5>1. reg["timer"] = started - Elapsed
          BY <2>1, <4>2, <4>3 DEF TimeLeft
        <5>2. reg["timer"] >= Interval
          BY <1>1, <3>2, <4>1 DEF Over
        <5>3. Elapsed' = Elapsed
          BY <4>2, Zenon DEF Elapsed
        <5>4. timerleft' = started' - Elapsed' /\ timerleft' >= Interval
          BY <4>2, <5>1, <5>2, <5>3, Zenon
        <5> QED
          BY <4>2, <5>4 DEF TimeLeft
      <4>4. CASE ~(calibrate /\ pc["cloud"] # "branch" /\ started < Width)
        BY <1>2, <4>2, <4>4, Zenon
      <4> QED
        BY <4>3, <4>4
    <3> QED
      BY <3>1, <3>2
  <2>10. CASE Expire \/ Commanded
    <3>1. /\ UNCHANGED <<timerleft, started, ticks, calibrate, reg>> /\ pc'["cloud"] = pc["cloud"]
          /\ pc["timer"] # "check" /\ pc'["timer"] # "check"
      BY <2>10, DaemonGoes DEF Expire, Commanded
    <3> QED
      BY <2>2, <3>1, Zenon
  <2>11. CASE Command
    BY <2>2, <2>11, Zenon DEF Command
  <2>12. ASSUME NEW t \in Tasks, Tick(t) PROVE TimeLeft'
    BY <2>7, <2>8, <2>12, PlacesAre, Zenon
  <2> QED
    BY <1>5, <2>3, <2>4, <2>5, <2>6, <2>9, <2>10, <2>11, <2>12, Steps, Zenon
<1> QED
  BY <1>3, <1>4, <1>5

-----------------------------------------------------------------------------
(* The invariant holds initially. *)
LEMMA InitInv ==
  Init => IInv
<1> SUFFICES ASSUME Init PROVE IInv
  OBVIOUS
<1>1. /\ 0 \in 0 .. Width - 1 /\ 0 \in Nat /\ 0 \in Int /\ <<>> \in Seq({"start", "stop"})
      /\ DefaultTimeout \in 0 .. Width - 1 /\ DefaultTimeout \in Nat
  OBVIOUS
<1>2. pc["cloud"] = "idle" /\ pc["timer"] = "idle" /\ "idle" \in Places
  BY PlacesAre DEF Init
<1>3. TypeOK
  BY <1>1, <1>2 DEF Init, TypeOK
<1>4. SavedSoon /\ ReportedSoon /\ ToldAsStored
  BY DEF Init, SavedSoon, ReportedSoon, Blob, ToldAsStored
<1>5. StartsWithFlag /\ Following /\ TimeLeft
  BY <1>2 DEF Init, StartsWithFlag, Following, TimeLeft, TimerWillRun
<1> QED
  BY <1>3, <1>4, <1>5, Zenon DEF IInv

(* The invariant is kept by every step. *)
LEMMA NextInv ==
  IInv /\ [Next]_vars => IInv'
BY TypeStep, ToldStep, SavedStep, ReportedStep, FollowingStep, TimeStep, Zenon DEF IInv

(* The invariant of the calibration: what is on its way to the blob, to    *)
(* the app, to the timer and to the library, in every step of both tasks.  *)
THEOREM CalibrateInvariant ==
  Spec => []IInv
<1>1. Init /\ [][Next]_vars => []IInv
  BY InitInv, NextInv, PTL
<1> QED
  BY <1>1, PTL DEF Spec

(* Types: a timeout, stored or started with, fits its width. *)
THEOREM CalibrateTypes ==
  Spec => []TypeOK
<1>1. IInv => TypeOK
  BY Zenon DEF IInv
<1> QED
  BY <1>1, CalibrateInvariant, PTL

(* At rest the timer runs and the library learns exactly while the flag is *)
(* set, unless a finish and a newer calibration ran into each other or a   *)
(* reboot came during one.                                                 *)
THEOREM CoherentAtRest ==
  Spec => []Coherent
<1>1. ASSUME IInv PROVE Coherent
  <2>1. TypeOK /\ (~crossed => Following)
    BY <1>1, Zenon DEF IInv
  <2>2. ASSUME AtRest, ~crossed
        PROVE  (training <=> calibrate) /\ (timer = "active" <=> calibrate)
    <3>1. pc["cloud"] = "idle" /\ pc["timer"] = "idle" /\ commands = <<>>
      BY <2>2, PlacesAre, Zenon DEF AtRest
    <3>2. TimerWillRun <=> timer = "active"
      BY <3>1, Zenon DEF TimerWillRun
    <3>3. Following
      BY <2>1, <2>2, Zenon
    <3>4. calibrate => TimerWillRun /\ training
      BY <3>1, <3>3 DEF Following
    <3>5. ~calibrate => ~TimerWillRun /\ ~training
      BY <3>1, <3>3 DEF Following
    <3> QED
      BY <3>2, <3>4, <3>5, Zenon
  <2> QED
    BY <2>2, Zenon DEF Coherent
<1> QED
  BY <1>1, CalibrateInvariant, PTL

(* At rest a reboot would bring back the configuration in force, whichever *)
(* of the two tasks wrote the blob last.                                   *)
THEOREM PersistedAtRest ==
  Spec => []Persisted
<1>1. ASSUME IInv PROVE Persisted
  <2>1. AtRest => pc["cloud"] = "idle" /\ pc["timer"] \notin Unsaved
    BY PlacesAre DEF AtRest, Unsaved
  <2> QED
    BY <1>1, <2>1, Zenon DEF IInv, SavedSoon, Persisted
<1> QED
  BY <1>1, CalibrateInvariant, PTL

(* At rest the app shows the flag, or its last report was overtaken by the *)
(* other task between the read and the update.                             *)
THEOREM AppShowsFlag ==
  Spec => []ShownAtRest
<1>1. ASSUME IInv PROVE ShownAtRest
  <2>1. AtRest => pc["cloud"] \in {"idle", "persist"} /\ pc["timer"] \notin Unreported
    BY PlacesAre DEF AtRest, Unsaved, Unreported
  <2> QED
    BY <1>1, <2>1, Zenon DEF IInv, ReportedSoon, ShownAtRest
<1> QED
  BY <1>1, CalibrateInvariant, PTL

(* A calibration that its timer ends has lasted the timeout that the app   *)
(* showed when it began, to within an interval, whatever timeout is written*)
(* meanwhile, for every one that fits its width.                           *)
THEOREM LastsAsAsked ==
  Spec => LastsItsTimeout
<1>1. ASSUME IInv, [Next]_vars, TimerEnds, started < Width
      PROVE  OnTime
  <2> USE DEF TimerEnds
  <2>1. TypeOK /\ (~crossed => TimeLeft)
    BY <1>1, Zenon DEF IInv
  <2>2. Check("timer") /\ Over(reg["timer"]) /\ ~WriteCalibrate /\ ~Reboot
    <3>1. ~WriteCalibrate /\ ~Reboot
      BY <1>1, <2>1, CloudGoes, PlacesAre DEF Reboot
    <3>2. ~(WriteTimeout \/ Branch \/ Start \/ esp_radar_train_start \/ Publish \/ Persist)
      BY <1>1, <2>1, CloudGoes
    <3>3. ~(Expire \/ Commanded) /\ ~Command /\ ~(UNCHANGED vars)
      BY <1>1, <2>1, DaemonGoes DEF Command, vars
    <3>4. ASSUME NEW t \in Tasks,
                 \/ Tick(t) \/ Check(t) \/ StopTimer(t) \/ esp_radar_train_stop(t)
                 \/ Save(t) \/ Report(t) \/ Show(t)
          PROVE  t = "timer" /\ Check(t) /\ Over(reg[t])
      BY <1>1, <2>1, <3>4, CallbackGoes, PlacesAre
    <3> QED
      BY <1>1, <3>1, <3>2, <3>3, <3>4, Steps, Zenon
  <2>3. ~crossed /\ ~Starting
    BY <1>1, <2>1, <2>2, Uncrossed, PlacesAre, Zenon
  <2>4. pc["cloud"] # "branch"
    BY <2>3 DEF Starting
  <2>5. /\ ticks > 0 /\ reg["timer"] = started - Elapsed
        /\ timerleft = reg["timer"] + Interval
        /\ ticks = 1 \/ timerleft >= Interval
    BY <1>1, <2>1, <2>3, <2>4, Zenon DEF TimeLeft
  <2>6. /\ timerleft \in Int /\ started \in Int /\ ticks \in Nat /\ reg["timer"] \in Int
    BY <2>1, PlacesAre DEF TypeOK
  <2>7. reg["timer"] < Interval
    BY <2>2, Zenon DEF Over
  <2>8. started - Interval < Elapsed
    BY <2>1, <2>5, <2>6, <2>7, ElapsedGrows
  <2>9. ticks = 1 \/ Interval * (ticks - 1) < started
    BY <2>1, <2>5, <2>6, ElapsedGrows
  <2> QED
    BY <2>8, <2>9, Zenon DEF Elapsed, OnTime
<1>2. IInv /\ [Next]_vars => [TimerEnds /\ started < Width => OnTime]_vars
  BY <1>1, Zenon
<1>3. Spec => [][Next]_vars
  BY PTL DEF Spec
<1> QED
  BY <1>2, <1>3, CalibrateInvariant, PTL DEF LastsItsTimeout
=============================================================================
