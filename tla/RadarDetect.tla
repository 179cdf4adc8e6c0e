---------------------------- MODULE RadarDetect ----------------------------
(***************************************************************************)
(* Detection in the RainMaker radar (examples/esp-radar/connect_rainmaker):*)
(* radar_cb takes one jitter value at a time, filters it through a window, *)
(* drives the LED and reports to the cloud, while the app changes the      *)
(* configuration between two values. Calibration itself is the module      *)
(* RadarCalibrate; here it is a flag.                                      *)
(*                                                                         *)
(* Time stamps are replaced by the time since, in ticks, that stops at     *)
(* MaxAge: the wrap of the 32-bit milliseconds after 49 days is left out.  *)
(***************************************************************************)
EXTENDS Naturals, Sequences, FiniteSets

CONSTANTS
  RingSize,      \* RADAR_DETECT_BUFF_MAX_SIZE (16)
  Windows,       \* values of filter_window, of 1 .. 16
  Cycle,         \* a common multiple of them: s_buff_count is kept modulo this
  FilterCounts,  \* values of filter_count, of 1 .. 16
  Jitters,       \* jitter values
  Thresholds,    \* values of move_threshold
  Timeouts,      \* values of someone_timeout, in ticks
  LedHold,       \* ticks before a still room changes the LED (3 s)
  ReportEvery,   \* ticks between two reports of one movement (10 s)
  MaxAge         \* bound: ages and the steps of time stop here

ASSUME DetectAssumption ==
  /\ RingSize \in Nat \ {0} /\ Windows \subseteq 1 .. RingSize /\ Windows # {}
  /\ Cycle \in Nat \ {0} /\ \A w \in Windows : Cycle % w = 0
  /\ FilterCounts \subseteq Nat \ {0} /\ Jitters \subseteq Nat /\ Thresholds \subseteq Nat
  /\ \A t \in Timeouts \cup {LedHold, ReportEvery} : t \in Nat /\ t < MaxAge
  /\ MaxAge \in Nat

VARIABLES
  filter_window, filter_count, move_threshold, someone_timeout, threshold_calibrate,
  s_buff_jitter, s_buff_count,
  recent,              \* history: the last RingSize jitter values, newest first
  unchanged,           \* history: values since filter_window changed
  move_age,            \* time since s_last_move_time
  s_last_move_status,
  someone_status,      \* as the last detection had it
  detected,            \* history: the last step was a detection
  led, led_status,     \* the LED; whether the next flash is dark
  lit_by,              \* history: what set the LED last
  synced,              \* esp_rmaker_time_check()
  s_report_someone_status, s_report_move_status, s_report_move_count,
  report_age,          \* time since s_report_move_timestamp
  still,               \* history: reportable detections since the last movement
  cloud                \* the parameters as the cloud has them

config == <<filter_window, filter_count, move_threshold, someone_timeout, threshold_calibrate>>
window == <<s_buff_jitter, s_buff_count, recent, unchanged>>
room   == <<move_age, s_last_move_status, someone_status>>
light  == <<led, led_status, lit_by>>
report == <<s_report_someone_status, s_report_move_status, s_report_move_count,
            report_age, still, cloud>>
vars   == <<config, window, room, detected, light, synced, report>>

-----------------------------------------------------------------------------
Init ==
  /\ filter_window \in Windows /\ filter_count \in FilterCounts
  /\ move_threshold \in Thresholds /\ someone_timeout \in Timeouts
  /\ threshold_calibrate = FALSE
  /\ s_buff_jitter = [i \in 0 .. RingSize - 1 |-> 0] /\ s_buff_count = 0
  /\ recent = <<>> /\ unchanged = 0
  /\ move_age = 0 /\ s_last_move_status = FALSE /\ someone_status = FALSE
  /\ detected = FALSE
  /\ led = "off" /\ led_status = FALSE /\ lit_by = "boot"
  /\ synced = FALSE
  /\ s_report_someone_status = FALSE /\ s_report_move_status = FALSE
  /\ s_report_move_count = 0 /\ report_age = 0 /\ still = 0
  /\ cloud = [someone |-> FALSE, move |-> FALSE]

(* The app writes one parameter. *)
WriteWindow ==
  /\ filter_window' \in Windows \ {filter_window}
  /\ unchanged' = 0
  /\ UNCHANGED <<filter_count, move_threshold, someone_timeout, threshold_calibrate,
                 s_buff_jitter, s_buff_count, recent>>
WriteOther ==
  /\ \/ filter_count' \in FilterCounts \ {filter_count}
        /\ UNCHANGED <<move_threshold, someone_timeout, threshold_calibrate>>
     \/ move_threshold' \in Thresholds \ {move_threshold}
        /\ UNCHANGED <<filter_count, someone_timeout, threshold_calibrate>>
     \/ someone_timeout' \in Timeouts \ {someone_timeout}
        /\ UNCHANGED <<filter_count, move_threshold, threshold_calibrate>>
     \/ threshold_calibrate' = ~threshold_calibrate
        /\ UNCHANGED <<filter_count, move_threshold, someone_timeout>>
  /\ UNCHANGED <<filter_window, window>>
write_cb ==
  /\ WriteWindow \/ WriteOther
  /\ detected' = FALSE
  /\ UNCHANGED <<room, light, synced, report>>

TimeSync ==
  /\ ~synced
  /\ synced' = TRUE
  /\ detected' = FALSE
  /\ UNCHANGED <<config, window, room, light, report>>

-----------------------------------------------------------------------------
(* radar_cb *)

Older(age, d) == IF age + d < MaxAge THEN age + d ELSE MaxAge

(* s_buff_count only ever matters modulo a window or compared with one. *)
Counted(n) == IF n < RingSize + Cycle THEN n ELSE n - Cycle

(* The value takes its place in the window; a variant fills the ring round. *)
PlaceInRing == s_buff_count % RingSize
Place == s_buff_count % filter_window
Filter(jitter) ==
  /\ s_buff_jitter' = [s_buff_jitter EXCEPT ![Place] = jitter]
  /\ s_buff_count' = Counted(s_buff_count + 1)
  /\ recent' = SubSeq(<<jitter>> \o recent, 1, IF Len(recent) < RingSize THEN Len(recent) + 1 ELSE RingSize)
  /\ unchanged' = IF unchanged < RingSize THEN unchanged + 1 ELSE RingSize

(* Movement: filter_count values of the window are above the threshold. *)
Above(values) == Cardinality({i \in DOMAIN values : values[i] > move_threshold})
MoveStatus == Above([i \in 0 .. filter_window - 1 |-> s_buff_jitter'[i]]) >= filter_count

Warm == s_buff_count + 1 < filter_window

(* The window is not full yet. *)
Warming(d) ==
  /\ Warm
  /\ move_age' = Older(move_age, d) /\ report_age' = Older(report_age, d)
  /\ detected' = FALSE
  /\ UNCHANGED <<s_last_move_status, someone_status, light, s_report_someone_status,
                 s_report_move_status, s_report_move_count, still, cloud>>

(* During calibration the LED flashes yellow and nothing else happens. *)
Flash(d) ==
  /\ ~Warm /\ threshold_calibrate
  /\ led' = IF led_status THEN "off" ELSE "yellow"
  /\ led_status' = ~led_status
  /\ lit_by' = "calibration"
  /\ move_age' = Older(move_age, d) /\ report_age' = Older(report_age, d)
  /\ detected' = FALSE
  /\ UNCHANGED <<s_last_move_status, someone_status, s_report_someone_status,
                 s_report_move_status, s_report_move_count, still, cloud>>

(* The status of the last value tells where a movement begins or ends; the *)
(* variant looks at it after it was overwritten.                           *)
ChangedNever(move) == FALSE
Changed(move) == move # s_last_move_status

(* The LED: green when a movement begins, white or off a while after its   *)
(* end. The variant forgets that the room may be occupied.                 *)
StillOff == "off"
StillColour == IF someone_status' THEN "white" ELSE "off"
Light(move, age) ==
  \/ /\ move /\ Changed(move)
     /\ led' = "green" /\ lit_by' = "detection"
  \/ /\ ~move /\ ~Changed(move) /\ age > LedHold
     /\ led' = StillColour /\ lit_by' = "detection"
  \/ /\ IF move THEN ~Changed(move) ELSE Changed(move) \/ age <= LedHold
     /\ UNCHANGED <<led, lit_by>>

(* The status held as reported: at the end of a movement it changes only   *)
(* once there are no movements left to count; in the variant at once.      *)
ReportedAtOnce(move, count) == move
Reported(move, count) ==
  IF ~s_report_move_status \/ count = 0 THEN move ELSE s_report_move_status

(* "No one" is reported when the last report of it differs, a movement  *)
(* when it begins, ends or, but for the variant, goes on.                *)
NoOneDue == s_report_someone_status # someone_status' /\ ~someone_status'
MoveDueOnce(move, age) == move # s_report_move_status
MoveDue(move, age) == move # s_report_move_status \/ (move /\ age > ReportEvery)
ToCloud(move, age) ==
  LET count == IF move THEN s_report_move_count + 1 ELSE s_report_move_count IN
  /\ s_report_someone_status' = IF NoOneDue THEN someone_status' ELSE s_report_someone_status
  /\ \/ /\ MoveDue(move, age)
        /\ cloud' = [someone |-> someone_status', move |-> move \/ count > 0]
        /\ s_report_move_status' = Reported(move, count)
        /\ s_report_move_count' = 0 /\ report_age' = 0
     \/ /\ ~MoveDue(move, age)
        /\ cloud' = IF NoOneDue THEN [cloud EXCEPT !.someone = FALSE] ELSE cloud
        /\ s_report_move_count' = count /\ report_age' = age
        /\ UNCHANGED s_report_move_status
  /\ still' = IF move THEN 0 ELSE IF still < 2 THEN still + 1 ELSE 2

Detect(d) ==
  LET age == Older(move_age, d) IN
  /\ ~Warm /\ ~threshold_calibrate
  /\ detected' = TRUE
  /\ someone_status' = (age < someone_timeout)
  /\ Light(MoveStatus, age)
  /\ move_age' = IF MoveStatus THEN 0 ELSE age
  /\ s_last_move_status' = MoveStatus
  /\ \/ synced /\ ToCloud(MoveStatus, Older(report_age, d))
     \/ /\ ~synced
        /\ report_age' = Older(report_age, d)
        /\ UNCHANGED <<s_report_someone_status, s_report_move_status,
                       s_report_move_count, still, cloud>>
  /\ UNCHANGED led_status

radar_cb ==
  /\ \E jitter \in Jitters : Filter(jitter)
  /\ \E d \in 1 .. MaxAge : Warming(d) \/ Flash(d) \/ Detect(d)
  /\ UNCHANGED <<config, synced>>

Next == write_cb \/ TimeSync \/ radar_cb

Spec == Init /\ [][Next]_vars

-----------------------------------------------------------------------------
TypeOK ==
  /\ filter_window \in Windows /\ filter_count \in FilterCounts
  /\ move_threshold \in Thresholds /\ someone_timeout \in Timeouts
  /\ s_buff_jitter \in [0 .. RingSize - 1 -> Jitters \cup {0}]
  /\ s_buff_count \in Nat /\ recent \in Seq(Jitters) /\ Len(recent) <= RingSize
  /\ unchanged \in 0 .. RingSize
  /\ move_age \in 0 .. MaxAge /\ report_age \in 0 .. MaxAge
  /\ s_report_move_count \in 0 .. ReportEvery /\ still \in 0 .. 2
  /\ led \in {"off", "green", "white", "yellow"}
  /\ lit_by \in {"boot", "calibration", "detection"}
  /\ cloud \in [someone : BOOLEAN, move : BOOLEAN]
  /\ \A flag \in {threshold_calibrate, s_last_move_status, someone_status, detected,
                  led_status, synced, s_report_someone_status, s_report_move_status} :
       flag \in BOOLEAN

(* Movement is told from the last filter_window values, as the README has *)
(* it, whatever the window was before: once as many values have come since*)
(* it changed, none of the older ones is left in it.                       *)
MovementIsRecent ==
  detected /\ unchanged >= filter_window =>
    (s_last_move_status <=> Above(SubSeq(recent, 1, filter_window)) >= filter_count)

(* Unless a calibration took the LED meanwhile, however the window, the    *)
(* timeouts and the reports go: it is green as long as movement is         *)
(* detected, and off only in a room where nothing moved for                *)
(* someone_timeout.                                                        *)
LedTellsRoom ==
  detected /\ lit_by # "calibration" =>
    /\ s_last_move_status => led = "green"
    /\ led = "off" /\ lit_by = "detection" => ~someone_status

(* The cloud hears of the end of a movement with the second value that    *)
(* shows none: the first report still carries the movements counted.       *)
StopReported == still = 2 => ~cloud.move

(* A comment of radar_cb: report the room status to the cloud every 10     *)
(* seconds or when the room status changes. So a cloud that has someone in *)
(* the room is told, 10 seconds later at most, that no one is any more.    *)
NoOneReported ==
  detected /\ synced /\ report_age > ReportEvery /\ cloud.someone => someone_status
=============================================================================
