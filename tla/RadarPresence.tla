--------------------------- MODULE RadarPresence ---------------------------
(***************************************************************************)
(* What console_test makes of the radar's values                           *)
(* (examples/esp-radar/console_test/main/app_main.c): wifi_radar_cb keeps  *)
(* the last ones in a ring, counts outliers among the newest, and shows    *)
(* with the LED who is there; the radar command changes what it goes by    *)
(* and starts and stops training. The callback is one step: its task has   *)
(* the highest priority.                                                   *)
(*                                                                         *)
(* External (esp-radar): the values; trimmean of the wander, of which only *)
(* the outcome "someone" is kept; median of the jitter.                    *)
(***************************************************************************)
EXTENDS Integers, Sequences, FiniteSets

CONSTANTS
  RADAR_BUFF_MAX_LEN,
  Jitters,         \* values of waveform_jitter; calloc's 0 among them
  NOISE,           \* the least jitter that is compared with the median: 0.0002
  SENSITIVITY,     \* 1 / predict_move_sensitivity
  Thresholds,      \* values of predict_move_threshold
  BuffSizes,       \* values of predict_buff_size; the help says 1 to 100
  OutlierNumbers,  \* values of predict_outliers_number
  MaxValues,       \* bound: callbacks
  MaxCommands      \* bound: radar commands

VARIABLES
  predict_move_threshold, predict_buff_size, predict_outliers_number, train_start,
  s_buff_jitter, s_buff_count,
  ages,           \* seconds since s_last_move_time and s_last_someone_time,
                  \* rounded: 0 and 1 are not over 3 seconds, 2 is
  led,
  led_status,     \* whether training has lit the LED
  values,         \* history: the jitters received, newest first
  shown,          \* history: room and human status of the last callback that
                  \* got so far and is recent, as a set
  moved,          \* history: age of the last movement of someone
  radar_commands  \* bound: commands so far

config == <<predict_move_threshold, predict_buff_size, predict_outliers_number, train_start>>
buff == <<s_buff_jitter, s_buff_count>>
presence_vars ==
  <<config, buff, ages, led, led_status, values, shown, moved, radar_commands>>

-----------------------------------------------------------------------------
Long == 2
Ring == 0 .. RADAR_BUFF_MAX_LEN - 1
None == {"no report"}

Init ==
  /\ predict_move_threshold \in Thresholds /\ predict_buff_size \in BuffSizes
  /\ predict_outliers_number \in OutlierNumbers /\ train_start = FALSE
  /\ s_buff_jitter = [i \in Ring |-> 0] /\ s_buff_count = 0
  /\ ages = [move |-> 0, someone |-> 0]
  /\ led = "off" /\ led_status = FALSE
  /\ values = <<>> /\ shown = None /\ moved = Long /\ radar_commands = 0

(* The middle of the values in a function. *)
median(f) ==
  CHOOSE m \in Jitters :
    /\ 2 * Cardinality({i \in DOMAIN f : f[i] < m}) <= Cardinality(DOMAIN f)
    /\ 2 * Cardinality({i \in DOMAIN f : f[i] > m}) < Cardinality(DOMAIN f)

(* A value is an outlier by the threshold, or by the median. *)
Outlier(value, midean) ==
  \/ value > SENSITIVITY * predict_move_threshold
  \/ value > SENSITIVITY * midean /\ value > NOISE

-----------------------------------------------------------------------------
(* The newest entries, the one just written first; the variant starts with *)
(* the one to be written next.                                             *)
IndexFromNext(count, i) == (count - i) % RADAR_BUFF_MAX_LEN
Index(count, i) == (count - 1 - i) % RADAR_BUFF_MAX_LEN

Lit(room, human) ==
  IF room
  THEN IF human THEN "green" ELSE IF ages.move = Long THEN "white" ELSE led
  ELSE IF ages.someone < Long THEN led
       ELSE IF human THEN "red" ELSE IF ages.move = Long THEN "off" ELSE led

Report(room, human) ==
  /\ led' = Lit(room, human)
  /\ ages' = [move |-> IF human /\ (room \/ ages.someone = Long) THEN 0 ELSE ages.move,
              someone |-> IF room THEN 0 ELSE ages.someone]
  /\ shown' = {s \in {"room", "human"} : IF s = "room" THEN room ELSE human}
  /\ moved' = IF room /\ human THEN 0 ELSE moved
  /\ UNCHANGED led_status

(* While training runs the LED blinks, and both times are now. *)
Train ==
  /\ ages' = [move |-> 0, someone |-> 0]
  /\ led' = IF led_status THEN "off" ELSE "yellow"
  /\ led_status' = ~led_status
  /\ shown' = None
  /\ UNCHANGED moved

wifi_radar_cb ==
  /\ s_buff_count < MaxValues
  /\ \E jitter \in Jitters, someone \in BOOLEAN :
       LET count == s_buff_count + 1
           jitters == [s_buff_jitter EXCEPT ![s_buff_count % RADAR_BUFF_MAX_LEN] = jitter]
           moves == {i \in 0 .. predict_buff_size - 1 :
                       Outlier(jitters[Index(count, i)], median(jitters))}
       IN /\ s_buff_jitter' = jitters /\ s_buff_count' = count
          /\ values' = <<jitter>> \o values
          /\ \/ /\ count < predict_buff_size
                /\ shown' = None
                /\ UNCHANGED <<ages, led, led_status, moved>>
             \/ /\ count >= predict_buff_size /\ train_start
                /\ Train
             \/ /\ count >= predict_buff_size /\ ~train_start
                /\ Report(someone /\ predict_buff_size >= 1,
                          Cardinality(moves) >= predict_outliers_number)
  /\ UNCHANGED <<config, radar_commands>>

(* Time: to within 3 seconds, or past them. *)
Older(age) == IF age = Long THEN Long ELSE age + 1
TimePasses ==
  /\ ages' = [a \in DOMAIN ages |-> Older(ages[a])]
  /\ moved' = Older(moved) /\ shown' = None
  /\ UNCHANGED <<config, buff, led, led_status, values, radar_commands>>

-----------------------------------------------------------------------------
(* wifi_cmd_radar: --train_start; --train_stop, which gets a threshold     *)
(* from the library; --predict_move_threshold, --predict_buff_size and     *)
(* --predict_outliers_number, each of which may come with the others.      *)
wifi_cmd_radar ==
  /\ radar_commands < MaxCommands
  /\ radar_commands' = radar_commands + 1
  /\ \/ train_start' \in BOOLEAN /\ UNCHANGED <<predict_buff_size, predict_outliers_number>>
        /\ IF train_start' THEN UNCHANGED predict_move_threshold
                           ELSE predict_move_threshold' \in Thresholds
     \/ /\ predict_move_threshold' \in Thresholds /\ predict_buff_size' \in BuffSizes
        /\ predict_outliers_number' \in OutlierNumbers /\ UNCHANGED train_start
  /\ shown' = None
  /\ UNCHANGED <<buff, ages, led, led_status, values, moved>>

Next == wifi_radar_cb \/ TimePasses \/ wifi_cmd_radar

-----------------------------------------------------------------------------
TypeOK ==
  /\ s_buff_jitter \in [Ring -> Jitters] /\ s_buff_count \in 0 .. MaxValues
  /\ predict_move_threshold \in Thresholds /\ predict_buff_size \in BuffSizes
  /\ predict_outliers_number \in OutlierNumbers /\ train_start \in BOOLEAN
  /\ ages \in [{"move", "someone"} -> 0 .. Long] /\ moved \in 0 .. Long
  /\ led \in {"off", "yellow", "green", "white", "red"}

(* A report says that a human moved exactly when that many of the last     *)
(* predict_buff_size values received are outliers, unless the size is past *)
(* the ring, which the help allows and where values count more than once.  *)
(* Just after a report the LED is green when someone moves, and otherwise, *)
(* whatever training and time did before, only if someone moved within the *)
(* last 3 seconds or nobody is there but was within 3 seconds (so that it  *)
(* may stay green for nearly 6).                                           *)
Newest(n) == {i \in 1 .. n : i <= Len(values)}
Window == [i \in 1 .. RADAR_BUFF_MAX_LEN |-> IF i <= Len(values) THEN values[i] ELSE 0]
MovesCounted ==
  shown # None =>
    /\ predict_buff_size \in 1 .. RADAR_BUFF_MAX_LEN =>
         ("human" \in shown <=>
            Cardinality({i \in Newest(predict_buff_size) : Outlier(values[i], median(Window))})
              >= predict_outliers_number)
    /\ led = "green" => moved < Long \/ ("room" \notin shown /\ ages.someone < Long)
    /\ {"room", "human"} \subseteq shown => led = "green"
=============================================================================
