---------------------------- MODULE MCComponents ----------------------------
(***************************************************************************)
(* The smaller components, model-checked in one run: they share no state,  *)
(* so each behaviour is one of a single component, chosen in the initial   *)
(* state, with the others at rest. Every component is its own module; this *)
(* one only gives them their bounds and names their properties.            *)
(***************************************************************************)
EXTENDS Integers, Sequences, FiniteSets

CONSTANTS
  Apps, MaxFaults, MaxRestarts,                                        \* Startup
  MaxSessions, MaxAborts,                                              \* PingCmd
  RX_BUFFER_SIZE, Short, RecordSizes, OtherSizes, MaxLines,
  MaxConnections,                                                      \* EvalServer
  Intervals, NullData, MaxCommands, MaxConnects,                       \* RadarConfig
  RADAR_BUFF_MAX_LEN, Jitters, NOISE, SENSITIVITY, Thresholds,
  BuffSizes, OutlierNumbers, MaxValues, MaxRadarCommands,              \* RadarPresence
  WrongFactors,                                                        \* Fft
  SAMPLES, BYTE, WORD, AgcGains, FftBytes, MaxPackets,                 \* CsiGain
  CollectNumbers, QueueSize, PipeSize, MaxSamples, MaxCleans            \* HostTool

(* Values a .cfg cannot give: lines that are records, too short for one or *)
(* none; unit vectors that span the inputs; the gains that bytes stand     *)
(* for, of which some are negative.                                        *)
Line(csi, body) == [csi |-> csi, body |-> body]
Lines == {Line(TRUE, n) : n \in RecordSizes} \cup {Line(FALSE, n) : n \in OtherSizes}
Inputs == 0 .. 63
FftGains == {IF b < BYTE \div 2 THEN b ELSE b - BYTE : b \in FftBytes}

ASSUME ComponentsAssumption ==
  /\ {MaxFaults, MaxRestarts, MaxAborts, MaxCommands, MaxRadarCommands, MaxPackets, MaxCleans,
      PipeSize} \subseteq Nat
  /\ {MaxSessions, MaxConnects, MaxLines, MaxConnections, MaxValues, SAMPLES,
      QueueSize, MaxSamples, RADAR_BUFF_MAX_LEN} \subseteq Nat \ {0}
  /\ \A S \in {Thresholds, BuffSizes, OutlierNumbers} : S \subseteq Nat /\ 1 \in S
  /\ RX_BUFFER_SIZE > Short + 1 /\ 10 \in Intervals /\ 0 \in Jitters /\ NullData \in BOOLEAN
  /\ "none" \notin Apps /\ CollectNumbers \subseteq Nat /\ WrongFactors \subseteq Int
  /\ {RX_BUFFER_SIZE, Short} \subseteq Nat /\ RecordSizes \cup OtherSizes \subseteq Nat
  /\ {BYTE, WORD} \subseteq Nat \ {0} /\ BYTE % 2 = 0 /\ SAMPLES * (BYTE - 1) < WORD
  /\ AgcGains \cup FftBytes \subseteq 0 .. BYTE - 1

VARIABLES
  component,  \* the one that runs
  app, chip, nvs, pc, done, early, faults, restarts,
  g_ping_handle, sessions, ping_console, arg, aborts, astray, raced, stray,
  g_tcp_server_task_handle, server, unsent, rx_buffer, ctx, analysed, received,
  connections, starts,
  config, g_send_data_interval, tasks, wanted, overlapped, overwritten, commands_left,
  connects, clients,
  predict_move_threshold, predict_buff_size, predict_outliers_number, train_start,
  s_buff_jitter, s_buff_count, ages, led, led_status, values, shown, moved, radar_commands,
  callee, X, inverse, input, factor, m, j, w, stage,
  receiver, s_count, agc_gain_sum, fft_gain_sum, forced, recorded, baselines, compensated, gains,
  window, button, count, timer, outgoing, cleaning, signalled, queue_write, queue_read, serial,
  row, taget_seq_last, folder, file, adjacent, misfiled, device, due, unheard,
  asked, cleans

Start == INSTANCE Startup
Ping == INSTANCE PingCmd
Eval == INSTANCE EvalServer
Radar == INSTANCE RadarConfig
Presence == INSTANCE RadarPresence WITH MaxCommands <- MaxRadarCommands
Transform == INSTANCE Fft
Gain == INSTANCE CsiGain
Host == INSTANCE HostTool

boot_vars == <<app, chip, nvs, pc, done, early, faults, restarts>>
ping_vars == <<g_ping_handle, sessions, ping_console, arg, aborts, astray, raced, stray>>
eval_vars == <<g_tcp_server_task_handle, server, unsent, rx_buffer, ctx, analysed, received,
               connections, starts>>
radar_vars == <<config, g_send_data_interval, tasks, wanted, overlapped, overwritten,
                commands_left, connects, clients>>
presence_vars == <<predict_move_threshold, predict_buff_size, predict_outliers_number,
                   train_start, s_buff_jitter, s_buff_count, ages, led, led_status, values,
                   shown, moved, radar_commands>>
fft_vars == <<callee, X, inverse, input, factor, m, j, w, stage>>
gain_vars == <<receiver, s_count, agc_gain_sum, fft_gain_sum, forced, recorded, baselines,
               compensated, gains>>
host_vars == <<window, button, count, timer, outgoing, cleaning, signalled, queue_write,
               queue_read, serial, row, taget_seq_last, folder, file, adjacent, misfiled,
               device, due, unheard, asked, cleans>>
vars == <<component, boot_vars, ping_vars, eval_vars, radar_vars, presence_vars, fft_vars,
          gain_vars, host_vars>>

-----------------------------------------------------------------------------
(* Those at rest are in one initial state. *)
Init ==
  /\ component \in {"Startup", "PingCmd", "EvalServer", "RadarConfig", "RadarPresence",
                    "Fft", "CsiGain", "HostTool"}
  /\ Start!Init /\ Ping!Init /\ Eval!Init /\ Radar!Init /\ Host!Init
  /\ Gain!Init /\ (component # "CsiGain" => receiver = "esp-crab")
  /\ Presence!Init
  /\ component # "RadarPresence" =>
       <<predict_move_threshold, predict_buff_size, predict_outliers_number>> = <<1, 1, 1>>
  /\ Transform!Init
  /\ component # "Fft" => <<callee, input, inverse, factor>> = <<"fft_iq", 0, TRUE, 0>>

(* One component takes a step. *)
Alone(name) == component = name /\ UNCHANGED component

StartStep ==
  /\ Alone("Startup") /\ Start!Next
  /\ UNCHANGED <<ping_vars, eval_vars, radar_vars, presence_vars, fft_vars, gain_vars,
                 host_vars>>
PingStep ==
  /\ Alone("PingCmd") /\ Ping!Next
  /\ UNCHANGED <<boot_vars, eval_vars, radar_vars, presence_vars, fft_vars, gain_vars,
                 host_vars>>
EvalStep ==
  /\ Alone("EvalServer") /\ Eval!Next
  /\ UNCHANGED <<boot_vars, ping_vars, radar_vars, presence_vars, fft_vars, gain_vars,
                 host_vars>>
RadarStep ==
  /\ Alone("RadarConfig") /\ Radar!Next
  /\ UNCHANGED <<boot_vars, ping_vars, eval_vars, presence_vars, fft_vars, gain_vars,
                 host_vars>>
PresenceStep ==
  /\ Alone("RadarPresence") /\ Presence!Next
  /\ UNCHANGED <<boot_vars, ping_vars, eval_vars, radar_vars, fft_vars, gain_vars,
                 host_vars>>
TransformStep ==
  /\ Alone("Fft") /\ Transform!Next
  /\ UNCHANGED <<boot_vars, ping_vars, eval_vars, radar_vars, presence_vars, gain_vars,
                 host_vars>>
GainStep ==
  /\ Alone("CsiGain") /\ Gain!Next
  /\ UNCHANGED <<boot_vars, ping_vars, eval_vars, radar_vars, presence_vars, fft_vars,
                 host_vars>>
HostStep ==
  /\ Alone("HostTool") /\ Host!Next
  /\ UNCHANGED <<boot_vars, ping_vars, eval_vars, radar_vars, presence_vars, fft_vars,
                 gain_vars>>

Next ==
  \/ StartStep \/ PingStep \/ EvalStep \/ RadarStep
  \/ PresenceStep \/ TransformStep \/ GainStep \/ HostStep

(* app_main has to go on, and so have the parts of the host tool, as their *)
(* modules say; of the component that runs alone.                          *)
Fairness ==
  /\ WF_boot_vars(component = "Startup" /\ Start!Step)
  /\ WF_host_vars(component = "HostTool" /\ Host!GuiGoesOn)
  /\ WF_host_vars(component = "HostTool" /\ Host!DataHandleThread)
  /\ WF_host_vars(component = "HostTool" /\ Host!serial_handle)
Spec == Init /\ [][Next]_vars /\ Fairness

-----------------------------------------------------------------------------
(* The types of every component. *)
TypeOK ==
  /\ Start!TypeOK /\ Ping!TypeOK /\ Eval!TypeOK /\ Radar!TypeOK
  /\ Presence!TypeOK /\ Transform!TypeOK /\ Gain!TypeOK /\ Host!TypeOK

(* Start-up: nothing but the known cases comes before what it needs. *)
NothingElseEarly == Start!NothingElseEarly
(* Start-up: app_main comes to its end once calls stop failing. *)
BootEnds == component = "Startup" => Start!BootEnds
(* Ping: the handle is that of the live session. *)
HandleSound == Ping!HandleSound
(* Evaluation server: records come out whole, once and in order. *)
EachRecordOnce == Eval!EachRecordOnce
(* Radar configuration: updates last, unless a task overlapped them. *)
UpdatesKept == Radar!UpdatesKept
(* Radar callback: what is reported and lit is what was received. *)
MovesCounted == Presence!MovesCounted
(* FFT: the transform, and its first element whatever the factors. *)
Transformed == Transform!Transformed
(* Gains: the radio is forced to the average of the first packets. *)
GainIsAverage == Gain!GainIsAverage
(* Host tool: a file holds the rows of one sample. *)
SamplesApart == Host!SamplesApart
(* Host tool: the button tells whether the device collects. *)
ButtonHonest == Host!ButtonHonest
(* Host tool: a window that closes, a port that fails or an exception ends it. *)
HostEnds == Host!HostEnds
=============================================================================
