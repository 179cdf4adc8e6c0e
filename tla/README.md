# Formal models of esp-csi

TLA+ models of the programs in this repository that use Wi-Fi channel state
information (CSI) on ESP32 chips, with TLC configurations that check them and
TLAPS proofs. Paths below are relative to `src/examples/` unless they begin
with `src/`.

## 1. The system

The repository is a set of example firmwares around a prebuilt radar library
(`src/components/esp-radar`, header only), and host tools. Everything runs on
FreeRTOS: tasks with priorities, queues written with a zero timeout, software
timers whose callbacks run in one daemon task, Wi-Fi and UART callbacks in
driver tasks or interrupts. Almost no state is protected by a lock.

| component | state | operations | talks to |
|---|---|---|---|
| esp-crab `slave_send` | `count` | a loop that broadcasts `count` | the receivers, by ESP-NOW |
| esp-crab receivers (`master_recv`, `slave_recv`) | receive queue of heap pointers, `master_data` table, `time_zero` | CSI callback, worker task, sync interrupt | display queue, UART |
| esp-crab UART link | driver FIFO, ring buffer, event queue, `uart_recv_queue` | driver interrupt, `uart_event_task` | the display task |
| esp-crab display | last frame, chart position | `csi_data_display_task`, two modes | LVGL |
| esp-crab FFT, board support, screens | buffers, handles | arithmetic, I/O, generated code | |
| connect_rainmaker calibration | `g_detect_config`, NVS blob, timer, time left | `write_cb` (cloud task), `auto_calibrate_timercb` (timer daemon and cloud task), boot | RainMaker cloud, radar library |
| connect_rainmaker detection | window of jitter values, statics of `radar_cb` | `radar_cb` | LED, RainMaker cloud |
| console_test collection | label, number, timer handle | `radar` command (console task), `collect_timercb` (timer daemon) | the task that prints rows |
| console_test callbacks | queue of CSI rows, 25-entry rings, radar configuration | `wifi_csi_raw_cb`, `wifi_radar_cb`, sender tasks | serial port |
| console_test commands | event group, `s_reconnect`, ping handle | `wifi_config`, `ping`, system commands | Wi-Fi driver |
| console_test evaluation server | receive buffer | `tcp_server_task` | host tool |
| console_test host tool | two processes, queues, files per (target, sequence) | serial process, data thread, GUI handlers | the device, by serial port |
| get-started | gain sums | print what one callback receives | serial port |

What is hard here is never one function by itself:

* **interleaving without locks**: timer daemon against cloud or console task,
  display task against worker task, interrupt against task;
* **bounded queues that drop** at every stage, so that two chips keep different
  subsequences of what was sent;
* **non-atomic pairs of calls**: `uart_flush_input` then `xQueueReset`, read a
  flag then report it, copy a row while it is stored;
* **reboots** of the sender (ids start again) and of the radar (NVS keeps a
  flag whose timer is gone);
* **widths**: a `uint8_t` for 10..3600 seconds, a `uint32_t` counted down from 0.

What makes each component correct:

* esp-crab: no heap block is lost or freed twice except where the code is known
  to leak; a pair plotted is two captures of one transmission; plots keep the order.
* UART link: a frame may be lost, or two joined to one when an overflow goes
  unreported, but none is made up, repeated or reordered; the task never waits
  for bytes that will not come.
* calibration: flag, timer, library, NVS and app agree when nothing is in
  progress; a calibration ends, and lasts its timeout if that fits its byte.
* detection: movement is judged from the last `filter_window` values; LED and
  cloud follow what was detected.
* collection: as many samples as asked for, one timer, no freed timer used, the
  label is taken away.
* Wi-Fi commands: at rest the flags say what the station does, the station is
  on the network last asked for or down when told so, and never left idle.
* start-up: no call, interrupt, callback or command comes before what it needs,
  and app_main comes to its end.
* radar configuration: an update lasts, whichever of four tasks makes it.
* radar callback: what is reported, and the colour of the LED, follow from the
  values received.
* ping: the handle is that of the live session, and no freed session is written.
* evaluation server: records come out whole, once and in order, however TCP cuts
  the stream.
* FFT: the transform is the discrete Fourier transform of its input.
* gains: the radio is forced to the average of the first packets.
* host tool: a file has the rows of one sample, the button tells what the device
  does, and a window that closes or a port that fails ends both processes.

`PROJECT.json` lists every component with its status, and under `hazards` each
hard spot at its line with the properties that cover it.

## 2. Plan

| step | modules | runs | proofs |
|---|---|---|---|
| 1 | `EspCrab`, `MCEspCrab` | done | `EspCrabProofs`: every property |
| 2 | `LossyLink` (abstract), `UartLink` (implements it) | done | `UartLinkProofs`: every property, the refinement included |
| 3 | `RadarCalibrate` | done | `RadarCalibrateProofs`: all but liveness |
| 4 | `RadarDetect` | done | `RadarDetectProofs`: every property |
| 5 | `ConsoleCollect`, with the task that prints the rows | done | `ConsoleCollectProofs`: all but liveness |
| 6 | `WifiConsole`: event group, reconnect flag, sender tasks | done | `WifiConsoleProofs`: all but liveness |
| 7 | `PingCmd`, `RadarConfig`, `HostTool`, `CsiGain` | done | `ComponentsProofs`: their safety properties |
| 8 | `RadarPresence`, `EvalServer` | done | `MoreComponentsProofs`: their safety properties |
| 9 | `Fft`, `Startup` | done | `ComponentsProofs`: `Transformed`; `MoreComponentsProofs`: all but liveness |
| 10 | `MCComponents`: the modules of steps 7 to 9 in one run | done | `MoreComponentsProofs`: `TypeOK` |

`EspCrab` composes the chips and takes the UART link as two steps: one loses
any frame on the wire, the other delivers the oldest or one that begins as the
oldest and ends as the next. `UartLink` is the detail. Its refinement property
`InOrderLink` says that nothing else comes out of it: what is delivered is whole,
or has the beginning of one frame and the end of a later one, and is newer than
all before. (What lies between the two is lost first, so that they are the oldest
on the wire.) `RadarCalibrate` and
`RadarDetect` share `g_detect_config`: the latter takes the parameters and the
calibration flag as changing at any time, which covers every order in which the
former can change them.

## 3. Modules

### EspCrab (`esp-crab/`)

Sender, both receivers, UART (as a queue that loses and splices) and display. A transmission is
the pair of the sender's boot number and the id in the payload; the four floats
of a CIR are replaced by the transmission they were computed from, because
pairing is what can go wrong. The actions:

| action | code |
|---|---|
| `Send` | one turn of the sender's loop, and `wifi_csi_rx_cb` at any subset of the receivers: `calloc`, fill, `xQueueSend(.., 0)` |
| `SenderRestart` | the sender boots, `count` is 0 again |
| `gpio_isr_handler` | `xQueueReset` of a queue of pointers |
| `TaskReceive` | the `xQueueReceive` at the head of either worker task |
| `StoreHead`, `StoreBody` | the copy of 32 bytes into `master_data`, id before CIR; then display queue and `free` |
| `SlaveSendFrame` | `uart_write_bytes` (blocks while full) and `free` |
| `UartLoss` | a frame does not get through: cut by the end of an event, a flush or an overflow |
| `UartFrame` | a frame is found between its markers and offered to `uart_recv_queue`: the oldest, or one with the beginning of the oldest and the end of the next |
| `DisplaySelf` | one turn of the loop in self mode |
| `DisplayReceive`, `DisplayPair` | one turn in dual mode, cut in the middle of the copy of the row |

The copies are cut in two because the tasks are preemptive (priorities 6 and 9)
and the struct has 32 bytes. Uninitialised `csi_display_data` is a choice of
`Init`: a zero start byte or not, and any id of `StackIds`. `live`, `leaked`,
`overlap`, `shown` are history variables.

A frame at the display has an id, the transmission its beginning is of and the one
its end is of (`Frame`). In a frame cut within the id the low bytes are of the one
and the high bytes of the other; `IdCuts` gives the places where the id may be
cut (`SplicedIds`). As in `UartLink`, a frame is cut once: two unreported
overflows within the 32 bytes of one frame are left out.

### LossyLink, UartLink (`esp-crab/master_recv/main/app/app_uart.c`)

`LossyLink` is what the link promises: a delivered frame is newer than all
delivered before it; it may be spliced from an older head and a newer tail.
`UartLink` has the driver (`Arrive`, `Interrupt`, `Restock`, `Report`: external,
from the documented behaviour of the ESP-IDF driver that `init_uart`
configures) and `uart_event_task` (`ReceiveEvent`, `HandleData`, `Flush`,
`ResetQueue`). A frame is two halves, the least that can be cut. `event.bytes`
holds the bytes an event announced; the code has their number only, and the
model uses nothing else of it outside properties. `Flush` (`uart_flush_input`)
and `ResetQueue` (`xQueueReset`) are two steps, since bytes that arrive between
them stay in the ring while their event is discarded; events then announce fewer
bytes than there are, and the scan's window lies before the bytes that came last.
A `UART_DATA` event that a full queue discards has the same effect. The link loses
frames by it, which is what `LossyLink` allows, and splices none.

### RadarCalibrate (`esp-radar/connect_rainmaker/main/app_main.c`)

Two tasks, each with a program counter, at the grain of single accesses to
`g_detect_config`, `g_auto_calibrate_timerleft`, the timer and the NVS.
`auto_calibrate_timercb` is written once, as actions with the task as
parameter, since `write_cb` calls it directly (line 307). The timer's commands
go through the daemon's queue; the daemon finishes its callback, then its
commands, then looks at timers. Writes of the other parameters only add more
saves of the same blob and are left out.

`seconds` is the timeout as the app shows it: what was written, or after a boot
what the NVS had. `timeout` is the byte of it that the code keeps. A calibration is
measured against the former (`started`).

### RadarDetect (the same file, `radar_cb`)

One action per call of `radar_cb`: `Filter` always, then one of `Warming`
(window not full), `Flash` (calibration) and `Detect` (LED, then the reports).
Time stamps are replaced by ages that stop at `MaxAge`; the step of time is
arbitrary. `s_buff_count` is kept modulo a common multiple of the windows,
above the ring size, which is all the code asks of it.

### ConsoleCollect (`esp-radar/console_test/main/app_main.c`)

The collect branch of `wifi_cmd_radar`, `collect_timercb` and
`csi_data_print_task`, at the grain of single accesses. Timers are numbered as
they are created; a command that reaches a deleted timer, or a timer call on
NULL, sets `broken`, and the run stops there because the code's behaviour is
undefined from there on (FreeRTOS asserts on NULL). The print task reads the
number and the label of a row in two steps (`PrintNumber`, `PrintTaget`), and
either can fall between the decrement of a callback and its reset of the label.

### WifiConsole (`esp-radar/console_test/components/commands/src/wifi_cmd.c`, `main/app_main.c`)

| action | code |
|---|---|
| `Config`, `Look` .. `WaitUp` | `wifi_config`, one action per access to `s_reconnect`, the event group or the driver (lines 327-349) |
| `ConfigDisconnect`, `ConfigDisconnected` | `wifi_config --disconnect` (293-297) |
| `Scan`, `ScanTry` | `wifi_scan`: its first disconnection, after which a malformed `--bssid` ends it, and the one before each try |
| `SetChannel` | `esp_wifi_set_channel` after a scan that found something (552-554) |
| `Handle` | the event loop takes an event |
| `StartSender`, `ClearStatus` | `wifi_event_handler` of `app_main.c`; the two handlers of an event run in the order in which they are registered, those for a whole event base first |
| `ClearDown`, `SetUp`, `ReadReconnect`, `Reconnect`, `ClearUp`, `SetDown` | `wifi_event_handler` of `wifi_cmd.c` |
| `SenderEnds` | a sender task finds the status cleared and leaves its loop (519-527) |
| `Associate`, `GotIp`, `Fault` | external: the driver |

Of the ESP-IDF driver it is assumed that `esp_wifi_connect` is refused unless
the station is idle, that `esp_wifi_disconnect` of any other station posts
`STA_DISCONNECTED`, and that `esp_wifi_set_config` is refused while the station
associates, where the `ESP_ERROR_CHECK` around it aborts; the run ends there, as
the device starts again from `Init`. `esp_wifi_set_channel`, which a scan calls
under `ESP_ERROR_CHECK` too, may be refused while the station connects: the
handler's reconnection of the station that the scan has disconnected can come
before it. The event group exists from the start,
since no event comes before the first `wifi_config` makes it (the configuration
is kept in RAM only). `wifi_config` with no `--ssid` and none stored changes
nothing of this state and is left out. The sender task of `main/app_main.c` has a
second form, which pings the router and ends at once (529-553); it is compiled
out, as `esp_radar.h:34` defines `WIFI_CSI_SEND_NULL_DATA_ENABLE` as 1.

### Startup (all eight applications)

`app_main`, with the functions of the repository it calls, is a program: a
sequence of library calls, each checked (`ESP_ERROR_CHECK` or an assertion, a
failure boots the chip again), plain (the result is ignored) or the first
initialisation of the NVS (erased and repeated in seven applications).

| action | code |
|---|---|
| `PowerOn` | an application and a chip, with an NVS partition that is ready or full |
| `Call`, `Erase` | the next call succeeds; the NVS is erased |
| `CallFails`, `CallTooEarly` | the next call fails by itself, or because what it needs was not called |
| `ActTooEarly` | an interrupt, callback, task or command that is enabled runs before what it needs exists |
| `restart_func`, `reset_func` | the system commands of console_test |

What a call needs is external: `Needs` states it per call, from the
documentation of ESP-IDF, and `Actors` what each call sets loose and what that needs.

### RadarConfig (`console_test/main/app_main.c`, `radar_evaluate.c`, `esp_radar.h`)

`esp_radar_get_config` and `esp_radar_set_config` are external and copy the
whole record; the four tasks that use them are `Main`, `RadarCommand` (with
`SendDataInterval`), `trigger_router_send_data_task` for every address obtained
(`GotIp`) and `tcp_server_task`, whose copy lives as long as its client. `NullData`
is TRUE in the run, as `esp_radar.h:34` has it, and either in the proofs.
`wanted` is what was last set on purpose.

### RadarPresence (`console_test/main/app_main.c`)

`wifi_radar_cb` in one action (its task has the highest priority), the options
of the radar command that change what it goes by, the training, and time.
`trimmean` and `median` belong to the library; the median is taken over the ring
as the code does, zeros of `calloc` included. `values` holds the values received,
newest first.

### PingCmd (`console_test/components/commands/src/ping_cmd.c`)

The console task makes, starts, stops and deletes sessions; every session has a
task that ends with `ping_cmd_on_end`. Reading `g_ping_handle` and the call it
is read for are two steps. `ping_sock.c` of ESP-IDF is external: stop and delete
clear a flag each, and the session's task frees it.

### EvalServer (`console_test/main/radar_evaluate.c`)

`tcp_server_task` over a stream cut anywhere. A character stands for about 100
bytes: the word CSI_DATA, a newline, or anything else, with its line. A line is
one that starts with CSI_DATA or not and has any size; `RecordSizes` and
`OtherSizes` give those a client may send. Nothing in the repository calls
`radar_evaluate_server`; the module takes it as called.

### HostTool (`console_test/tools/esp_csi_tool.py`)

| action | code |
|---|---|
| `StartPressed`, `DelayOver`, `NumberTick`, `StopPressed` | the button and the timers of a collection |
| `CleanPressed`, `RemoveFolder` | the removal of the files and then of their folder |
| `Close`, `Exit`, `Put` | `closeEvent`; a handler that waits for room in the queue |
| `DataHandleThread` | the thread that takes rows, and the failure of the port |
| `TakeCommand`, `ReadRow`, `MakeFolder`, `OpenFile`, `ReadOther`, `PutOther` | `serial_handle` |
| `JoinFeeder` | the end of the serial process, by `sys.exit` ("exiting") or by an exception ("crashing") |
| `DeviceTick` | a period of the device (in detail: `ConsoleCollect`) |

The clocks of window and device run alike: `due` lets the device's period end
once between two of the window's, unless a command is under way (`unheard`). An
exception in a handler ends a PyQt program, and opening a file without its folder
raises one in the serial process. Both can happen when "clean" runs while a file
is being opened. `ser.write` (line 1100) is outside any `try`: a port that fails as
it is written to ends the serial process with no FAIL_EVENT for the window.

A process of `multiprocessing` that ends, by `sys.exit` as by an exception, waits
for the thread that writes its queue into a pipe. That thread ends when all rows
are in the pipe, which takes `PipeSize` of them unread. The serial process holds
the reading end of the pipe as well, so the thread is not told that the window
has gone.

### Fft (`esp-crab/*/main/app/app_ifft.c`)

`fft_iq` and `fft`, butterfly by butterfly. Both are linear and only add,
subtract and multiply by powers of a root of unity, so the module computes
modulo 193, a prime with 64th roots of unity, and on unit vectors, which span all
inputs. `fft_iq` divides its angle by the raw `m` with `_IQ16div`, which the
library takes for a fixed-point number: whether the twiddle factor is right is
the library's matter, and `Transformed` therefore says what holds with the right
factor and what holds with any (the element that the receivers report).

### CsiGain (`get-started/csi_recv*`, `esp-crab/*_recv`)

The first packets' gains: get-started adds them up and forces the radio to the
average; esp-crab has the library record them and compensates each packet. The
gains are given as the bytes they are stored in (`FftBytes`, of which the upper
half stand for negative gains). A byte has 4 values and a word 16 in the run; `SAMPLES * (BYTE - 1) < WORD` is what
the code relies on (100 * 255 < 65536).

### MCComponents

The eight modules above share no state, so one run checks them all: `component`
is chosen in `Init`, that component takes all the steps and the others rest. The
state space is the sum of the eight and not their product, each property is about
one component, and no behaviour of a component is lost by it.

## 4. Runs

`CHECK_DEADLOCK FALSE` is in every configuration: inputs are bounded (ids,
boots, frames, writes, commands), and a run that has used them up and drained
its queues really stops. In `RadarDetect`, which does not stop, it changes nothing.

| run | bounds | shows |
|---|---|---|
| `crab` | queues of 1, 2 frames on the wire, one table row, ids 0..1, two boots, a frame cut before its id or after it | `TypeOK`, `HeapAccounted`, `PairAttributed`, `PlottedInOrder` |
| `crab_readme` | the same | `PlotsOneTransmission` is violated |
| `uart_link` | 7 frames, FIFO of 2 frames, ring of 3, 2 events | `TypeOK`, `ReadNeverBlocks`, `TornOnlySilently`, `InOrderLink` |
| `calibrate` | interval 5, default timeout 10, writes of 20 and 260 s, 3 writes, 1 reboot | `TypeOK`, `Coherent`, `Persisted`, `ShownAtRest`, `LastsItsTimeout`, `CalibrationEnds` |
| `calibrate_seconds` | the same, but 2 writes and no reboot | `LastsAsAskedFor` is violated |
| `calibrate_reboot` | 1 write, 1 reboot | `CalibrationTimesOut` is violated |
| `detect` | ring of 2, windows 1 and 2, two thresholds, someone timeout 3, ages to 4 | `TypeOK`, `MovementIsRecent`, `LedTellsRoom`, `StopReported` |
| `detect_room` | the same | `NoOneReported` is violated |
| `collect` | numbers 0..2, 2-bit counter, 3 commands | `TypeOK`, `NothingLeft`, `TicksAsAsked`, `RowsLabelled`, `LabelEnds` |
| `wifi` | 2 networks, 3 commands, 2 faults, 2 tries of a scan | `TypeOK`, `FlagsAgree`, `RightNetwork`, `KeepsTrying`, `WaitEnds` |
| `wifi_info` | 1 fault | `DisconnectHolds` is violated |
| `components` | per module in `Components.cfg` | `TypeOK` of all; `NothingElseEarly`, `BootEnds` (`Startup`); `HandleSound` (`PingCmd`); `EachRecordOnce` (`EvalServer`); `UpdatesKept` (`RadarConfig`); `MovesCounted` (`RadarPresence`); `Transformed` (`Fft`); `GainIsAverage` (`CsiGain`); `SamplesApart`, `ButtonHonest`, `HostEnds` (`HostTool`) |

Why the bounds are enough for the cases that matter:

* `crab`: a queue of one is full after one item, so every drop happens; one row
  makes every two ids collide, so every overwriting happens; a second boot sends
  the ids again; the stack may hold an id that is sent and one that is not; two
  frames on the wire are the least that can be spliced.
* `uart_link`: seven frames fill FIFO, ring and event queue at once and leave
  enough to be spliced, flushed and followed by more; a FIFO of two gives events
  that announce two frames.
* `calibrate`: 260 is 4 in a `uint8_t`, less than an interval; 10 and 20 last
  two and four intervals and fit; three writes allow start, end, start again, each
  against a running callback.
* `detect`: both windows are reached by growing and by shrinking, every count
  of the window occurs, and a room that is still but occupied (the LED is white
  between `LedHold` and `someone_timeout`). `detect` reaches
  each colour of the LED and each report.
* `collect`: 0 wraps; three commands replace a running collection twice.
* `wifi`: three commands name one network, change to the other and disconnect,
  each against a handler that runs; two faults let a station drop, reconnect and
  drop again inside one command.
* `components`: `Startup` has every application on every chip it supports, with
  two failing calls, so that a failure meets a failure; `PingCmd` two sessions
  and two aborts, so that an abort of one meets the other; `EvalServer` lines of
  every length around the limit and a buffer that one of them fills;
  `RadarConfig` every task once or twice; `RadarPresence` a ring of three with
  four values and a buffer size below and past it; `Fft` every unit vector in the
  real size of 64; `CsiGain` one packet more than is needed after the average;
  `HostTool` queues of two of which the pipe takes one row, so that a serial
  process can end with rows unread that go into the pipe and with more, and two
  samples as one collection of two or two of one, which meet in every way.

The exceptions in the properties are named by history variables, and each is a
behaviour of the code, found by TLC when the exception is removed:

* `overlap` (`PairAttributed`): a store into the row while it was copied. The other
  four causes are in the property itself: the uninitialised first frame, row 0 as
  it was zeroed, and, when the ids agree, a frame spliced from two or a row of another
  boot of the sender;
* `silent` (`TornOnlySilently`): an overflow whose event was discarded;
* `crossed` (`Coherent`, `LastsItsTimeout`, `CalibrationEnds`): the finish of a
  calibration in one task ran into the start of the next in the other, or a
  reboot came during one;
* `outdated` (`ShownAtRest`): the flag changed between its read and its report;
* `collided` (`ConsoleCollect`): `collect_timercb` ran during a command;
* `disturbed` (`WifiConsole`): the last command met a station between idle and
  up, or with an event unhandled, or one that dropped while the command ran. Such
  a command can abort at line 347, stay on the old network, or wait for a bit
  that is cleared again;
* `row.ending`, a command in between (`RowsLabelled`): a row printed while the
  last callback takes the label away has a label and the number 0, and one
  printed across a command may have the number of one collection and the label
  of another;
* `KnownEarly` (`NothingElseEarly`): the sync interrupt before the receive queue
  exists, `WIFI_EVENT_STA_START` before the handlers of console_test, a radar
  command before `esp_radar_init`, and what follows an ignored failure;
* `overwritten` (`UpdatesKept`): a field set between the get and the set of
  another task. app_main is one of them: it sets the whole record after the
  console has started, so a command given meanwhile is lost; and the server's
  copy spans a whole connection;
* `astray` (`HandleSound`): a session made while another lived, or one that was
  not made though asked for: the end of the older then clears the handle of the
  newer one;
* `predict_buff_size` past the ring (`MovesCounted`): the help allows 1 to 100,
  the ring has 25, and values count more than once. Raising the size also
  silences the reports until as many values have come. The LED may stay green
  for nearly six seconds, two timeouts of three one after the other;
* `OneSign` (`GainIsAverage`): get-started reads the signed FFT gain as an
  unsigned byte, so the average of gains around 0 is neither of them;
* `adjacent` (`SamplesApart`): two collections that follow one another at the
  same number, with no row read in between, share a file;
* `unheard` (`ButtonHonest`): "stop" sends the radar command without
  `--collect_duration`, and the firmware acts on the collect options only when
  all three are there (`console_test/main/app_main.c:190`), so a collection goes
  on, and its rows are labelled, though the button says "start"; and a command
  that takes longer than a period;
* `started < Width` (`LastsItsTimeout`): a timeout that does not fit the byte lasts
  as long as its remainder, which is what `calibrate_seconds` shows;
* the scan's `SetChannel` (`RightNetwork`): it aborts though nothing disturbed the
  station but the scan itself;
* all disjuncts of `HostEnds` but the first: an exception in the window; a window
  that is gone with the serial process waiting for room before it has read "exit";
  one that is gone with more rows unread than the pipe takes, for which the serial
  process waits at its end; a serial process that has ended with the window
  waiting for room; and a serial process that has ended by an exception, with a
  window that is not told.

Fairness: in `RadarCalibrate`, `ConsoleCollect` and `WifiConsole` weak fairness of each task
(the event task in the last); in `Startup` of `app_main`'s calls; in `HostTool`
of the thread, of the serial process and of the window once it has something to
finish (a command to put, a folder to remove, a window to close). `MCComponents`
states the latter two for the component that runs.
FreeRTOS runs a ready task in the end unless one of higher priority never
blocks, and none of these loops without blocking; the daemon serves an expired
timer and its queue. No fairness is assumed of inputs, reboots, the radio or the
UART, and no liveness is stated where only they could help.

### Divergences found

* `crab_readme`: the display pairs by id alone, so an unwritten row, stack
  content, a row being stored, a row from before a reboot of the sender or a frame
  spliced from two is plotted as a phase difference (README of esp-crab, lines 47-49).
* `calibrate_seconds`: the app offers 10 to 3600 seconds and shows what was written,
  the code keeps eight bits of it, so 260 s end after one interval of 5 s (README of
  connect_rainmaker, line 17).
* `calibrate_reboot`: the flag is restored from the NVS with no timer, so
  calibration never times out (README of connect_rainmaker, line 17).
* `detect_room`: `s_report_someone_status` never becomes true, so line 211 is
  never taken (comment at line 199).
* `wifi_info`: after `wifi_config --disconnect`, `wifi_config --info` connects the
  station again (help texts at lines 446 and 454 of `wifi_cmd.c`).

## 5. Proofs

Every theorem below is checked by TLAPS for all values of the constants that
satisfy the named assumption of the component's module (sizes, lengths and
widths are positive naturals, bounds are naturals, inputs are sets of naturals,
and the few relations that the code relies on, named where they matter). They
hold for any number of commands, faults and reboots, since the bounds of the runs
are constants too. Where several theorems of a module share one inductive
invariant it is called `IInv`; the small components have one each.

### EspCrabProofs (`CapsAssumption`, `TableAssumption`, `IdsAssumption`)

| theorem | property |
|---|---|
| `TypeCorrect` | `Spec => []TypeOK` |
| `HeapCorrect` | `Spec => []HeapAccounted` |
| `PairCorrect` | `Spec => []PairAttributed` |
| `PlotsInOrder` | `Spec => PlottedInOrder` |

All share `IInv`, because none of them is inductive alone.
`HeapAccounted` needs that a task with a block in hand is recognisable as such,
that is, that no queue holds a transmission of epoch 0 (`QueuesGenuine`).
`PairAttributed` needs to know what a table row can hold while it is being read:
a row outside a store is zero or one capture with its own id (`TableCoherent`), a
row inside a store has the new id already (`StoreHeadDone`), and a read that no
store overlapped has seen one and the same row (`ReadCoherent`); and that a frame
at the display, its uninitialised one apart, is one transmission or begins earlier
than it ends (`FramesGenuine`). The type of
`live` (a natural: no double free) follows from the heap accounting and not the
other way round. The proof goes by groups of variables: `CaptureStep` (queues,
jobs, heap), `TasksStep`, `ScreenStep`, `RowsStep` (table and copy), `OrderStep`,
`FramesStep`, `PairStep`, joined in `NextIInv`.

`PlotsInOrder` rests on `InLine`, which `FramesGenuine` needs too, as only the order
on the wire makes the end of a spliced frame later than its beginning: a frame on
its way to the screen is at one of eight stages (plotted last, in the display's variables, in its
queue, on the wire, in the hands of a task, in a receive queue, about to be
sent), and whatever is at a later stage of the line or further back in a queue
begins later than what is before it ends. Every action moves frames along the line,
drops them (`LoseOne`) or joins two neighbours (`Join`).

### UartLinkProofs (`LinkAssumption`)

| theorem | property |
|---|---|
| `LinkInvariant` | `Spec => []IInv` |
| `LinkTypes` | `Spec => []TypeOK` |
| `NeverBlocks` | `Spec => []ReadNeverBlocks` |
| `TornSilently` | `Spec => TornOnlySilently` |
| `LinkImplements` | `Spec => InOrderLink` |

`IInv` says that the halves in ring and FIFO are in the order in which they were
written and newer than what was read (`Ordered`); that the events announce
consecutive pieces of them, in order, each still there when its turn comes; and
that wherever a half is missing between two neighbours an overflow event lies
between their announcements, or a discarded one did (`Accounted`). The
refinement maps every step to the delivery of a newer frame or to a stutter.

### WifiConsoleProofs (`WifiAssumption`)

| theorem | property |
|---|---|
| `StationInvariant` | `Spec => []IInv` |
| `StationTypes` | `Spec => []TypeOK` |
| `FlagsAgreeAtRest` | `Spec => []FlagsAgree` |
| `OnRightNetwork` | `Spec => []RightNetwork` |
| `NeverLeftIdle` | `Spec => []KeepsTrying` |

The properties speak of states at rest, the invariant of all others: the last
event posted, the one in the handler's hands included, agrees with the driver
(`Followed`), each place of a command fixes what it has done to driver and flag
(`Commanded`, `Switched`, `OnNetwork`), an undisturbed command finds the station
idle between its leave and its join (`Quiet`), an idle station that was given a
network has a disconnection that the handler has yet to answer (`Tried`), and
only a disturbed command aborts (`AbortsDisturbed`).

### RadarDetectProofs (`DetectAssumption`)

| theorem | property |
|---|---|
| `RadarInvariant` | `Spec => []IInv` |
| `RadarTypes` | `Spec => []TypeOK` |
| `JudgesRecent` | `Spec => []MovementIsRecent` |
| `LedIsRight` | `Spec => []LedTellsRoom` |
| `CloudHearsStop` | `Spec => []StopReported` |

`WindowRecent` says which value lies at each place of the ring, by the remainder
of the count; a change of the window breaks that for at most as many values as
the window has. `LedFollows` and `CloudFollows` tie the LED and the last report to
the ages of the last movement; the count of movements is at most the age of the
last report (`CountTimed`). That windows divide the modulus of the count
(`Cycle % w = 0`) is an assumption about the model's counter: the code's has 32
bits and wraps after years.

### ConsoleCollectProofs (`CollectAssumption`)

| theorem | property |
|---|---|
| `CollectInvariant` | `Spec => []IInv` |
| `CollectTypes` | `Spec => []TypeOK` |
| `NothingIsLeft` | `Spec => []NothingLeft` |
| `TicksExact` | `Spec => TicksAsAsked` |
| `RowsAreLabelled` | `Spec => []RowsLabelled` |

The commands of FreeRTOS timers are queued, so what is true of a timer now says
little. The invariant speaks of what the daemon's queue will make of each timer:
only that of the handle will run, the others will be deleted, and none is used
after it is. It also counts the samples, and follows the number and the label of a
row from the two reads to the print. All of this is conditional on
`~collided`, as the properties are: no callback ran into a command.

### RadarCalibrateProofs (`CalibrateAssumption`)

| theorem | property |
|---|---|
| `CalibrateInvariant` | `Spec => []IInv` |
| `CalibrateTypes` | `Spec => []TypeOK` |
| `CoherentAtRest` | `Spec => []Coherent` |
| `PersistedAtRest` | `Spec => []Persisted` |
| `AppShowsFlag` | `Spec => []ShownAtRest` |
| `LastsAsAsked` | `Spec => []LastsItsTimeout` |

What differs from the flag is on its way: a blob that is not the configuration
has a save to come in one of the two tasks (`SavedSoon`), an app that shows the
old flag a report (`ReportedSoon`). Timer and library follow the flag after the
commands that are queued (`Following`), and the time left and the time passed
make the timeout the calibration began with (`TimeLeft`); these two until a finish
and a newer calibration cross. The timeout kept is the one shown if that fits
(`ToldAsStored`).

### ComponentsProofs and MoreComponentsProofs (`ComponentsAssumption`)

Each theorem has its component's own invariant, which the steps of the other
components leave alone.

| theorem | property | inductive invariant |
|---|---|---|
| `UpdatesLast` | `Spec => []UpdatesKept` | the copy of a task between get and set agrees with the record but for the fields it changed and those others set since |
| `FilesOfOneSample` | `Spec => []SamplesApart` | what the serial process knows of the last row belongs to the open file |
| `ButtonTellsTruth` | `Spec => []ButtonHonest` | the collect command still to come is the last in the queue and tells what the button does; window and device count alike |
| `HandleReaches` | `Spec => []HandleSound` | at most one session lives, the handle is its own, and what the console read of the handle is still that or was raced |
| `ForcedToAverage` | `Spec => []GainIsAverage` | the 16-bit sums are the sums of the gains so far, below the word's size because `SAMPLES * (BYTE - 1) < WORD` |
| `ReportsAreRight` | `Spec => []MovesCounted` | the ring's places and the values received last correspond one to one, round the ring; the age of the last movement is that of the green LED |
| `RecordsComeOnce` | `Spec => []EachRecordOnce` | the buffer is the rest of the stream after a newline, and the records in front of it are the ones handed on; a server that waits has no newline in a buffer longer than a record |
| `TransformIsRight` | `Spec => []Transformed` | between stages each element that counts is the partial transform of its block (`Through`), within one those the butterflies have come to (`Midway`); `w` is the power of the root that the butterfly is due (`FactorRight`) |
| `OnlyKnownEarly` | `Spec => []NothingElseEarly` | what was called and is not done was skipped after a failure, and is one of the three calls whose failure the code ignores (`Doubtful`) |
| `TypesHold` | `Spec => []TypeOK` | the invariants above, and the value sets they leave out (`Kinds`) |

`GainIsAverage`, `MovesCounted` and `EachRecordOnce` speak of sums, medians,
cardinalities and concatenations of any length. What they need of those is proved
without an induction theorem: `Least` takes the least element of a set of numbers,
from the library's well-foundedness of the naturals, and `Induction` follows for
a set (not an operator) that has 0 and each successor. From it come the running
sums (`SumsExist`, `SumsAgree`, `SumsBounded`) and the flattened lines
(`TextOfIs`). Medians and outliers are compared by bijections between ring places
and ages (`SameCount`, `ShiftedCount`, `SameMedian`, `SameOutliers`).

`Transformed` is about the finite field of 193 elements in which the model
computes, and its proof covers every unit vector, both directions, both functions
and any wrong factor of `fft_iq`, of which the run tries one. `BitsOf` splits an index and its
reversal into six bits, `BlockHalves` and `IndexHalves` say how the blocks of one
size lie in those of the next, and `TurnIs`, `HalfTurn` and `PowersMultiply` how
powers of the root multiply, with exponents modulo 64. By them one butterfly makes two
elements of a partial transform from two halves. With a wrong factor only the
first element of each block counts: it never meets the factor.

`NothingElseEarly` is about eight programs of calls. Each is `Good` by itself:
every call finds what it needs, and what the actors that it sets loose need, among
what the calls before it give. The programs are concatenated from the functions
that the `app_main`s share, and so are the proofs (`GivenBoth` and what follows from
it). What is left is that a failure the code ignores leaves nothing undone but the
call that failed, and that only the known actors need what such a call, or one
made later, gives.

### What stays with TLC

Every invariant and every action property of a passing run, and the refinement,
has a theorem. What has none is liveness: `CalibrationEnds`, `LabelEnds`,
`WaitEnds`, `BootEnds` and `HostEnds` rest on fairness, which is stated with
ENABLED, and the provers do not handle it.

The constants in the assumptions that the proofs rely on beyond sizes are facts of
the code or of the model's values: the 16-bit sums hold `SAMPLES` bytes, the
buffer of the evaluation server is longer than the shortest record, a wrong factor
of the transform is an integer, and the value for "no application yet" (`none`) is
none of the applications.

No module has a RECURSIVE operator.

## 6. What is not modelled

* The arithmetic of CSI: magnitudes, phases, rounding in the transform, and the
  radar library's algorithm, which is closed source.
* Drawing, generated screens (`ui.c`, `ui_helpers.c`, images, fonts, the Qt
  window), pin and register values of the board support: data without a protocol.
  `uint16_t y_range` (`app_ui.c:130`) can wrap at its lower end, which moves the
  axis of a chart only.
* The scan of `uart_event_task` byte by byte: it advances by 24 where a frame has
  32 bytes, and a frame of `UartLink` has halves.
* The wrap of the 32-bit millisecond clock after 49 days (`radar_cb`) and of the
  microsecond stamp after 71 minutes (`time_delta`, only logged).
* A full command queue of the timer daemon: `RadarCalibrate` and
  `ConsoleCollect` assume room in it. Ten commands within one callback would
  be needed.
* Allocation failures: the code does not check `calloc`, and the models have none.
* Wi-Fi commands that only pass values to the driver (country, channel, power,
  rate, bandwidth) and those that are never registered (sta, ap, query); the
  system commands that only print.
* In the host tool the plots, the training dialog and the other commands; and
  `csi_data_read_parse.py`, a loop that parses and plots line by line.
