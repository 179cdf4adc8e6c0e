------------------------------ MODULE HostTool ------------------------------
(***************************************************************************)
(* The host tool of console_test                                           *)
(* (examples/esp-radar/console_test/tools/esp_csi_tool.py) in a labelled   *)
(* collection: the window's thread, with its button, its timers and the    *)
(* cleaning of the files; the process at the serial port, which sends the  *)
(* window's commands, writes the rows of each sample to a file of its own  *)
(* and passes them on; the thread that takes them; and the device, which   *)
(* here has a label and a number (in detail: ConsoleCollect), carries out  *)
(* a command as it is written and prints the row that is read.             *)
(*                                                                         *)
(* The clock of the window and that of the device run alike: one period of *)
(* the one has one of the other in it.                                     *)
(***************************************************************************)
EXTENDS Naturals, Sequences, FiniteSets

CONSTANTS
  CollectNumbers,  \* numbers of samples
  QueueSize,       \* places in each queue: 64
  PipeSize,        \* of them those whose rows the pipe under queue_read takes
  MaxSamples,      \* bound: samples asked for in all
  MaxCleans        \* bound: presses of "clean"

VARIABLES
  window,          \* "open", "closing", "gone", or "aborted" by an exception
  button,          \* the text on the button, "start" or "stop"
  count,           \* spinBox_collect_number
  timer,           \* the one that runs: "delay", "duration" or "none"
  outgoing,        \* the command that the window's thread is putting
  cleaning,        \* whether it is between the files and their folder
  signalled,       \* whether signal_exit was emitted
  queue_write, queue_read,
  serial,          \* where the serial process is
  row,             \* the sample of the row that it has read
  taget_seq_last,  \* 0 with a taget_last of "unknown"
  folder,          \* data/<taget>: "none", "empty" or "files"
  file,            \* the sample of the last row in the file that is open
  adjacent,        \* history: every row read since was of the file's
  misfiled,        \* history: a row went to the file of another sample
  device,          \* the sample the device is at
  due,             \* the device's period has to end before the window's next
  unheard,         \* history: "stop" was pressed during a collection, or a period
                   \* ended with a command under way
  asked, cleans

screen == <<button, count, timer>>
inputs == <<asked, cleans>>
gui_vars == <<window, screen, outgoing, cleaning, unheard, inputs>>
file_vars == <<taget_seq_last, file, adjacent, misfiled>>
serial_vars == <<serial, row, file_vars>>
device_vars == <<device, due>>
queues == <<queue_write, queue_read, signalled>>
host_vars == <<gui_vars, serial_vars, device_vars, queues, folder>>

-----------------------------------------------------------------------------
(* Samples are told apart by the collection and by the number that is      *)
(* left, 0 when the label is "unknown"; collections have the same label.   *)
Sample(collection, number) == [collection |-> collection, number |-> number]
Nobody == Sample(0, 0)
Command(name, n) == [name |-> name, number |-> n]
None == Command("none", 0)

Init ==
  /\ window = "open" /\ button = "start" /\ count = 0 /\ timer = "none"
  /\ outgoing = None /\ cleaning = FALSE /\ signalled = FALSE
  /\ queue_write = <<>> /\ queue_read = <<>>
  /\ serial = "loop" /\ row = Nobody /\ taget_seq_last = 0 /\ folder = "none"
  /\ file = Nobody /\ adjacent = TRUE /\ misfiled = FALSE /\ device = Nobody
  /\ due = FALSE /\ unheard = FALSE /\ asked = 0 /\ cleans = 0

-----------------------------------------------------------------------------
(* The window's thread runs one handler at a time. *)
Idle == window = "open" /\ outgoing = None /\ ~cleaning

(* pushButton_collect_show, with "start" on it. *)
StartPressed ==
  /\ Idle /\ button = "start"
  /\ button' = "stop" /\ timer' = "delay"
  /\ count' \in CollectNumbers
  /\ asked' = asked + count' /\ asked' <= MaxSamples
  /\ UNCHANGED <<outgoing, device_vars, unheard>>

(* timeEdit_collect_delay_show at its last second and                      *)
(* command_collect_target_start; the seconds before change nothing else.   *)
DelayOver ==
  /\ Idle /\ timer = "delay"
  /\ timer' = "duration" /\ outgoing' = Command("collect", count)
  /\ UNCHANGED <<button, count, device_vars, unheard, asked>>

(* spinBox_collect_number_show; the variant ends one period earlier. The   *)
(* boxes get back what they had, which the user may change before the next *)
(* start.                                                                  *)
LastPeriodEarly == count <= 1
LastPeriod == count = 0
NumberTick ==
  /\ Idle /\ timer = "duration"
  /\ \/ ~LastPeriod /\ count' = count - 1 /\ UNCHANGED <<button, timer>>
     \/ LastPeriod /\ count' = 0 /\ button' = "start" /\ timer' = "none"
  /\ unheard' = (unheard \/ due \/ queue_write # <<>>)
  /\ due' = (device # Nobody /\ ~LastPeriod)
  /\ UNCHANGED <<outgoing, device, asked>>

(* pushButton_collect_show, with "stop" on it, command_collect_target_stop *)
StopPressed ==
  /\ Idle /\ button = "stop"
  /\ button' = "start" /\ count' = 0 /\ timer' = "none"
  /\ outgoing' = Command("stop", 0)
  /\ unheard' = (unheard \/ timer = "duration") /\ due' = FALSE
  /\ UNCHANGED <<device, asked>>

CollectHandler ==
  /\ StartPressed \/ DelayOver \/ NumberTick \/ StopPressed
  /\ UNCHANGED <<window, cleaning, signalled, queue_write, folder, cleans>>

(* pushButton_collect_clean_show: the files, then their folder; an         *)
(* exception in a handler ends the window.                                 *)
CleanPressed ==
  /\ Idle /\ folder # "none" /\ cleans < MaxCleans
  /\ cleans' = cleans + 1
  /\ folder' = "empty" /\ cleaning' = TRUE
  /\ UNCHANGED <<window, outgoing, queue_write>>
RemoveFolder ==
  /\ cleaning /\ cleaning' = FALSE
  /\ \/ folder = "empty" /\ folder' = "none" /\ UNCHANGED window
     \/ folder = "files" /\ window' = "aborted" /\ UNCHANGED folder
  /\ UNCHANGED <<outgoing, queue_write, cleans>>

(* closeEvent, by the user or by signal_exit. *)
Close ==
  /\ Idle
  /\ window' = "closing" /\ outgoing' = Command("exit", 0)
  /\ UNCHANGED <<cleaning, queue_write, folder, cleans>>
Exit ==
  /\ window = "closing" /\ outgoing = None
  /\ window' = "gone"
  /\ UNCHANGED <<outgoing, cleaning, queue_write, folder, cleans>>

(* A handler waits for room in the queue. *)
Put ==
  /\ outgoing # None /\ Len(queue_write) < QueueSize
  /\ queue_write' = Append(queue_write, outgoing) /\ outgoing' = None
  /\ UNCHANGED <<window, cleaning, folder, cleans>>

OtherHandler(handler) ==
  handler /\ UNCHANGED <<screen, signalled, device_vars, unheard, asked>>
Gui ==
  /\ \/ CollectHandler
     \/ OtherHandler(CleanPressed \/ RemoveFolder \/ Close \/ Exit \/ Put)
  /\ UNCHANGED <<queue_read, serial_vars>>

(* DataHandleThread takes what the serial process passes on; only the *)
(* failure of the port does more than fill the window.                *)
DataHandleThread ==
  /\ window \in {"open", "closing"} /\ queue_read # <<>>
  /\ queue_read' = Tail(queue_read)
  /\ signalled' = (signalled \/ Head(queue_read) = "FAIL_EVENT")
  /\ UNCHANGED <<gui_vars, serial_vars, device_vars, queue_write, folder>>

-----------------------------------------------------------------------------
(* serial_handle: a command goes before a row. The device ignores "stop",  *)
(* which comes without --collect_duration; the variant of "exit" goes to   *)
(* the device as well. A port that fails as it is written to raises an     *)
(* exception that nobody catches, and nobody is told.                      *)
ExitWritten == "loop"
ExitTaken == "exiting"
TakeCommand ==
  /\ serial = "loop" /\ queue_write # <<>>
  /\ queue_write' = Tail(queue_write)
  /\ LET c == Head(queue_write) IN
       \/ /\ c.name = "exit" /\ serial' = ExitTaken
          /\ UNCHANGED device_vars
       \/ /\ c.name # "exit" /\ UNCHANGED serial
          /\ device' = IF c.name = "collect" THEN Sample(device.collection + 1, c.number) ELSE device
          /\ due' = (due /\ c.name # "collect")
       \/ /\ c.name # "exit" /\ serial' = "crashing"
          /\ UNCHANGED device_vars
  /\ UNCHANGED <<row, file_vars, queue_read, folder>>

(* At its end, by sys.exit or an exception, a process waits for the thread *)
(* that writes its queue into a pipe: for ever if too much is left unread. *)
JoinFeeder ==
  /\ serial \in {"exiting", "crashing"} /\ Len(queue_read) <= PipeSize
  /\ serial' = IF serial = "exiting" THEN "ended" ELSE "crashed"
  /\ UNCHANGED <<row, file_vars, queue_write, queue_read, folder, device_vars>>

Reads == serial = "loop" /\ queue_write = <<>>
PassOn(kind) == queue_read' = IF Len(queue_read) = QueueSize THEN queue_read
                              ELSE Append(queue_read, kind)

(* A row of CSI; one of the sample of the row before it goes to the file   *)
(* that is open, one without a label to none, and one of another sample to *)
(* a new file. The variant keeps the number over rows without a label.     *)
SeqKept == taget_seq_last
SeqForgotten == 0
Labelled == device.number # 0
Follows(s, t) == s = t \/ (adjacent /\ s.number = t.number)
ReadRow ==
  /\ Reads
  /\ \/ /\ ~Labelled
        /\ taget_seq_last' = SeqForgotten /\ adjacent' = FALSE
        /\ PassOn("CSI_DATA") /\ UNCHANGED <<serial, row, file, misfiled>>
     \/ /\ Labelled /\ device.number = taget_seq_last
        /\ file' = device
        /\ misfiled' = (misfiled \/ ~Follows(device, file))
        /\ PassOn("CSI_DATA") /\ UNCHANGED <<serial, row, taget_seq_last, adjacent>>
     \/ /\ Labelled /\ device.number # taget_seq_last
        /\ row' = device /\ serial' = "folder"
        /\ UNCHANGED <<file_vars, queue_read>>
  /\ UNCHANGED <<queue_write, folder, device_vars>>

MakeFolder ==
  /\ serial = "folder" /\ serial' = "open"
  /\ folder' = IF folder = "none" THEN "empty" ELSE folder
  /\ UNCHANGED <<row, file_vars, queue_write, queue_read, device_vars>>

(* Without its folder the file cannot be opened, which ends the process. *)
OpenFile ==
  /\ serial = "open"
  /\ \/ /\ folder = "none" /\ serial' = "crashing"
        /\ UNCHANGED <<row, file_vars, queue_read, folder>>
     \/ /\ folder # "none" /\ folder' = "files" /\ serial' = "loop"
        /\ file' = row /\ taget_seq_last' = row.number /\ adjacent' = TRUE
        /\ row' = Nobody /\ PassOn("CSI_DATA") /\ UNCHANGED misfiled
  /\ UNCHANGED <<queue_write, device_vars>>

(* Rows of another kind wait for room in the queue, and so does the news   *)
(* that the port fails.                                                    *)
ReadOther ==
  /\ Reads /\ serial' \in {"RADAR_DADA", "FAIL_EVENT"}
  /\ UNCHANGED <<row, file_vars, queue_write, queue_read, folder, device_vars>>
PutOther ==
  /\ serial \in {"RADAR_DADA", "FAIL_EVENT"} /\ Len(queue_read) < QueueSize
  /\ queue_read' = Append(queue_read, serial)
  /\ serial' = IF serial = "FAIL_EVENT" THEN "exiting" ELSE "loop"
  /\ UNCHANGED <<row, file_vars, queue_write, folder, device_vars>>

serial_handle ==
  /\ TakeCommand \/ JoinFeeder \/ ReadRow \/ MakeFolder \/ OpenFile \/ ReadOther \/ PutOther
  /\ UNCHANGED <<gui_vars, signalled>>

(* The device: a period ends. *)
DeviceTick ==
  /\ Labelled /\ (due \/ timer # "duration") /\ due' = FALSE
  /\ device' = [device EXCEPT !.number = @ - 1]
  /\ UNCHANGED <<gui_vars, serial_vars, queues, folder>>

Next == Gui \/ DataHandleThread \/ serial_handle \/ DeviceTick

(* Both processes and the thread run when they can; a window that is told  *)
(* to close does.                                                          *)
GuiGoesOn == Gui /\ (outgoing # None \/ cleaning \/ window = "closing" \/ (signalled /\ window' = "closing"))
Fairness == WF_host_vars(GuiGoesOn) /\ WF_host_vars(DataHandleThread) /\ WF_host_vars(serial_handle)
Spec == Init /\ [][Next]_host_vars /\ Fairness

-----------------------------------------------------------------------------
TypeOK ==
  /\ window \in {"open", "closing", "gone", "aborted"} /\ button \in {"start", "stop"}
  /\ timer \in {"none", "delay", "duration"} /\ (timer = "none" <=> button = "start")
  /\ count \in Nat
  /\ Len(queue_write) <= QueueSize /\ Len(queue_read) <= QueueSize
  /\ serial \in {"loop", "folder", "open", "RADAR_DADA", "FAIL_EVENT", "exiting", "crashing",
                "ended", "crashed"}
  /\ folder \in {"none", "empty", "files"}

(* The rows of a file are of one sample, whatever was lost, stopped,       *)
(* started again or cleaned: only a collection that follows another, at    *)
(* the same number, with no row read in between goes on in its file.       *)
SamplesApart == ~misfiled

(* While the button says "start" and no command is under way the device    *)
(* labels nothing, unless "stop" was pressed during a collection, which    *)
(* the device does not hear of, or a command took longer than a period.    *)
ButtonHonest ==
  Idle /\ button = "start" /\ queue_write = <<>> => ~Labelled \/ unheard

(* A window that closes, a port that fails and an exception of the serial  *)
(* process end both processes. The exceptions: an exception in a handler;  *)
(* a full queue to a window that is gone, which the serial process waits   *)
(* to put in; rows left in that queue, more than its pipe takes, which it  *)
(* waits for at its end; a full queue to a serial process that has ended;  *)
(* and a window that is not told of an exception.                          *)
HostEnds ==
  window = "closing" \/ serial \in {"FAIL_EVENT", "exiting", "crashing"} ~>
    \/ window = "gone" /\ serial \in {"ended", "crashed"}
    \/ window = "aborted"
    \/ window = "gone" /\ Len(queue_read) = QueueSize /\ queue_write # <<>>
    \/ window = "gone" /\ serial \in {"exiting", "crashing"} /\ Len(queue_read) > PipeSize
    \/ serial \in {"ended", "crashed"} /\ Len(queue_write) = QueueSize
    \/ window = "open" /\ serial = "crashed"
=============================================================================
