------------------------------ MODULE PingCmd ------------------------------
(***************************************************************************)
(* The ping command of console_test                                        *)
(* (examples/esp-radar/console_test/components/commands/src/ping_cmd.c).   *)
(* The console task makes, starts, stops and deletes sessions; each has a  *)
(* task of its own, which calls ping_cmd_on_end and then frees the         *)
(* session. Both use g_ping_handle without a lock, so a read of the handle *)
(* and the call that it is for are two steps.                              *)
(*                                                                         *)
(* External (ping_sock.c of ESP-IDF): stop and delete clear a flag each; a *)
(* task pings while start is set and its count lasts, then calls the end   *)
(* callback, and frees the session once init is clear. All refuse NULL.    *)
(***************************************************************************)
EXTENDS Naturals

CONSTANTS
  MaxSessions,  \* bound: sessions
  MaxAborts     \* bound: ping --abort commands

VARIABLES
  g_ping_handle,  \* 0 is NULL
  sessions,       \* per session: its flags and where its task is
  ping_console,   \* where the console task is
  arg,            \* the handle it has read
  aborts,         \* bound: aborts so far
  astray,         \* history: a session was made while another lived, or not made
  raced,          \* history: an end callback cleared the handle in this command
  stray           \* history: freed memory was written although none did

ping_vars ==
  <<g_ping_handle, sessions, ping_console, arg, aborts, astray, raced, stray>>

-----------------------------------------------------------------------------
Sessions == 1 .. MaxSessions
Unborn == [init |-> FALSE, start |-> FALSE, notified |-> FALSE, counted |-> FALSE, task |-> "none"]
Made(counted) == [Unborn EXCEPT !.init = TRUE, !.counted = counted, !.task = "waiting"]
Left == {s \in Sessions : sessions[s].task = "none"}
Lives(s) == sessions[s].task \notin {"none", "gone"}

Init ==
  /\ g_ping_handle = 0 /\ sessions = [s \in Sessions |-> Unborn]
  /\ ping_console = "idle" /\ arg = 0 /\ aborts = 0
  /\ astray = FALSE /\ raced = FALSE /\ stray = FALSE

(* A library function sets flags of the session that was read; the memory *)
(* of one that is gone has been freed.                                    *)
Flags(changed) ==
  IF arg = 0 THEN UNCHANGED <<sessions, stray>>
  ELSE /\ sessions' = [sessions EXCEPT ![arg] = [f \in DOMAIN @ |->
                        IF f \in DOMAIN changed THEN changed[f] ELSE @[f]]]
       /\ stray' = (stray \/ (sessions[arg].task = "gone" /\ ~raced))

-----------------------------------------------------------------------------
(* wifi_cmd_ping: the arguments are parsed and the host is looked up; one  *)
(* that is not found ends the command, which has changed nothing.          *)
Ping ==
  /\ ping_console = "idle" /\ Left # {}
  /\ ping_console' = "new" /\ raced' = FALSE
  /\ UNCHANGED <<g_ping_handle, sessions, arg, aborts, astray, stray>>

(* The handle is written when the session is made; nothing looks at the    *)
(* result.                                                                 *)
NewSession ==
  /\ ping_console = "new"
  /\ \/ LET s == CHOOSE s \in Left : \A t \in Left : s <= t IN
          /\ \E counted \in BOOLEAN : sessions' = [sessions EXCEPT ![s] = Made(counted)]
          /\ g_ping_handle' = s
          /\ astray' = (astray \/ \E t \in Sessions : Lives(t))
     \/ astray' = TRUE /\ UNCHANGED <<g_ping_handle, sessions>>
  /\ ping_console' = "read start"
  /\ UNCHANGED <<arg, aborts, raced, stray>>

(* With --abort. *)
Abort ==
  /\ ping_console = "idle" /\ aborts < MaxAborts
  /\ aborts' = aborts + 1
  /\ ping_console' = "read stop" /\ raced' = FALSE
  /\ UNCHANGED <<g_ping_handle, sessions, arg, astray, stray>>

(* The handle is read for each call. *)
Read(from, to) ==
  /\ ping_console = from
  /\ arg' = g_ping_handle
  /\ ping_console' = to
  /\ UNCHANGED <<g_ping_handle, sessions, aborts, astray, raced, stray>>
ReadForStart == Read("read start", "start")
ReadForStop == Read("read stop", "stop")
ReadForDelete == Read("read delete", "delete")

(* One call of the library; the variant of a stop does not clear start. *)
StartedFlags == [start |-> TRUE, notified |-> TRUE]
StoppedFlags == [start |-> FALSE]
DeletedFlags == [init |-> FALSE]
LibraryCall(from, flags, to) ==
  /\ ping_console = from
  /\ Flags(flags)
  /\ ping_console' = to
  /\ UNCHANGED <<g_ping_handle, arg, aborts, astray, raced>>
Start == LibraryCall("start", StartedFlags, "idle")
Stop == LibraryCall("stop", StoppedFlags, "read delete")
Delete == LibraryCall("delete", DeletedFlags, "idle")

-----------------------------------------------------------------------------
(* The task of a session. ping_cmd_on_success and ping_cmd_on_timeout only *)
(* log.                                                                    *)
Moves(s, from, to) ==
  /\ sessions[s].task = from
  /\ sessions' = [sessions EXCEPT ![s].task = to]

Begin(s) ==
  /\ Moves(s, "waiting", "pinging") /\ sessions[s].notified
  /\ UNCHANGED <<g_ping_handle, raced>>

(* The count may be reached at any time. *)
EndOfBatch(s) ==
  /\ Moves(s, "pinging", "end") /\ (~sessions[s].start \/ sessions[s].counted)
  /\ UNCHANGED <<g_ping_handle, raced>>

EndDeletes(s) ==
  /\ sessions[s].task = "end"
  /\ sessions' = [sessions EXCEPT ![s].task = "clear", ![s].init = FALSE]
  /\ UNCHANGED <<g_ping_handle, raced>>

(* The variant forgets the handle. *)
HandleKept == UNCHANGED g_ping_handle
HandleCleared == g_ping_handle' = 0
EndClears(s) ==
  /\ Moves(s, "clear", "leaving")
  /\ HandleCleared
  /\ raced' = (ping_console # "idle")

Free(s) ==
  /\ ~sessions[s].init
  /\ sessions[s].task = "leaving" \/ (sessions[s].task = "waiting" /\ ~sessions[s].notified)
  /\ sessions' = [sessions EXCEPT ![s].task = "gone"]
  /\ UNCHANGED <<g_ping_handle, raced>>

SessionTask(s) ==
  /\ Begin(s) \/ EndOfBatch(s) \/ EndDeletes(s) \/ EndClears(s) \/ Free(s)
  /\ UNCHANGED <<ping_console, arg, aborts, astray, stray>>

Next ==
  \/ Ping \/ NewSession \/ Abort
  \/ ReadForStart \/ ReadForStop \/ ReadForDelete \/ Start \/ Stop \/ Delete
  \/ \E s \in Sessions : SessionTask(s)

-----------------------------------------------------------------------------
TypeOK ==
  /\ g_ping_handle \in 0 .. MaxSessions /\ arg \in 0 .. MaxSessions
  /\ \A s \in Sessions :
       sessions[s].task \in {"none", "waiting", "pinging", "end", "clear", "leaving", "gone"}

(* As long as no session was made while another lived, and every one that  *)
(* was asked for was made, the handle at rest is that of the live session, *)
(* so --abort reaches it; and a freed session is only written by an abort  *)
(* that an end callback overtook.                                          *)
HandleSound ==
  ~astray =>
    /\ ~stray
    /\ (ping_console = "idle" /\ \A s \in Sessions : sessions[s].task \notin {"end", "clear", "leaving"})
         => IF g_ping_handle = 0 THEN \A s \in Sessions : ~Lives(s)
            ELSE Lives(g_ping_handle) /\ \A s \in Sessions : Lives(s) => s = g_ping_handle
=============================================================================
