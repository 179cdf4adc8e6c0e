------------------------ MODULE ConsoleCollectProofs ------------------------
(***************************************************************************)
(* Proofs about ConsoleCollect for every width of the number, all numbers  *)
(* asked for and any count of commands: what is left after a collection,   *)
(* how often its timer runs and what its rows say, unless a callback ran   *)
(* into a command.                                                         *)
(***************************************************************************)
EXTENDS ConsoleCollect, SequenceTheorems, TLAPS

USE CollectAssumption

Ops    == {"start", "stop", "delete"}
States == {"none", "stopped", "active", "deleted"}
Orders == [op : Ops, timer : Timers]

(* What a command makes of a timer that is not deleted. *)
Made(op) == CASE op = "start"  -> "active"
              [] op = "stop"   -> "stopped"
              [] op = "delete" -> "deleted"

(* What the queue q makes of a timer in the end: its last command does, or *)
(* there is none and the timer stays what it is.                           *)
NoneFor(q, t) == \A i \in 1 .. Len(q) : q[i].timer # t
LastFor(q, t, op) ==
  \E i \in 1 .. Len(q) : /\ q[i].timer = t /\ q[i].op = op
                         /\ \A j \in 1 .. Len(q) : j > i => q[j].timer # t
WillBe(q, ts, t, state) ==
  \/ NoneFor(q, t) /\ ts[t] = state
  \/ \E op \in Ops : LastFor(q, t, op) /\ Made(op) = state

(* No command of the queue is for a timer deleted by then. *)
Sound(q, ts) ==
  \A i \in 1 .. Len(q) :
    /\ ts[q[i].timer] # "deleted"
    /\ \A j \in 1 .. Len(q) : j > i /\ q[i].op = "delete" => q[j].timer # q[i].timer

-----------------------------------------------------------------------------
(* Timers are numbered by the commands that make them. *)
Early == {"taget", "replace", "stop", "delete", "create"}
Numbered ==
  /\ g_collect_timer_handele <= cmds
  /\ \A i \in 1 .. Len(commands) : commands[i].timer <= cmds
  /\ console \in Early =>
       /\ g_collect_timer_handele < cmds
       /\ \A i \in 1 .. Len(commands) : commands[i].timer < cmds
  /\ console # "idle" => cmds > 0
  /\ row \in [number : 0 .. Width - 1, cmds : 0 .. MaxCmds, ending : BOOLEAN]
  /\ row.cmds <= cmds

(* What the handle's timer comes to. *)
Expected ==
  IF console \in {"delete", "start"} \/ daemon = "delete" THEN "stopped"
  ELSE IF console = "create" \/ daemon = "clear" THEN "deleted"
  ELSE "active"

Apart == daemon = "idle" \/ console = "idle"
HandleSet ==
  /\ console \in {"stop", "delete", "start"} => g_collect_timer_handele # 0
  /\ daemon \in {"load", "store", "stop"} => commands = <<>>
  /\ daemon \in {"load", "store", "stop", "delete", "clear"} => g_collect_timer_handele # 0
  /\ daemon = "unknown" => g_collect_timer_handele = 0
OthersEnd ==
  \A t \in Timers : t # g_collect_timer_handele => ~WillBe(commands, timers, t, "active")
MineEnds ==
  g_collect_timer_handele # 0 =>
    WillBe(commands, timers, g_collect_timer_handele, Expected)
Labelled ==
  /\ console \notin {"idle", "taget"} => collect_taget # 0
  /\ console = "idle" =>
       (collect_taget # 0 <=> g_collect_timer_handele # 0 \/ daemon = "unknown")

(* The number asked for, 0 as 2^32, less the runs of the callback. *)
Samples == IF asked = 0 THEN Width ELSE asked
Counted ==
  /\ daemon \in {"idle", "load", "commands"} /\ (g_collect_timer_handele # 0 \/ console # "idle") =>
       /\ ticks < Samples
       /\ collect_number = IF ticks = 0 THEN asked ELSE Samples - ticks
  /\ daemon = "store" =>
       /\ ticks > 0 /\ ticks <= Samples /\ reg = Samples - ticks
       /\ asked # 0 => collect_number = reg + 1
  /\ daemon \in {"stop", "delete", "clear", "unknown"} => ticks = Samples /\ collect_number = 0

(* A row that is being printed. *)
RowHonest ==
  printer = "taget" /\ row.cmds = cmds /\ (collect_taget # 0 \/ console # "idle") =>
    \/ asked = 0 \/ row.number \in 1 .. asked
    \/ row.number = 0 /\ row.ending

Undisturbed ==
  /\ ~broken /\ Apart /\ HandleSet
  /\ Sound(commands, timers) /\ OthersEnd /\ MineEnds
  /\ Labelled /\ Counted /\ RowHonest

IInv == TypeOK /\ Numbered /\ (~collided => Undisturbed)
-----------------------------------------------------------------------------
(* Only "delete" makes a deleted timer. *)
LEMMA MadeLive ==
  \A op \in Ops : Made(op) \in States /\ (op # "delete" => Made(op) # "deleted")
BY DEF Made, Ops, States

(* What the end and the head of a queue are. *)
LEMMA Appended ==
  ASSUME NEW q \in Seq(Orders), NEW c \in Orders
  PROVE  /\ Append(q, c) \in Seq(Orders) /\ Len(Append(q, c)) = Len(q) + 1 /\ Len(q) \in Nat
         /\ \A i \in 1 .. Len(q) : Append(q, c)[i] = q[i]
         /\ Append(q, c)[Len(q) + 1] = c
<1> HIDE DEF Orders
<1> QED
  OBVIOUS

(* What is left of a queue when its first command is taken. *)
LEMMA Shortened ==
  ASSUME NEW q \in Seq(Orders), q # <<>>
  PROVE  /\ Tail(q) \in Seq(Orders) /\ Len(q) \in Nat \ {0} /\ Len(Tail(q)) = Len(q) - 1
         /\ Head(q) = q[1] /\ Head(q) \in Orders
         /\ \A i \in 1 .. Len(q) - 1 : Tail(q)[i] = q[i + 1]
<1> HIDE DEF Orders
<1> QED
  OBVIOUS

(* A command at the end decides what becomes of its timer, and of no other. *)
LEMMA AppendEnds ==
  ASSUME NEW q \in Seq(Orders), NEW c \in Orders, NEW ts
  PROVE  /\ WillBe(Append(q, c), ts, c.timer, Made(c.op))
         /\ \A t, s : t # c.timer /\ WillBe(Append(q, c), ts, t, s) => WillBe(q, ts, t, s)
<1> DEFINE r == Append(q, c)
           n == Len(q)
<1>1. /\ Len(r) = n + 1 /\ n \in Nat /\ \A i \in 1 .. n : r[i] = q[i]
      /\ r[n + 1] = c /\ c.op \in Ops
  <2>1. c.op \in Ops
    BY DEF Orders
  <2> QED
    BY <2>1, Appended, Zenon
<1> HIDE DEF r, n
<1>2. LastFor(r, c.timer, c.op)
  <2>1. n + 1 \in 1 .. Len(r) /\ \A j \in 1 .. Len(r) : ~(j > n + 1)
    BY <1>1
  <2> QED
    BY <1>1, <2>1, Zenon DEF LastFor
<1>3. ASSUME NEW t, NEW s, t # c.timer, WillBe(r, ts, t, s)
      PROVE  WillBe(q, ts, t, s)
  <2>1. \A i \in 1 .. n : i \in 1 .. Len(r)
    BY <1>1
  <2>2. CASE NoneFor(r, t) /\ ts[t] = s
    <3>1. NoneFor(q, t)
      BY <1>1, <2>1, <2>2, Zenon DEF NoneFor, n
    <3> QED
      BY <2>2, <3>1, Zenon DEF WillBe
  <2>3. ASSUME NEW op \in Ops, LastFor(r, t, op), Made(op) = s
        PROVE  WillBe(q, ts, t, s)
    <3>1. PICK i \in 1 .. Len(r) : /\ r[i].timer = t /\ r[i].op = op
                                   /\ \A j \in 1 .. Len(r) : j > i => r[j].timer # t
      BY <2>3, Zenon DEF LastFor
    <3>2. i # n + 1
      BY <1>1, <1>3, <3>1, Zenon
    <3>3. i \in 1 .. n
      BY <1>1, <3>1, <3>2
    <3>4. LastFor(q, t, op)
      BY <1>1, <2>1, <3>1, <3>3, Zenon DEF LastFor, n
    <3> QED
      BY <2>3, <3>4, Zenon DEF WillBe
  <2> QED
    BY <1>3, <2>2, <2>3, Zenon DEF WillBe
<1> QED
  BY <1>1, <1>2, <1>3, Zenon DEF WillBe, r

(* A timer that does not come to be deleted may be given another command. *)
LEMMA AppendSound ==
  ASSUME NEW q \in Seq(Orders), NEW c \in Orders, NEW ts, NEW s, Sound(q, ts),
         WillBe(q, ts, c.timer, s), s # "deleted"
  PROVE  Sound(Append(q, c), ts)
<1> DEFINE r == Append(q, c)
           n == Len(q)
           t == c.timer
<1>1. /\ Len(r) = n + 1 /\ n \in Nat /\ r[n + 1] = c
      /\ \A i \in 1 .. n : r[i] = q[i]
  BY Appended, Zenon
<1>2. ts[t] # "deleted" /\ \A i \in 1 .. n : q[i].op = "delete" => q[i].timer # t
  <2>1. CASE NoneFor(q, t) /\ ts[t] = s
    BY <2>1, Zenon DEF NoneFor
  <2>2. ASSUME NEW op \in Ops, LastFor(q, t, op), Made(op) = s
        PROVE  ts[t] # "deleted" /\ \A i \in 1 .. n : q[i].op = "delete" => q[i].timer # t
    <3> HIDE DEF t
    <3>1. op # "delete"
      BY <2>2 DEF Made
    <3>2. PICK k \in 1 .. n : /\ q[k].timer = t /\ q[k].op = op
                              /\ \A j \in 1 .. n : j > k => q[j].timer # t
      BY <2>2, Zenon DEF LastFor
    <3>3. ts[t] # "deleted"
      BY <3>2, Zenon DEF Sound
    <3>4. ASSUME NEW i \in 1 .. n, q[i].op = "delete", q[i].timer = t
          PROVE  FALSE
      <4>1. i # k /\ ~(i > k)
        BY <3>1, <3>2, <3>4, Zenon
      <4>2. k > i
        BY <4>1, <1>1
      <4> QED
        BY <3>2, <3>4, <4>2, Zenon DEF Sound
    <3> QED
      BY <3>3, <3>4, Zenon
  <2> QED
    BY <2>1, <2>2, Zenon DEF WillBe
<1> HIDE DEF r, n
<1>3. ASSUME NEW i \in 1 .. Len(r)
      PROVE  /\ ts[r[i].timer] # "deleted"
             /\ \A j \in 1 .. Len(r) : j > i /\ r[i].op = "delete" => r[j].timer # r[i].timer
  <2>1. CASE i = n + 1
    <3>1. \A j \in 1 .. Len(r) : ~(j > i)
      BY <1>1, <2>1
    <3> QED
      BY <1>1, <1>2, <2>1, <3>1, Zenon
  <2>2. CASE i # n + 1
    <3>1. i \in 1 .. n
      BY <1>1, <2>2
    <3>2. \A j \in 1 .. Len(r) : j \in 1 .. n \/ j = n + 1
      BY <1>1
    <3>3. r[i] = q[i] /\ ts[q[i].timer] # "deleted"
      BY <1>1, <3>1, Zenon DEF Sound, n
    <3>4. ASSUME NEW j \in 1 .. Len(r), j > i, r[i].op = "delete"
          PROVE  r[j].timer # r[i].timer
      <4>1. CASE j \in 1 .. n
        BY <1>1, <3>1, <3>3, <3>4, <4>1, Zenon DEF Sound, n
      <4>2. CASE j = n + 1
        BY <1>1, <1>2, <3>1, <3>3, <3>4, <4>2, Zenon
      <4> QED
        BY <3>2, <4>1, <4>2, Zenon
    <3> QED
      BY <3>3, <3>4, Zenon
  <2> QED
    BY <2>1, <2>2, Zenon
<1> QED
  BY <1>3, Zenon DEF Sound, r

(* Carrying out the first command of a sound queue changes nothing of what *)
(* the timers come to.                                                     *)
LEMMA TailEnds ==
  ASSUME NEW q \in Seq(Orders), q # <<>>, NEW ts \in [Timers -> States], Sound(q, ts), NEW ts2,
         ts2 = [ts EXCEPT ![Head(q).timer] = Made(Head(q).op)]
  PROVE  /\ Sound(Tail(q), ts2)
         /\ \A t \in Timers : \A s : WillBe(Tail(q), ts2, t, s) <=> WillBe(q, ts, t, s)
<1> DEFINE r == Tail(q)
           n == Len(q)
           c == Head(q)
<1>1. /\ n \in Nat \ {0} /\ Len(r) = n - 1 /\ c = q[1]
      /\ c \in Orders /\ \A i \in 1 .. n - 1 : r[i] = q[i + 1]
  BY Shortened, Zenon
<1>2. c.timer \in Timers /\ c.op \in Ops
  BY <1>1 DEF Orders
<1> HIDE DEF r, n, c
<1>3. /\ ts2[c.timer] = Made(c.op)
      /\ \A t \in Timers : t # c.timer => ts2[t] = ts[t]
  BY <1>2, Zenon DEF c
<1>4. /\ 1 \in 1 .. n /\ \A j \in 1 .. n : j = 1 \/ (j > 1 /\ j - 1 \in 1 .. n - 1 /\ j = (j - 1) + 1)
      /\ \A i \in 1 .. n - 1 : i + 1 \in 1 .. n /\ i + 1 > 1 /\ i \in 1 .. Len(r)
      /\ \A i, j \in 1 .. n - 1 : i > j <=> i + 1 > j + 1
      /\ \A i \in 1 .. Len(r) : i \in 1 .. n - 1
      /\ \A i \in 1 .. n - 1 : r[i] = q[i + 1]
  BY <1>1
<1>5. Sound(r, ts2)
  <2>1. ASSUME NEW i \in 1 .. n - 1
        PROVE  ts2[r[i].timer] # "deleted"
    <3>1. r[i] = q[i + 1] /\ i + 1 \in 1 .. n /\ i + 1 > 1
      BY <1>4, Zenon
    <3>2. q[i + 1].timer \in Timers
      <4>1. q[i + 1] \in Orders
        BY <3>1 DEF n
      <4> QED
        BY <4>1 DEF Orders
    <3>3. ts[r[i].timer] # "deleted"
      BY <3>1, Zenon DEF Sound, n
    <3>4. CASE r[i].timer = c.timer
      <4>1. c.op # "delete"
        BY <1>1, <1>4, <3>1, <3>4, ZenonT(60) DEF Sound, n
      <4> QED
        BY <1>2, <1>3, <3>4, <4>1, MadeLive, Zenon
    <3>5. CASE r[i].timer # c.timer
      BY <1>3, <3>1, <3>2, <3>3, <3>5, Zenon
    <3> QED
      BY <3>4, <3>5
  <2>2. ASSUME NEW i \in 1 .. n - 1, NEW j \in 1 .. n - 1, j > i, r[i].op = "delete"
        PROVE  r[j].timer # r[i].timer
    <3>1. /\ r[i] = q[i + 1] /\ i + 1 \in 1 .. n /\ r[j] = q[j + 1] /\ j + 1 \in 1 .. n
          /\ j + 1 > i + 1
      BY <1>4, <2>2, Zenon
    <3> QED
      BY <2>2, <3>1, Zenon DEF Sound, n
  <2> QED
    BY <1>4, <2>1, <2>2, Zenon DEF Sound
<1>6. ASSUME NEW t \in Timers, NEW s, WillBe(q, ts, t, s)
      PROVE  WillBe(r, ts2, t, s)
  <2>1. CASE NoneFor(q, t) /\ ts[t] = s
    <3>1. c.timer # t
      BY <1>1, <1>4, <2>1, Zenon DEF NoneFor, n
    <3>2. NoneFor(r, t)
      BY <1>4, <2>1, Zenon DEF NoneFor, n
    <3> QED
      BY <1>3, <2>1, <3>1, <3>2, Zenon DEF WillBe
  <2>2. ASSUME NEW op \in Ops, LastFor(q, t, op), Made(op) = s
        PROVE  WillBe(r, ts2, t, s)
    <3>1. PICK k \in 1 .. n : /\ q[k].timer = t /\ q[k].op = op
                              /\ \A j \in 1 .. n : j > k => q[j].timer # t
      BY <2>2, Zenon DEF LastFor, n
    <3>2. CASE k = 1
      <4>1. NoneFor(r, t)
        <5>1. \A i \in 1 .. n - 1 : i + 1 > k /\ i + 1 \in 1 .. n
          BY <1>1, <3>2
        <5>2. \A i \in 1 .. n - 1 : r[i].timer # t
          BY <1>1, <3>1, <5>1, Zenon
        <5> QED
          BY <1>4, <5>2, Zenon DEF NoneFor
      <4> QED
        BY <1>1, <1>3, <2>2, <3>1, <3>2, <4>1, Zenon DEF WillBe
    <3>3. CASE k # 1
      <4>1. PICK i \in 1 .. n - 1 : k = i + 1
        BY <1>4, <3>3, Zenon
      <4>2. \A j \in 1 .. n - 1 : j > i => r[j].timer # t
        <5>1. \A j \in 1 .. n - 1 : j > i => j + 1 > k /\ j + 1 \in 1 .. n
          BY <1>1, <4>1
        <5> QED
          BY <1>1, <3>1, <5>1, Zenon
      <4>3. LastFor(r, t, op)
        BY <1>4, <3>1, <4>1, <4>2, Zenon DEF LastFor
      <4> QED
        BY <2>2, <4>3, Zenon DEF WillBe
    <3> QED
      BY <3>2, <3>3
  <2> QED
    BY <1>6, <2>1, <2>2, Zenon DEF WillBe
<1>7. ASSUME NEW t \in Timers, NEW s, WillBe(r, ts2, t, s)
      PROVE  WillBe(q, ts, t, s)
  <2>1. CASE NoneFor(r, t) /\ ts2[t] = s
    <3>1. \A j \in 1 .. n : j > 1 => q[j].timer # t
      <4> SUFFICES ASSUME NEW j \in 1 .. n, j > 1 PROVE q[j].timer # t
        OBVIOUS
      <4>1. PICK i \in 1 .. n - 1 : j = i + 1
        BY <1>1
      <4> QED
        BY <1>4, <2>1, <4>1, Zenon DEF NoneFor
    <3>2. CASE t = c.timer
      <4>1. LastFor(q, t, c.op)
        BY <1>1, <1>4, <3>1, <3>2, Zenon DEF LastFor, n
      <4> QED
        BY <1>2, <1>3, <2>1, <3>2, <4>1, Zenon DEF WillBe
    <3>3. CASE t # c.timer
      <4>1. NoneFor(q, t)
        BY <1>1, <1>4, <3>1, <3>3, Zenon DEF NoneFor, n
      <4> QED
        BY <1>3, <2>1, <3>3, <4>1, Zenon DEF WillBe
    <3> QED
      BY <3>2, <3>3
  <2>2. ASSUME NEW op \in Ops, LastFor(r, t, op), Made(op) = s
        PROVE  WillBe(q, ts, t, s)
    <3>1. PICK i \in 1 .. n - 1 : /\ r[i].timer = t /\ r[i].op = op
                                  /\ \A j \in 1 .. n - 1 : j > i => r[j].timer # t
      BY <1>4, <2>2, Zenon DEF LastFor
    <3>2. \A j \in 1 .. n : j > i + 1 => q[j].timer # t
      <4> SUFFICES ASSUME NEW j \in 1 .. n, j > i + 1 PROVE q[j].timer # t
        OBVIOUS
      <4>1. PICK k \in 1 .. n - 1 : j = k + 1 /\ k > i
        <5>1. j - 1 \in 1 .. n - 1 /\ j = (j - 1) + 1 /\ j - 1 > i
          BY <1>1
        <5> QED
          BY <5>1, Zenon
      <4>2. q[j] = r[k] /\ r[k].timer # t
        BY <1>4, <3>1, <4>1, Zenon
      <4> QED
        BY <4>2, Zenon
    <3>3. LastFor(q, t, op)
      BY <1>4, <3>1, <3>2, Zenon DEF LastFor, n
    <3> QED
      BY <2>2, <3>3, Zenon DEF WillBe
  <2> QED
    BY <1>7, <2>1, <2>2, Zenon DEF WillBe
<1> QED
  BY <1>5, <1>6, <1>7, Zenon DEF r

(* A timer that is made has no command yet, and changes nothing for others. *)
LEMMA MadeEnds ==
  ASSUME NEW q \in Seq(Orders), NEW ts \in [Timers -> States], Sound(q, ts),
         NEW t \in Timers, NoneFor(q, t), NEW ts2, ts2 = [ts EXCEPT ![t] = "stopped"]
  PROVE  /\ Sound(q, ts2) /\ WillBe(q, ts2, t, "stopped")
         /\ \A u \in Timers : \A s : u # t /\ WillBe(q, ts2, u, s) => WillBe(q, ts, u, s)
<1>1. ts2[t] = "stopped" /\ \A u \in Timers : u # t => ts2[u] = ts[u]
  BY Zenon
<1>2. \A i \in 1 .. Len(q) : q[i].timer \in Timers /\ q[i].timer # t
  <2>1. \A i \in 1 .. Len(q) : q[i] \in Orders
    <3> HIDE DEF Orders
    <3> QED
      OBVIOUS
  <2> QED
    BY <2>1 DEF Orders, NoneFor
<1>3. Sound(q, ts2)
  BY <1>1, <1>2, Zenon DEF Sound
<1> QED
  BY <1>1, <1>3, Zenon DEF WillBe
-----------------------------------------------------------------------------
USE DEF data, rtos, past, printing

(* The types that the proofs below rest on. *)
LEMMA Shape ==
  ASSUME TypeOK
  PROVE  /\ commands \in Seq(Orders) /\ timers \in [Timers -> States]
         /\ Width \in Nat \ {0} /\ MaxCmds \in Nat
         /\ g_collect_timer_handele \in 0 .. MaxCmds /\ cmds \in 0 .. MaxCmds
         /\ collect_number \in 0 .. Width - 1 /\ reg \in 0 .. Width - 1
         /\ asked \in 0 .. Width - 1 /\ ticks \in Nat
BY DEF TypeOK, Orders, Ops, States

(* A step is one of the console's, of the daemon's or of the printing task. *)
LEMMA Steps ==
  ASSUME [Next]_vars
  PROVE  \/ UNCHANGED vars
         \/ ~broken /\ csi_data_print_task
         \/ /\ ~broken /\ UNCHANGED printing
            /\ \/ Collect \/ SetTaget \/ Replace \/ StopOld \/ DeleteOld \/ Create \/ Start
               \/ Expire \/ Load \/ Store \/ Stop \/ Delete \/ Clear \/ Unknown
               \/ Command \/ Commanded
BY Zenon DEF Next, Console, Daemon

(* A timer function sends its command, or finds NULL. *)
LEMMA Requested ==
  ASSUME TypeOK, NEW op \in Ops, Request(op)
  PROVE  /\ commands' \in Seq(Orders) /\ (broken \in BOOLEAN => broken' \in BOOLEAN)
         /\ \/ /\ g_collect_timer_handele # 0 /\ g_collect_timer_handele \in Timers
               /\ [op |-> op, timer |-> g_collect_timer_handele] \in Orders
               /\ commands' = Append(commands, [op |-> op, timer |-> g_collect_timer_handele])
               /\ broken' = broken
            \/ g_collect_timer_handele = 0 /\ broken' = TRUE /\ commands' = commands
<1>1. commands \in Seq(Orders) /\ g_collect_timer_handele \in 0 .. MaxCmds /\ MaxCmds \in Nat
  BY Shape
<1>2. CASE /\ g_collect_timer_handele # 0
           /\ commands' = Append(commands, [op |-> op, timer |-> g_collect_timer_handele])
           /\ UNCHANGED broken
  <2>1. g_collect_timer_handele \in Timers
    BY <1>1, <1>2 DEF Timers
  <2>2. [op |-> op, timer |-> g_collect_timer_handele] \in Orders
    BY <2>1 DEF Orders
  <2>3. commands' \in Seq(Orders)
    BY <1>1, <1>2, <2>2, Appended, Zenon
  <2> QED
    BY <1>2, <2>1, <2>2, <2>3, Zenon
<1>3. CASE g_collect_timer_handele = 0 /\ broken' = TRUE /\ UNCHANGED commands
  BY <1>1, <1>3, Zenon
<1> QED
  BY <1>2, <1>3, Zenon DEF Request

(* The daemon carries out the first command. *)
LEMMA CarriedOut ==
  ASSUME TypeOK, Command
  PROVE  /\ commands # <<>> /\ Head(commands) \in Orders /\ commands' = Tail(commands)
         /\ commands' \in Seq(Orders) /\ timers' \in [Timers -> States]
         /\ broken' = (broken \/ timers[Head(commands).timer] = "deleted")
         /\ timers[Head(commands).timer] # "deleted" =>
              timers' = [timers EXCEPT ![Head(commands).timer] = Made(Head(commands).op)]
<1> DEFINE c == Head(commands)
<1>1. /\ commands \in Seq(Orders) /\ commands # <<>> /\ timers \in [Timers -> States]
      /\ commands' = Tail(commands)
  BY Shape, Zenon DEF Command
<1>2. Tail(commands) \in Seq(Orders) /\ c \in Orders
  BY <1>1, Shortened, Zenon
<1>3. c.timer \in Timers /\ c.op \in Ops
  BY <1>2 DEF Orders
<1>4. /\ timers' = [timers EXCEPT ![c.timer] =
                      IF timers[c.timer] = "deleted" THEN timers[c.timer] ELSE Made(c.op)]
      /\ broken' = (broken \/ timers[c.timer] = "deleted")
  BY DEF Command, Made
<1>5. timers' \in [Timers -> States]
  BY <1>1, <1>3, <1>4, MadeLive
<1> HIDE DEF c
<1>6. timers[c.timer] # "deleted" => timers' = [timers EXCEPT ![c.timer] = Made(c.op)]
  BY <1>4
<1> QED
  BY <1>1, <1>2, <1>4, <1>5, <1>6, Zenon DEF c

-----------------------------------------------------------------------------
(* The types. *)
LEMMA TypeStep ==
  ASSUME IInv, [Next]_vars
  PROVE  TypeOK'
<1> USE DEF TypeOK
<1>1. TypeOK /\ Numbered
  BY Zenon DEF IInv
<1>2. /\ commands \in Seq(Orders) /\ Width \in Nat \ {0} /\ MaxCmds \in Nat
      /\ Numbers \subseteq 0 .. Width - 1
  BY <1>1, Shape
<1>3. \A q : q \in Seq(Orders) <=> q \in Seq([op : {"start", "stop", "delete"}, timer : Timers])
  BY DEF Orders, Ops
<1>4. CASE UNCHANGED vars
  BY <1>1, <1>4, Zenon DEF vars
<1>5. CASE csi_data_print_task
  <2>1. UNCHANGED <<data, g_collect_timer_handele, rtos, console, daemon, reg, past, ticks, broken>>
    BY <1>5, Zenon DEF csi_data_print_task
  <2>2. printer' \in {"idle", "taget"} /\ row'.number \in 0 .. Width - 1
    BY <1>1, <1>2, <1>5 DEF csi_data_print_task, PrintNumber, PrintTaget, NoRow
  <2> QED
    BY <1>1, <2>1, <2>2, Zenon
<1>6. CASE Collect /\ UNCHANGED printing
  <2>1. cmds' \in 0 .. MaxCmds /\ ticks' \in Nat
    BY <1>1, <1>2, <1>6 DEF Collect
  <2>2. collect_number' \in 0 .. Width - 1 /\ asked' \in 0 .. Width - 1
    BY <1>2, <1>6 DEF Collect
  <2>3. collided' \in BOOLEAN
    BY <1>6, Zenon DEF Collect
  <2> QED
    BY <1>1, <1>6, <2>1, <2>2, <2>3, Zenon DEF Collect
<1>7. CASE (SetTaget \/ Replace) /\ UNCHANGED printing
  BY <1>1, <1>7, Zenon DEF SetTaget, Replace, Replaced
<1>8. CASE Create /\ UNCHANGED printing
  <2>1. g_collect_timer_handele' \in 0 .. MaxCmds
    BY <1>1, <1>8, Zenon DEF Create
  <2>2. timers' \in [Timers -> {"none", "stopped", "active", "deleted"}]
    BY <1>1, <1>8 DEF Create
  <2> QED
    BY <1>1, <1>8, <2>1, <2>2, Zenon DEF Create
<1>9. CASE (StopOld \/ DeleteOld \/ Start \/ Stop \/ Delete) /\ UNCHANGED printing
  <2>1. PICK op \in Ops : Request(op)
    BY <1>9, Zenon DEF StopOld, DeleteOld, Start, Stop, Delete, Ops
  <2>2. commands' \in Seq(Orders) /\ broken' \in BOOLEAN
    BY <1>1, <2>1, Requested, Zenon
  <2> QED
    BY <1>1, <1>3, <1>9, <2>2, Zenon DEF StopOld, DeleteOld, Start, Stop, Delete
<1>10. CASE Expire /\ UNCHANGED printing
  <2>1. collided' \in BOOLEAN
    BY <1>10, Zenon DEF Expire
  <2> QED
    BY <1>1, <1>10, <2>1, Zenon DEF Expire
<1>11. CASE Load /\ UNCHANGED printing
  <2>1. ticks' \in Nat
    BY <1>1, <1>11 DEF Load
  <2>2. reg' \in 0 .. Width - 1
    <3>1. collect_number \in Nat /\ collect_number + Width - 1 \in Nat
      BY <1>1, <1>2
    <3>2. (collect_number + Width - 1) % Width \in 0 .. Width - 1
      BY <1>2, <3>1
    <3> QED
      BY <1>11, <3>2, Zenon DEF Load, Decrement
  <2> QED
    BY <1>1, <1>11, <2>1, <2>2, Zenon DEF Load
<1>12. CASE Store /\ UNCHANGED printing
  BY <1>1, <1>12, Zenon DEF Store
<1>13. CASE Clear /\ UNCHANGED printing
  <2>1. 0 \in 0 .. MaxCmds
    BY <1>2
  <2> QED
    BY <1>1, <1>13, <2>1, Zenon DEF Clear
<1>14. CASE Unknown /\ UNCHANGED printing
  <2>1. 0 \in 0 .. MaxCmds
    BY <1>2
  <2> QED
    BY <1>1, <1>14, <2>1, Zenon DEF Unknown, LabelCleared
<1>15. CASE Command /\ UNCHANGED printing
  <2>1. /\ commands' \in Seq(Orders) /\ timers' \in [Timers -> States]
        /\ broken' \in BOOLEAN
    BY <1>1, <1>15, CarriedOut, Zenon
  <2> QED
    BY <1>1, <1>3, <1>15, <2>1, Zenon DEF Command, States
<1>16. CASE Commanded /\ UNCHANGED printing
  BY <1>1, <1>16, Zenon DEF Commanded
<1> QED
  BY <1>4, <1>5, <1>6, <1>7, <1>8, <1>9, <1>10, <1>11, <1>12, <1>13, <1>14, <1>15, <1>16,
     Steps, Zenon

(* Timers keep to the numbers of the commands that made them. *)
LEMMA NumberedStep ==
  ASSUME IInv, [Next]_vars
  PROVE  Numbered'
<1>1. TypeOK /\ Numbered
  BY Zenon DEF IInv
<1>2. /\ commands \in Seq(Orders) /\ cmds \in 0 .. MaxCmds /\ MaxCmds \in Nat
      /\ g_collect_timer_handele \in 0 .. MaxCmds /\ Width \in Nat \ {0}
      /\ collect_number \in 0 .. Width - 1
  BY <1>1, Shape
<1>3. \A i \in 1 .. Len(commands) : commands[i].timer \in Nat
  <2>1. \A i \in 1 .. Len(commands) : commands[i] \in Orders
    <3> HIDE DEF Orders
    <3> QED
      BY <1>2
  <2> QED
    BY <2>1 DEF Orders, Timers
<1>4. CASE UNCHANGED vars
  BY <1>1, <1>4, Zenon DEF vars, Numbered
<1>5. CASE csi_data_print_task
  <2>1. UNCHANGED <<g_collect_timer_handele, commands, console, cmds>>
    BY <1>5, Zenon DEF csi_data_print_task
  <2>2. /\ row' \in [number : 0 .. Width - 1, cmds : 0 .. MaxCmds, ending : BOOLEAN]
        /\ row'.cmds <= cmds'
    <3>1. CASE PrintNumber
      <4>1. PICK e \in BOOLEAN : row' = [number |-> collect_number, cmds |-> cmds, ending |-> e]
        <5>1. (daemon \in {"stop", "delete", "clear", "unknown"}) \in BOOLEAN
          OBVIOUS
        <5> QED
          BY <3>1, <5>1, Zenon DEF PrintNumber
      <4> QED
        BY <1>2, <2>1, <4>1
    <3>2. CASE PrintTaget
      BY <1>2, <2>1, <3>2 DEF PrintTaget, NoRow
    <3> QED
      BY <1>5, <3>1, <3>2, Zenon DEF csi_data_print_task
  <2> QED
    BY <1>1, <2>1, <2>2, Zenon DEF Numbered
<1>6. CASE Collect /\ UNCHANGED printing
  <2>1. /\ cmds' = cmds + 1 /\ console' = "taget"
        /\ UNCHANGED <<g_collect_timer_handele, commands, row>>
    BY <1>6, Zenon DEF Collect
  <2>2. /\ g_collect_timer_handele <= cmds /\ row.cmds <= cmds
        /\ row \in [number : 0 .. Width - 1, cmds : 0 .. MaxCmds, ending : BOOLEAN]
        /\ \A i \in 1 .. Len(commands) : commands[i].timer <= cmds
    BY <1>1, Zenon DEF Numbered
  <2>3. row.cmds \in 0 .. MaxCmds
    BY <2>2
  <2>4. /\ g_collect_timer_handele < cmds' /\ g_collect_timer_handele <= cmds' /\ cmds' > 0
        /\ row.cmds <= cmds'
    BY <1>2, <2>1, <2>2, <2>3
  <2>5. \A i \in 1 .. Len(commands) : commands[i].timer < cmds' /\ commands[i].timer <= cmds'
    <3> SUFFICES ASSUME NEW i \in 1 .. Len(commands)
                 PROVE  commands[i].timer < cmds' /\ commands[i].timer <= cmds'
      OBVIOUS
    <3>1. commands[i].timer \in Nat /\ commands[i].timer <= cmds
      BY <1>3, <2>2
    <3> QED
      BY <1>2, <2>1, <3>1
  <2> QED
    BY <2>1, <2>2, <2>4, <2>5, Zenon DEF Numbered
<1>7. CASE (SetTaget \/ Replace) /\ UNCHANGED printing
  <2>1. /\ UNCHANGED <<g_collect_timer_handele, commands, cmds, row>>
        /\ console \in Early /\ console # "idle"
    BY <1>7 DEF SetTaget, Replace, Replaced, Early
  <2> QED
    BY <1>1, <2>1, Zenon DEF Numbered
<1>8. CASE Create /\ UNCHANGED printing
  <2>1. /\ g_collect_timer_handele' = cmds /\ console' = "start"
        /\ UNCHANGED <<commands, cmds, row>> /\ console \in Early /\ console # "idle"
    BY <1>8 DEF Create, Early
  <2>2. console' \notin Early /\ cmds <= cmds
    BY <1>2, <2>1 DEF Early
  <2> QED
    BY <1>1, <2>1, <2>2, Zenon DEF Numbered
<1>9. CASE (StopOld \/ DeleteOld \/ Start \/ Stop \/ Delete) /\ UNCHANGED printing
  <2>1. PICK op \in Ops : Request(op)
    BY <1>9, Zenon DEF StopOld, DeleteOld, Start, Stop, Delete, Ops
  <2>2. /\ UNCHANGED <<g_collect_timer_handele, cmds, row>>
        /\ console' \in Early => console \in Early
        /\ console' # "idle" => console # "idle"
    BY <1>9 DEF StopOld, DeleteOld, Start, Stop, Delete, Early
  <2>3. CASE commands' = commands
    BY <1>1, <2>2, <2>3, Zenon DEF Numbered
  <2>4. CASE commands' = Append(commands, [op |-> op, timer |-> g_collect_timer_handele])
    <3>1. PICK c \in Orders : c.timer = g_collect_timer_handele /\ commands' = Append(commands, c)
      <4>1. [op |-> op, timer |-> g_collect_timer_handele] \in Orders \/ commands' = commands
        BY <1>1, <2>1, Requested, Zenon
      <4>2. commands' # commands
        BY <1>2, <2>4
      <4> QED
        BY <2>4, <4>1, <4>2
    <3>2. \A i \in 1 .. Len(commands') :
            \/ commands'[i].timer = g_collect_timer_handele
            \/ \E j \in 1 .. Len(commands) : commands'[i] = commands[j]
      <4>1. /\ Len(commands') = Len(commands) + 1 /\ Len(commands) \in Nat
            /\ \A i \in 1 .. Len(commands) : commands'[i] = commands[i]
            /\ commands'[Len(commands) + 1] = c
        BY <1>2, <3>1, Appended, Zenon
      <4>2. \A i \in 1 .. Len(commands') : i \in 1 .. Len(commands) \/ i = Len(commands) + 1
        BY <4>1
      <4> QED
        BY <3>1, <4>1, <4>2, Zenon
    <3> QED
      BY <1>1, <2>2, <3>2, Zenon DEF Numbered
  <2> QED
    BY <1>1, <2>1, <2>3, <2>4, Requested, Zenon
<1>10. CASE (Expire \/ Load \/ Store \/ Unknown \/ Commanded) /\ UNCHANGED printing
  <2>1. UNCHANGED <<g_collect_timer_handele, commands, cmds, row, console>>
    BY <1>10, Zenon DEF Expire, Load, Store, Unknown, Commanded
  <2> QED
    BY <1>1, <2>1, Zenon DEF Numbered
<1>11. CASE Clear /\ UNCHANGED printing
  <2>1. g_collect_timer_handele' = 0 /\ UNCHANGED <<commands, cmds, row, console>>
    BY <1>11, Zenon DEF Clear
  <2>2. 0 <= cmds /\ (console # "idle" => 0 < cmds) /\ (console \in Early => console # "idle")
    BY <1>1, <1>2 DEF Numbered, Early
  <2> QED
    BY <1>1, <2>1, <2>2, Zenon DEF Numbered
<1>12. CASE Command /\ UNCHANGED printing
  <2>1. UNCHANGED <<g_collect_timer_handele, cmds, row, console>>
    BY <1>12, Zenon DEF Command
  <2>2. \A i \in 1 .. Len(commands') : \E j \in 1 .. Len(commands) : commands'[i] = commands[j]
    <3>1. /\ Len(commands) \in Nat \ {0} /\ Len(commands') = Len(commands) - 1
          /\ \A i \in 1 .. Len(commands) - 1 : commands'[i] = commands[i + 1]
      BY <1>1, <1>2, <1>12, CarriedOut, Shortened, ZenonT(60)
    <3>2. \A i \in 1 .. Len(commands') : i \in 1 .. Len(commands) - 1 /\ i + 1 \in 1 .. Len(commands)
      BY <3>1
    <3> QED
      BY <3>1, <3>2, Zenon
  <2> QED
    BY <1>1, <2>1, <2>2, Zenon DEF Numbered
<1> QED
  BY <1>4, <1>5, <1>6, <1>7, <1>8, <1>9, <1>10, <1>11, <1>12, Steps, Zenon
-----------------------------------------------------------------------------
(* What is undisturbed after a step was so before it, but for a command    *)
(* that finds everything at rest and one timer at most.                    *)
LEMMA Calm ==
  ASSUME IInv, [Next]_vars, ~collided'
  PROVE  \/ ~Collect /\ ~collided /\ Undisturbed
         \/ Collect /\ daemon = "idle" /\ ~broken
            /\ ((~collided /\ Undisturbed) \/ (AtRest /\ OneTimer))
<1>1. CASE Collect
  BY <1>1, Zenon DEF Collect, IInv, Next, Console, Daemon, vars
<1>2. CASE ~Collect
  <2>1. ~collided
    BY <1>2, Steps, Zenon DEF vars, csi_data_print_task, SetTaget, Replace, StopOld, DeleteOld,
       Create, Start, Expire, Load, Store, Stop, Delete, Clear, Unknown, Command, Commanded
  <2> QED
    BY <1>2, <2>1, Zenon DEF IInv
<1> QED
  BY <1>1, <1>2

(* Undisturbed, the timer that expires is the one the handle names.        *)
LEMMA ExpiresMine ==
  ASSUME TypeOK, Undisturbed, Expire, ~collided'
  PROVE  /\ console = "idle" /\ commands = <<>> /\ daemon' = "load"
         /\ g_collect_timer_handele # 0 /\ timers[g_collect_timer_handele] = "active"
<1>1. console = "idle" /\ commands = <<>> /\ daemon' = "load"
  BY Zenon DEF Expire
<1>2. PICK t \in Timers : timers[t] = "active"
  BY Zenon DEF Expire
<1>3. t # 0
  BY <1>2 DEF Timers
<1>4. NoneFor(commands, t)
  <2>1. Len(commands) = 0
    BY <1>1
  <2> QED
    BY <2>1 DEF NoneFor
<1>5. WillBe(commands, timers, t, "active")
  BY <1>2, <1>4, Zenon DEF WillBe
<1>6. t = g_collect_timer_handele
  BY <1>5, Zenon DEF Undisturbed, OthersEnd
<1> QED
  BY <1>1, <1>2, <1>3, <1>6, Zenon

(* The daemon's callback and the console's command keep apart, the timer   *)
(* functions find a handle, and the label goes with it.                    *)
LEMMA ControlStep ==
  ASSUME IInv, [Next]_vars, ~collided'
  PROVE  ~broken' /\ Apart' /\ HandleSet' /\ Labelled'
<1> USE DEF Apart, HandleSet, Labelled
<1>1. TypeOK /\ Numbered /\ cmds \in Nat
  <2>1. TypeOK /\ Numbered
    BY Zenon DEF IInv
  <2> QED
    BY <2>1, Shape
<1>2. CASE Collect
  <2>1. daemon = "idle" /\ ~broken
    BY <1>2, Calm, Zenon
  <2> QED
    BY <1>2, <2>1 DEF Collect
<1>3. CASE ~Collect
  <2>1. ~broken /\ Apart /\ HandleSet /\ Labelled /\ Sound(commands, timers)
    BY <1>3, Calm, Zenon DEF Undisturbed
  <2>2. CASE UNCHANGED vars
    BY <2>1, <2>2, Zenon DEF vars
  <2>3. CASE csi_data_print_task
    BY <2>1, <2>3, Zenon DEF csi_data_print_task
  <2>4. CASE SetTaget
    <3>1. cmds # 0
      BY <1>1, <2>4 DEF SetTaget, Numbered
    <3> QED
      BY <2>1, <2>4, <3>1 DEF SetTaget
  <2>5. CASE Replace
    BY <2>1, <2>5 DEF Replace, Replaced
  <2>6. CASE Create
    <3>1. cmds # 0
      BY <1>1, <2>6 DEF Create, Numbered
    <3> QED
      BY <2>1, <2>6, <3>1 DEF Create
  <2>7. CASE StopOld \/ DeleteOld \/ Start \/ Stop \/ Delete
    <3>1. PICK op \in Ops : Request(op)
      BY <2>7, Zenon DEF StopOld, DeleteOld, Start, Stop, Delete, Ops
    <3>2. g_collect_timer_handele # 0
      BY <2>1, <2>7 DEF StopOld, DeleteOld, Start, Stop, Delete
    <3>3. broken' = broken
      BY <1>1, <3>1, <3>2, Requested, Zenon
    <3>4. CASE StopOld \/ DeleteOld \/ Start
      BY <2>1, <3>2, <3>3, <3>4 DEF StopOld, DeleteOld, Start
    <3>5. CASE Stop \/ Delete
      BY <2>1, <3>2, <3>3, <3>5 DEF Stop, Delete
    <3> QED
      BY <2>7, <3>4, <3>5
  <2>8. CASE Expire
    <3>1. console = "idle" /\ commands = <<>> /\ daemon' = "load" /\ g_collect_timer_handele # 0
      BY <1>1, <1>3, <2>8, ExpiresMine, Calm, Zenon
    <3> QED
      BY <2>1, <2>8, <3>1 DEF Expire
  <2>9. CASE Load
    BY <2>1, <2>9 DEF Load
  <2>10. CASE Store
    BY <2>1, <2>10 DEF Store
  <2>11. CASE Clear
    BY <2>1, <2>11 DEF Clear
  <2>12. CASE Unknown
    BY <2>1, <2>12 DEF Unknown, LabelCleared
  <2>13. CASE Command
    <3>1. timers[Head(commands).timer] # "deleted"
      <4>1. commands \in Seq(Orders) /\ commands # <<>>
        BY <1>1, <2>13, Shape, CarriedOut, Zenon
      <4>2. 1 \in 1 .. Len(commands) /\ Head(commands) = commands[1]
        BY <4>1
      <4> QED
        BY <2>1, <4>2, Zenon DEF Sound
    <3>2. ~broken'
      BY <1>1, <2>1, <2>13, <3>1, CarriedOut, Zenon
    <3> QED
      BY <2>1, <2>13, <3>2 DEF Command
  <2>14. CASE Commanded
    BY <2>1, <2>14 DEF Commanded
  <2> QED
    BY <1>3, <2>2, <2>3, <2>4, <2>5, <2>6, <2>7, <2>8, <2>9, <2>10, <2>11, <2>12, <2>13, <2>14,
       Steps, Zenon
<1> QED
  BY <1>2, <1>3
-----------------------------------------------------------------------------
(* A timer comes to one state only. *)
LEMMA EndsOnce ==
  ASSUME NEW q \in Seq(Orders), NEW ts, NEW t, NEW s1, NEW s2,
         WillBe(q, ts, t, s1), WillBe(q, ts, t, s2)
  PROVE  s1 = s2
<1>1. ASSUME NEW a \in Ops, NEW b \in Ops, LastFor(q, t, a), LastFor(q, t, b)
      PROVE  a = b
  <2>1. PICK i \in 1 .. Len(q) : /\ q[i].timer = t /\ q[i].op = a
                                 /\ \A j \in 1 .. Len(q) : j > i => q[j].timer # t
    BY <1>1, Zenon DEF LastFor
  <2>2. PICK k \in 1 .. Len(q) : /\ q[k].timer = t /\ q[k].op = b
                                 /\ \A j \in 1 .. Len(q) : j > k => q[j].timer # t
    BY <1>1, Zenon DEF LastFor
  <2>3. ~(i > k) /\ ~(k > i)
    BY <2>1, <2>2, Zenon
  <2>4. i = k
    BY <2>3
  <2> QED
    BY <2>1, <2>2, <2>4, Zenon
<1>2. ASSUME NEW a \in Ops, LastFor(q, t, a)
      PROVE  ~NoneFor(q, t)
  BY <1>2, Zenon DEF LastFor, NoneFor
<1>3. CASE NoneFor(q, t)
  <2>1. s1 = ts[t]
    BY <1>2, <1>3, Zenon DEF WillBe
  <2>2. s2 = ts[t]
    BY <1>2, <1>3, Zenon DEF WillBe
  <2> QED
    BY <2>1, <2>2, Zenon
<1>4. CASE ~NoneFor(q, t)
  <2>1. PICK a \in Ops : LastFor(q, t, a) /\ Made(a) = s1
    BY <1>4, Zenon DEF WillBe
  <2>2. PICK b \in Ops : LastFor(q, t, b) /\ Made(b) = s2
    BY <1>4, Zenon DEF WillBe
  <2>3. a = b
    BY <1>1, <2>1, <2>2, Zenon
  <2> QED
    BY <2>1, <2>2, <2>3, Zenon
<1> QED
  BY <1>3, <1>4

(* What the timers come to, when neither they nor the queue change. *)
LEMMA TimersLeft ==
  ASSUME Undisturbed, UNCHANGED <<commands, timers, g_collect_timer_handele>>,
         g_collect_timer_handele = 0 \/ Expected' = Expected
  PROVE  Sound(commands, timers)' /\ OthersEnd' /\ MineEnds'
BY Zenon DEF Undisturbed, OthersEnd, MineEnds

(* What they come to, when the handle's timer is given a command. *)
LEMMA TimerAsked ==
  ASSUME TypeOK, Undisturbed, NEW op \in Ops, Request(op), g_collect_timer_handele # 0,
         UNCHANGED <<timers, g_collect_timer_handele>>,
         Expected # "deleted", Expected' = Made(op)
  PROVE  Sound(commands, timers)' /\ OthersEnd' /\ MineEnds'
<1>1. PICK c \in Orders : /\ c.op = op /\ c.timer = g_collect_timer_handele
                          /\ commands' = Append(commands, c)
  <2>1. /\ [op |-> op, timer |-> g_collect_timer_handele] \in Orders
        /\ commands' = Append(commands, [op |-> op, timer |-> g_collect_timer_handele])
    BY Requested, Zenon
  <2> QED
    BY <2>1
<1>2. commands \in Seq(Orders)
  BY Shape
<1>3. /\ Sound(commands, timers) /\ WillBe(commands, timers, c.timer, Expected)
      /\ \A t \in Timers : t # c.timer => ~WillBe(commands, timers, t, "active")
  BY <1>1, Zenon DEF Undisturbed, MineEnds, OthersEnd
<1>4. Sound(commands', timers)
  <2>1. \A s : WillBe(commands, timers, c.timer, s) /\ s # "deleted" => Sound(Append(commands, c), timers)
    BY <1>2, <1>3, AppendSound, Zenon
  <2> QED
    BY <1>1, <1>3, <2>1, Zenon
<1>5. /\ WillBe(commands', timers, c.timer, Made(c.op))
      /\ \A t, s : t # c.timer /\ WillBe(commands', timers, t, s) => WillBe(commands, timers, t, s)
  BY <1>1, <1>2, AppendEnds, Zenon
<1> QED
  BY <1>1, <1>3, <1>4, <1>5, Zenon DEF OthersEnd, MineEnds

(* No command is left for a timer that is deleted, the handle's comes to   *)
(* what the command or the callback has got it to, all others to rest.     *)
LEMMA TimerStep ==
  ASSUME IInv, [Next]_vars, ~collided'
  PROVE  Sound(commands, timers)' /\ OthersEnd' /\ MineEnds'
<1>1. /\ TypeOK /\ Numbered /\ commands \in Seq(Orders) /\ timers \in [Timers -> States]
      /\ g_collect_timer_handele \in 0 .. MaxCmds /\ cmds \in 0 .. MaxCmds /\ MaxCmds \in Nat
  <2>1. TypeOK /\ Numbered
    BY Zenon DEF IInv
  <2> QED
    BY <2>1, Shape
<1>2. CASE Collect
  <2>1. /\ daemon = "idle" /\ daemon' = daemon /\ console = "idle" /\ console' = "taget"
        /\ UNCHANGED <<commands, timers, g_collect_timer_handele>>
    BY <1>2, Calm, Zenon DEF Collect
  <2>2. Expected = "active" /\ Expected' = "active"
    BY <2>1 DEF Expected
  <2>3. CASE Undisturbed
    BY <2>1, <2>2, <2>3, TimersLeft, Zenon
  <2>4. CASE AtRest /\ OneTimer
    <3>1. Len(commands) = 0
      BY <2>4 DEF AtRest
    <3>2. /\ Sound(commands, timers) /\ \A t : NoneFor(commands, t)
          /\ \A t, op : ~LastFor(commands, t, op)
      BY <3>1 DEF Sound, NoneFor, LastFor
    <3>3. g_collect_timer_handele # 0 => g_collect_timer_handele \in Timers
      BY <1>1 DEF Timers
    <3>4. \A t : WillBe(commands, timers, t, "active") <=> timers[t] = "active"
      BY <3>2, Zenon DEF WillBe
    <3> QED
      BY <2>1, <2>2, <2>4, <3>2, <3>3, <3>4, Zenon DEF OneTimer, OthersEnd, MineEnds
  <2> QED
    BY <1>2, <2>3, <2>4, Calm, Zenon
<1>3. CASE ~Collect
  <2>1. /\ Undisturbed /\ Apart /\ HandleSet /\ ~collided
        /\ Sound(commands, timers) /\ OthersEnd /\ MineEnds
    BY <1>3, Calm, Zenon DEF Undisturbed
  <2>2. CASE UNCHANGED vars
    <3>1. Expected' = Expected
      BY <2>2, Zenon DEF vars, Expected
    <3> QED
      BY <2>1, <2>2, <3>1, TimersLeft, Zenon DEF vars
  <2>3. CASE csi_data_print_task
    <3>1. Expected' = Expected
      BY <2>3, Zenon DEF csi_data_print_task, Expected
    <3> QED
      BY <2>1, <2>3, <3>1, TimersLeft, Zenon DEF csi_data_print_task
  <2>4. CASE SetTaget \/ Replace
    <3>1. UNCHANGED <<commands, timers, g_collect_timer_handele>>
      BY <2>4, Zenon DEF SetTaget, Replace
    <3>2. g_collect_timer_handele = 0 \/ Expected' = Expected
      BY <2>1, <2>4 DEF SetTaget, Replace, Replaced, Expected, Apart
    <3> QED
      BY <2>1, <3>1, <3>2, TimersLeft, Zenon
  <2>5. CASE Expire \/ Load \/ Store \/ Unknown \/ Commanded
    <3>1. UNCHANGED <<commands, timers, g_collect_timer_handele>>
      BY <2>5, Zenon DEF Expire, Load, Store, Unknown, Commanded
    <3>2. g_collect_timer_handele = 0 \/ Expected' = Expected
      BY <2>1, <2>5 DEF Expire, Load, Store, Unknown, Commanded, Expected, Apart, HandleSet
    <3> QED
      BY <2>1, <3>1, <3>2, TimersLeft, Zenon
  <2>6. CASE StopOld \/ DeleteOld \/ Start \/ Stop \/ Delete
    <3>1. UNCHANGED <<timers, g_collect_timer_handele>> /\ g_collect_timer_handele # 0
      BY <2>1, <2>6 DEF HandleSet, StopOld, DeleteOld, Start, Stop, Delete
    <3>2. PICK op \in Ops : Request(op) /\ Expected # "deleted" /\ Expected' = Made(op)
      <4>1. CASE StopOld
        <5>1. Expected = "active" /\ Expected' = "stopped" /\ Made("stop") = "stopped"
          BY <2>1, <4>1 DEF StopOld, Expected, Apart, Made
        <5> QED
          BY <4>1, <5>1 DEF StopOld, Ops
      <4>2. CASE DeleteOld
        <5>1. Expected = "stopped" /\ Expected' = "deleted" /\ Made("delete") = "deleted"
          BY <2>1, <4>2 DEF DeleteOld, Expected, Apart, Made
        <5> QED
          BY <4>2, <5>1 DEF DeleteOld, Ops
      <4>3. CASE Start
        <5>1. Expected = "stopped" /\ Expected' = "active" /\ Made("start") = "active"
          BY <2>1, <4>3 DEF Start, Expected, Apart, Made
        <5> QED
          BY <4>3, <5>1 DEF Start, Ops
      <4>4. CASE Stop
        <5>1. Expected = "active" /\ Expected' = "stopped" /\ Made("stop") = "stopped"
          BY <2>1, <4>4 DEF Stop, Expected, Apart, Made
        <5> QED
          BY <4>4, <5>1 DEF Stop, Ops
      <4>5. CASE Delete
        <5>1. Expected = "stopped" /\ Expected' = "deleted" /\ Made("delete") = "deleted"
          BY <2>1, <4>5 DEF Delete, Expected, Apart, Made
        <5> QED
          BY <4>5, <5>1 DEF Delete, Ops
      <4> QED
        BY <2>6, <4>1, <4>2, <4>3, <4>4, <4>5
    <3> QED
      BY <1>1, <2>1, <3>1, <3>2, TimerAsked, Zenon
  <2>7. CASE Create
    <3>1. /\ console = "create" /\ console' = "start" /\ g_collect_timer_handele' = cmds
          /\ commands' = commands /\ timers' = [timers EXCEPT ![cmds] = "stopped"]
      BY <2>7, Zenon DEF Create
    <3>2. cmds \in Timers /\ NoneFor(commands, cmds)
      <4>1. cmds > 0 /\ \A i \in 1 .. Len(commands) : commands[i].timer < cmds
        BY <1>1, <3>1 DEF Numbered, Early
      <4>2. ~(cmds < cmds)
        BY <1>1
      <4>3. NoneFor(commands, cmds)
        BY <4>1, <4>2, Zenon DEF NoneFor
      <4> QED
        BY <1>1, <4>1, <4>3 DEF Timers
    <3>3. /\ Sound(commands, timers') /\ WillBe(commands, timers', cmds, "stopped")
          /\ \A u \in Timers : \A s : u # cmds /\ WillBe(commands, timers', u, s) => WillBe(commands, timers, u, s)
      BY <1>1, <2>1, <3>1, <3>2, MadeEnds, Zenon
    <3>4. Expected = "deleted" /\ Expected' = "stopped"
      BY <2>1, <3>1 DEF Expected, Apart
    <3>5. \A t \in Timers : ~WillBe(commands, timers, t, "active")
      <4>1. g_collect_timer_handele \in Timers => ~WillBe(commands, timers, g_collect_timer_handele, "active")
        <5>1. g_collect_timer_handele \in Timers => g_collect_timer_handele # 0
          BY DEF Timers
        <5>2. g_collect_timer_handele # 0 => WillBe(commands, timers, g_collect_timer_handele, "deleted")
          BY <2>1, <3>4, Zenon DEF MineEnds
        <5>3. "deleted" # "active"
          OBVIOUS
        <5> QED
          BY <1>1, <5>1, <5>2, <5>3, EndsOnce, Zenon
      <4> QED
        BY <2>1, <4>1, Zenon DEF OthersEnd
    <3> QED
      BY <3>1, <3>3, <3>4, <3>5, Zenon DEF OthersEnd, MineEnds
  <2>8. CASE Clear
    <3>1. g_collect_timer_handele' = 0 /\ UNCHANGED <<commands, timers>>
      BY <2>8, Zenon DEF Clear
    <3>2. Expected = "deleted" /\ g_collect_timer_handele # 0
      BY <2>1, <2>8 DEF Clear, Expected, Apart, HandleSet
    <3>3. ~WillBe(commands, timers, g_collect_timer_handele, "active")
      <4>1. WillBe(commands, timers, g_collect_timer_handele, "deleted")
        BY <2>1, <3>2, Zenon DEF MineEnds
      <4>2. "deleted" # "active"
        OBVIOUS
      <4> QED
        BY <1>1, <4>1, <4>2, EndsOnce, Zenon
    <3> QED
      BY <2>1, <3>1, <3>3, Zenon DEF OthersEnd, MineEnds
  <2>9. CASE Command
    <3>1. /\ commands # <<>> /\ Head(commands) \in Orders /\ commands' = Tail(commands)
          /\ timers[Head(commands).timer] # "deleted" =>
               timers' = [timers EXCEPT ![Head(commands).timer] = Made(Head(commands).op)]
      BY <1>1, <2>9, CarriedOut, Zenon
    <3>2. timers[Head(commands).timer] # "deleted"
      <4>1. 1 \in 1 .. Len(commands) /\ Head(commands) = commands[1]
        BY <1>1, <3>1
      <4> QED
        BY <2>1, <4>1, Zenon DEF Sound
    <3>3. /\ Sound(commands', timers')
          /\ \A t \in Timers : \A s : WillBe(commands', timers', t, s) <=> WillBe(commands, timers, t, s)
      BY <1>1, <2>1, <3>1, <3>2, TailEnds, Zenon
    <3>4. g_collect_timer_handele' = g_collect_timer_handele /\ Expected' = Expected
      BY <2>9, Zenon DEF Command, Expected
    <3>5. g_collect_timer_handele # 0 => g_collect_timer_handele \in Timers
      BY <1>1 DEF Timers
    <3> QED
      BY <2>1, <3>3, <3>4, <3>5, Zenon DEF OthersEnd, MineEnds
  <2> QED
    BY <1>3, <2>2, <2>3, <2>4, <2>5, <2>6, <2>7, <2>8, <2>9, Steps, Zenon
<1> QED
  BY <1>2, <1>3
-----------------------------------------------------------------------------
(* The callback takes the number down to 0, where a number of 0 is 2^32. *)
LEMMA TakenDown ==
  ASSUME NEW w \in Nat \ {0}, NEW n \in 0 .. w - 1
  PROVE  (n + w - 1) % w = IF n = 0 THEN w - 1 ELSE n - 1
<1>1. CASE n = 0
  <2>1. n + w - 1 = w - 1 /\ w - 1 \in 0 .. w - 1
    BY <1>1
  <2>2. (w - 1) % w = w - 1
    BY <2>1
  <2> QED
    BY <1>1, <2>1, <2>2
<1>2. CASE n # 0
  <2>1. n + w - 1 = (n - 1) + w /\ n - 1 \in 0 .. w - 1
    BY <1>2
  <2>2. \A r \in 0 .. w - 1 : (r + w) % w = r
    OBVIOUS
  <2>3. ((n - 1) + w) % w = n - 1
    BY <2>1, <2>2, Zenon
  <2> QED
    BY <1>2, <2>1, <2>3
<1> QED
  BY <1>1, <1>2

(* The number and the runs of the callback add up to what was asked for. *)
LEMMA CountStep ==
  ASSUME IInv, [Next]_vars, ~collided'
  PROVE  Counted'
<1>1. TypeOK
  BY Zenon DEF IInv
<1>2. /\ Width \in Nat \ {0} /\ asked \in 0 .. Width - 1 /\ ticks \in Nat
      /\ collect_number \in 0 .. Width - 1 /\ reg \in 0 .. Width - 1
  BY <1>1, Shape
<1>3. Samples \in Nat \ {0} /\ Samples <= Width
  BY <1>2 DEF Samples
<1>4. CASE Collect
  <2>1. /\ daemon' = "idle" /\ ticks' = 0 /\ collect_number' = asked' /\ asked' \in 0 .. Width - 1
    <3>1. daemon = "idle"
      BY <1>4, Calm, Zenon
    <3> QED
      BY <1>4, <3>1 DEF Collect
  <2>2. ticks' < Samples'
    BY <1>2, <2>1 DEF Samples
  <2> QED
    BY <2>1, <2>2 DEF Counted
<1>5. CASE ~Collect
  <2>1. /\ Undisturbed /\ Apart /\ HandleSet /\ Counted
    BY <1>5, Calm, Zenon DEF Undisturbed
  <2>2. CASE UNCHANGED vars
    BY <2>1, <2>2, Zenon DEF vars, Counted, Samples
  <2>3. CASE csi_data_print_task
    BY <2>1, <2>3, Zenon DEF csi_data_print_task, Counted, Samples
  <2>4. CASE SetTaget \/ Replace \/ StopOld \/ DeleteOld \/ Create \/ Start
    <3>1. /\ UNCHANGED <<collect_number, asked, ticks, reg, daemon>> /\ console # "idle"
          /\ daemon = "idle"
      BY <2>1, <2>4 DEF SetTaget, Replace, Replaced, StopOld, DeleteOld, Create, Start, Apart
    <3>2. ticks < Samples /\ collect_number = IF ticks = 0 THEN asked ELSE Samples - ticks
      BY <2>1, <3>1 DEF Counted
    <3>3. Samples' = Samples
      BY <3>1, Zenon DEF Samples
    <3> QED
      BY <3>1, <3>2, <3>3 DEF Counted
  <2>5. CASE Expire
    <3>1. /\ UNCHANGED <<collect_number, asked, ticks>> /\ daemon = "idle" /\ daemon' = "load"
          /\ g_collect_timer_handele # 0
      BY <1>1, <2>1, <2>5, ExpiresMine, Zenon DEF Expire
    <3>2. ticks < Samples /\ collect_number = IF ticks = 0 THEN asked ELSE Samples - ticks
      BY <2>1, <3>1 DEF Counted
    <3>3. Samples' = Samples
      BY <3>1, Zenon DEF Samples
    <3> QED
      BY <3>1, <3>2, <3>3 DEF Counted
  <2>6. CASE Load
    <3>1. /\ daemon = "load" /\ daemon' = "store" /\ ticks' = ticks + 1 /\ asked' = asked
          /\ reg' = (collect_number + Width - 1) % Width
      BY <2>6, Zenon DEF Load, Decrement
    <3>2. ticks < Samples /\ collect_number = IF ticks = 0 THEN asked ELSE Samples - ticks
      BY <2>1, <3>1 DEF Counted, HandleSet
    <3>3. reg' = IF collect_number = 0 THEN Width - 1 ELSE collect_number - 1
      BY <1>2, <3>1, TakenDown
    <3>4. Samples' = Samples
      BY <3>1, Zenon DEF Samples
    <3>5. ticks' <= Samples /\ ticks' > 0
      BY <1>2, <1>3, <3>1, <3>2
    <3>6. reg' = Samples - ticks'
      <4>1. CASE ticks = 0
        BY <1>2, <3>1, <3>2, <3>3, <4>1 DEF Samples
      <4>2. CASE ticks # 0
        <5>1. collect_number = Samples - ticks /\ collect_number # 0
          BY <1>2, <1>3, <3>2, <4>2
        <5> QED
          BY <1>2, <1>3, <3>1, <3>3, <5>1
      <4> QED
        BY <4>1, <4>2
    <3>7. asked # 0 => collect_number # 0
      BY <1>2, <1>3, <3>2
    <3>8. asked # 0 => collect_number = reg' + 1
      BY <1>2, <3>3, <3>7
    <3>9. collect_number' = collect_number
      BY <2>6, Zenon DEF Load
    <3> QED
      BY <3>1, <3>4, <3>5, <3>6, <3>8, <3>9 DEF Counted
  <2>7. CASE Store
    <3>1. /\ daemon = "store" /\ collect_number' = reg /\ UNCHANGED <<asked, ticks>>
          /\ daemon' = IF reg = 0 THEN "stop" ELSE "commands"
      BY <2>7, Zenon DEF Store, Last
    <3>2. ticks <= Samples /\ reg = Samples - ticks
      BY <2>1, <3>1 DEF Counted
    <3>3. Samples' = Samples
      BY <3>1, Zenon DEF Samples
    <3>4. CASE reg = 0
      <4>1. ticks = Samples
        BY <1>2, <1>3, <3>2, <3>4
      <4> QED
        BY <3>1, <3>3, <3>4, <4>1 DEF Counted
    <3>5. CASE reg # 0
      <4>1. ticks < Samples /\ (ticks = 0 => reg = asked)
        <5>1. ticks < Samples
          BY <1>2, <1>3, <3>2, <3>5
        <5>2. ticks = 0 => reg = asked
          BY <1>2, <3>2 DEF Samples
        <5> QED
          BY <5>1, <5>2
      <4> QED
        BY <3>1, <3>2, <3>3, <3>5, <4>1 DEF Counted
    <3> QED
      BY <3>4, <3>5
  <2>8. CASE Stop \/ Delete \/ Clear \/ Unknown
    <3>1. /\ UNCHANGED <<collect_number, asked, ticks, console>> /\ daemon \in {"stop", "delete", "clear", "unknown"}
          /\ daemon' \in {"delete", "clear", "unknown", "commands"}
      BY <2>8 DEF Stop, Delete, Clear, Unknown
    <3>2. daemon' = "commands" => g_collect_timer_handele' = 0 /\ console' = "idle"
      BY <2>1, <2>8 DEF Stop, Delete, Clear, Unknown, HandleSet, Apart
    <3>3. ticks = Samples /\ collect_number = 0
      BY <2>1, <3>1 DEF Counted
    <3>4. Samples' = Samples
      BY <3>1, Zenon DEF Samples
    <3> QED
      BY <3>1, <3>2, <3>3, <3>4 DEF Counted
  <2>9. CASE Command \/ Commanded
    <3>1. /\ UNCHANGED <<collect_number, asked, ticks, console, g_collect_timer_handele>>
          /\ daemon \in {"idle", "commands"} /\ daemon' \in {"idle", "commands"}
      BY <2>9 DEF Command, Commanded
    <3>2. g_collect_timer_handele # 0 \/ console # "idle" =>
            ticks < Samples /\ collect_number = IF ticks = 0 THEN asked ELSE Samples - ticks
      BY <2>1, <3>1 DEF Counted
    <3>3. Samples' = Samples
      BY <3>1, Zenon DEF Samples
    <3> QED
      BY <3>1, <3>2, <3>3 DEF Counted
  <2> QED
    BY <1>5, <2>2, <2>3, <2>4, <2>5, <2>6, <2>7, <2>8, <2>9, Steps, Zenon
<1> QED
  BY <1>4, <1>5

(* A row has a number of the collection whose label it gets. *)
LEMMA RowStep ==
  ASSUME IInv, [Next]_vars, ~collided'
  PROVE  RowHonest'
<1>1. TypeOK /\ Numbered
  BY Zenon DEF IInv
<1>2. /\ Width \in Nat \ {0} /\ asked \in 0 .. Width - 1 /\ ticks \in Nat
      /\ collect_number \in 0 .. Width - 1 /\ reg \in 0 .. Width - 1 /\ cmds \in Nat
      /\ daemon \in {"idle", "load", "store", "stop", "delete", "clear", "unknown", "commands"}
  BY <1>1, Shape DEF TypeOK
<1>3. CASE Collect
  <2>1. cmds' = cmds + 1 /\ console' # console
    BY <1>3 DEF Collect
  <2>2. row' = row
    BY <2>1, Steps, Zenon DEF vars, csi_data_print_task
  <2>3. row.cmds \in 0 .. MaxCmds /\ row.cmds <= cmds
    BY <1>1 DEF Numbered
  <2>4. row'.cmds # cmds'
    BY <1>2, <2>1, <2>2, <2>3
  <2> QED
    BY <2>4, Zenon DEF RowHonest
<1>4. CASE ~Collect
  <2>1. Undisturbed /\ Apart /\ HandleSet /\ Labelled /\ Counted /\ RowHonest
    BY <1>4, Calm, Zenon DEF Undisturbed
  <2>2. CASE UNCHANGED vars
    BY <2>1, <2>2, Zenon DEF vars, RowHonest
  <2>3. CASE csi_data_print_task
    <3>1. UNCHANGED <<collect_taget, console, asked, cmds>>
      BY <2>3, Zenon DEF csi_data_print_task
    <3>2. CASE PrintTaget
      BY <3>2 DEF PrintTaget, RowHonest
    <3>3. CASE PrintNumber /\ (collect_taget # 0 \/ console # "idle") /\ asked # 0
      <4>1. Samples = asked
        BY <3>3, Zenon DEF Samples
      <4>2. CASE daemon \in {"idle", "load", "commands"}
        <5>1. g_collect_timer_handele # 0 \/ console # "idle"
          BY <2>1, <3>3, <4>2 DEF Labelled
        <5>2. ticks < asked /\ collect_number = IF ticks = 0 THEN asked ELSE asked - ticks
          BY <2>1, <4>1, <4>2, <5>1 DEF Counted
        <5>3. collect_number \in 1 .. asked
          BY <1>2, <5>2, <3>3
        <5> QED
          BY <3>1, <3>3, <5>3 DEF PrintNumber, RowHonest
      <4>3. CASE daemon = "store"
        <5>1. ticks > 0 /\ reg = asked - ticks /\ collect_number = reg + 1
          BY <2>1, <3>3, <4>1, <4>3 DEF Counted
        <5>2. collect_number \in 1 .. asked
          BY <1>2, <5>1
        <5> QED
          BY <3>1, <3>3, <5>2 DEF PrintNumber, RowHonest
      <4>4. CASE daemon \in {"stop", "delete", "clear", "unknown"}
        <5>1. collect_number = 0
          BY <2>1, <4>4 DEF Counted
        <5>2. row'.number = 0 /\ row'.ending
          BY <3>3, <4>4, <5>1 DEF PrintNumber
        <5> QED
          BY <5>2, Zenon DEF RowHonest
      <4> QED
        BY <1>2, <4>2, <4>3, <4>4
    <3>4. CASE ~(collect_taget # 0 \/ console # "idle") \/ asked = 0
      BY <3>1, <3>4, Zenon DEF RowHonest
    <3> QED
      BY <2>3, <3>2, <3>3, <3>4, Zenon DEF csi_data_print_task
  <2>4. CASE /\ UNCHANGED printing
             /\ \/ SetTaget \/ Replace \/ StopOld \/ DeleteOld \/ Create \/ Start
                \/ Expire \/ Load \/ Store \/ Stop \/ Delete \/ Clear \/ Unknown
                \/ Command \/ Commanded
    <3>1. UNCHANGED <<row, printer, asked, cmds>>
      BY <2>4, Zenon DEF SetTaget, Replace, StopOld, DeleteOld, Create, Start, Expire, Load,
         Store, Stop, Delete, Clear, Unknown, Command, Commanded
    <3>2. collect_taget' # 0 \/ console' # "idle" => collect_taget # 0 \/ console # "idle"
      <4>1. CASE SetTaget \/ Replace \/ StopOld \/ DeleteOld \/ Create \/ Start
        BY <4>1 DEF SetTaget, Replace, Replaced, StopOld, DeleteOld, Create, Start
      <4>2. CASE \/ Expire \/ Load \/ Store \/ Stop \/ Delete \/ Clear \/ Unknown
                 \/ Command \/ Commanded
        BY <4>2, Zenon DEF Expire, Load, Store, Stop, Delete, Clear, Unknown, LabelCleared,
           Command, Commanded
      <4> QED
        BY <2>4, <4>1, <4>2
    <3> QED
      BY <2>1, <3>1, <3>2, Zenon DEF RowHonest
  <2> QED
    BY <1>4, <2>2, <2>3, <2>4, Steps, Zenon
<1> QED
  BY <1>3, <1>4
-----------------------------------------------------------------------------
(* The invariant holds initially. *)
LEMMA InitInv ==
  Init => IInv
<1> SUFFICES ASSUME Init PROVE IInv
  OBVIOUS
<1>1. /\ Width \in Nat \ {0} /\ MaxCmds \in Nat /\ 0 \in 0 .. Width - 1 /\ 0 \in 0 .. MaxCmds
      /\ 0 <= 0 /\ 0 \in Nat
  OBVIOUS
<1>2. /\ commands = <<>> /\ Len(commands) = 0 /\ commands \in Seq(Orders)
      /\ timers = [t \in Timers |-> "none"] /\ timers \in [Timers -> States]
  BY DEF Init, States
<1>3. TypeOK
  BY <1>1, <1>2 DEF Init, TypeOK, NoRow, Orders, Ops, States
<1>4. Numbered
  <2>1. /\ row \in [number : 0 .. Width - 1, cmds : 0 .. MaxCmds, ending : BOOLEAN]
        /\ row.cmds = 0
    BY <1>1 DEF Init, NoRow
  <2>2. "idle" \notin Early
    BY DEF Early
  <2>3. \A i \in 1 .. Len(commands) : commands[i].timer <= cmds
    BY <1>2
  <2> QED
    BY <1>1, <2>1, <2>2, <2>3, Zenon DEF Init, Numbered
<1>5. Sound(commands, timers) /\ \A t : NoneFor(commands, t) /\ \A op : ~LastFor(commands, t, op)
  BY <1>2 DEF Sound, NoneFor, LastFor
<1>6. \A t \in Timers : ~WillBe(commands, timers, t, "active")
  <2>1. \A t \in Timers : timers[t] # "active"
    BY <1>2
  <2> QED
    BY <1>5, <2>1, Zenon DEF WillBe
<1>7. Apart /\ HandleSet /\ Labelled /\ Counted
  BY <1>1, <1>2 DEF Init, Apart, HandleSet, Labelled, Counted
<1>8. OthersEnd /\ MineEnds /\ ~broken
  BY <1>6, Zenon DEF Init, OthersEnd, MineEnds
<1>9. RowHonest
  BY DEF Init, RowHonest
<1> QED
  BY <1>3, <1>4, <1>5, <1>7, <1>8, <1>9, Zenon DEF IInv, Undisturbed

(* The invariant is kept by every step. *)
LEMMA NextInv ==
  IInv /\ [Next]_vars => IInv'
<1> SUFFICES ASSUME IInv, [Next]_vars PROVE IInv'
  OBVIOUS
<1>1. ASSUME ~collided' PROVE Undisturbed'
  BY <1>1, ControlStep, TimerStep, CountStep, RowStep, Zenon DEF Undisturbed
<1> QED
  BY <1>1, TypeStep, NumberedStep, Zenon DEF IInv

(* The invariant of a collection: unless a callback ran into a command,    *)
(* timers, queue, label and number belong together in every step of both.  *)
THEOREM CollectInvariant ==
  Spec => []IInv
<1>1. Init /\ [][Next]_vars => []IInv
  BY InitInv, NextInv, PTL
<1> QED
  BY <1>1, PTL DEF Spec

(* Types: the number wraps round within its width, however it is counted,  *)
(* and commands to the timer daemon are for timers that were made.         *)
THEOREM CollectTypes ==
  Spec => []TypeOK
<1>1. IInv => TypeOK
  BY Zenon DEF IInv
<1> QED
  BY <1>1, CollectInvariant, PTL

(* At rest a label is in force exactly while the one timer of the handle   *)
(* runs, and no freed timer or NULL was used on the way, however commands  *)
(* replaced each other, but where a callback ran into one of them.         *)
THEOREM NothingIsLeft ==
  Spec => []NothingLeft
<1>1. ASSUME IInv PROVE NothingLeft
  <2>1. TypeOK /\ (~collided => Undisturbed)
    BY <1>1, Zenon DEF IInv
  <2>2. ASSUME AtRest, ~collided
        PROVE  (collect_taget = 0 <=> g_collect_timer_handele = 0) /\ OneTimer
    <3>1. console = "idle" /\ daemon = "idle" /\ commands = <<>>
      BY <2>2, Zenon DEF AtRest
    <3>2. Labelled /\ OthersEnd /\ MineEnds
      BY <2>1, <2>2, Zenon DEF Undisturbed
    <3>3. collect_taget = 0 <=> g_collect_timer_handele = 0
      BY <3>1, <3>2 DEF Labelled
    <3>4. Expected = "active"
      BY <3>1 DEF Expected
    <3>5. \A t : NoneFor(commands, t) /\ \A op : ~LastFor(commands, t, op)
      BY <3>1 DEF NoneFor, LastFor
    <3>6. \A t \in Timers : WillBe(commands, timers, t, "active") <=> timers[t] = "active"
      BY <3>5, Zenon DEF WillBe
    <3>7. \A t \in Timers : t # 0
      BY DEF Timers
    <3>8. OneTimer
      BY <3>2, <3>4, <3>6, <3>7, Zenon DEF OthersEnd, MineEnds, OneTimer
    <3> QED
      BY <3>3, <3>8, Zenon
  <2>3. broken => collided
    BY <2>1, Zenon DEF Undisturbed
  <2> QED
    BY <2>2, <2>3, Zenon DEF NothingLeft
<1> QED
  BY <1>1, CollectInvariant, PTL

(* A collection takes as many samples as were asked for, and 2^32 for 0.   *)
THEOREM TicksExact ==
  Spec => TicksAsAsked
<1>1. ASSUME IInv, daemon = "clear", ~collided
      PROVE  ticks = IF asked = 0 THEN Width ELSE asked
  <2>1. Counted
    BY <1>1, Zenon DEF IInv, Undisturbed
  <2> QED
    BY <1>1, <2>1 DEF Counted, Samples
<1>2. IInv /\ [Next]_vars =>
        [daemon = "clear" /\ daemon' # "clear" /\ ~collided =>
           ticks = IF asked = 0 THEN Width ELSE asked]_vars
  BY <1>1, Zenon
<1>3. Spec => [][Next]_vars
  BY PTL DEF Spec
<1> QED
  BY <1>2, <1>3, CollectInvariant, PTL DEF TicksAsAsked

(* A row with a label has a number of that collection, from what was asked *)
(* for down to 1, and 0 only while the last callback takes the label away. *)
THEOREM RowsAreLabelled ==
  Spec => RowsLabelled
<1>1. ASSUME IInv, printer = "taget", collect_taget # 0, row.cmds = cmds, ~collided
      PROVE  asked = 0 \/ row.number \in 1 .. asked \/ (row.number = 0 /\ row.ending)
  <2>1. RowHonest
    BY <1>1, Zenon DEF IInv, Undisturbed
  <2> QED
    BY <1>1, <2>1, Zenon DEF RowHonest
<1>2. IInv /\ [Next]_vars =>
        [/\ printer = "taget" /\ printer' = "idle" /\ collect_taget # 0
         /\ console = "idle" /\ row.cmds = cmds /\ ~collided
         => asked = 0 \/ row.number \in 1 .. asked \/ (row.number = 0 /\ row.ending)]_vars
  BY <1>1, Zenon
<1>3. Spec => [][Next]_vars
  BY PTL DEF Spec
<1> QED
  BY <1>2, <1>3, CollectInvariant, PTL DEF RowsLabelled
=============================================================================
