------------------------- MODULE RadarDetectProofs -------------------------
(***************************************************************************)
(* Proofs about RadarDetect for every ring, window, threshold and timeout: *)
(* types, what the LED and the cloud are told, and that movement is judged *)
(* from the last values whatever the window was before.                    *)
(***************************************************************************)
EXTENDS RadarDetect, FiniteSetTheorems, TLAPS

USE DetectAssumption

(* The count of movements to report is of detections since the last report. *)
CountTimed == s_report_move_count <= report_age

(* A movement lights the LED green; it goes off a while after the movement. *)
LedFollows ==
  /\ lit_by # "calibration" /\ s_last_move_status => led = "green"
  /\ lit_by = "detection" /\ led = "off" => move_age > LedHold

(* The cloud has a movement only while the status held as reported is one, *)
(* and after a still value none is left to be counted.                     *)
CloudFollows ==
  /\ cloud.move => s_report_move_status
  /\ still > 0 /\ s_report_move_status => s_report_move_count = 0

(* The place of the k-th newest value in a window that is filled round.    *)
Newest(k, p, w) == IF k <= p THEN p - k ELSE p - k + w
WindowRecent ==
  /\ unchanged <= Len(recent)
  /\ \A k \in 1 .. filter_window :
       k <= unchanged =>
         s_buff_jitter[Newest(k, s_buff_count % filter_window, filter_window)] = recent[k]

IInv == /\ TypeOK /\ CountTimed /\ LedFollows /\ LedTellsRoom
        /\ CloudFollows /\ StopReported /\ WindowRecent /\ MovementIsRecent

-----------------------------------------------------------------------------
(* The remainder of what is written as a multiple and a rest. *)
LEMMA ModOf ==
  ASSUME NEW q \in Int, NEW w \in Nat \ {0}, NEW r \in 0 .. w - 1
  PROVE  (q * w + r) % w = r
OBVIOUS

(* Every number is a multiple of a window and its remainder. *)
LEMMA ModPick ==
  ASSUME NEW c \in Nat, NEW w \in Nat \ {0}
  PROVE  \E q \in Int, r \in 0 .. w - 1 : c = q * w + r /\ c % w = r
<1>1. c % w = c - w * (c \div w)
  BY SMTT(60)
<1>2. c % w \in 0 .. w - 1 /\ c \div w \in Int
  OBVIOUS
<1>3. PICK q \in Int : q = c \div w
  BY <1>2
<1>4. PICK r \in 0 .. w - 1 : r = c % w
  BY <1>2
<1>5. r = c - w * q
  BY <1>1, <1>3, <1>4, Zenon
<1>6. c = q * w + r
  BY <1>5
<1> QED
  BY <1>4, <1>6, Zenon

(* The place in the window moves on by one, and round at its end. *)
LEMMA ModSucc ==
  ASSUME NEW c \in Nat, NEW w \in Nat \ {0}
  PROVE  (c + 1) % w = IF (c % w) + 1 = w THEN 0 ELSE (c % w) + 1
<1>1. PICK q \in Int, r \in 0 .. w - 1 : c = q * w + r /\ c % w = r
  BY ModPick
<1>2. CASE r + 1 = w
  <2>1. c + 1 = (q + 1) * w + 0
    BY <1>1, <1>2
  <2>2. q + 1 \in Int /\ 0 \in 0 .. w - 1
    OBVIOUS
  <2>3. ((q + 1) * w + 0) % w = 0
    BY <2>2, ModOf
  <2> QED
    BY <1>1, <1>2, <2>1, <2>3, Zenon
<1>3. CASE r + 1 # w
  <2>1. c + 1 = q * w + (r + 1)
    BY <1>1, <1>3
  <2>2. r + 1 \in 0 .. w - 1
    BY <1>3
  <2>3. (q * w + (r + 1)) % w = r + 1
    BY <2>2, ModOf
  <2> QED
    BY <1>1, <1>3, <2>1, <2>3, Zenon
<1> QED
  BY <1>2, <1>3

(* The count may go back by a multiple of the window. *)
LEMMA ModBack ==
  ASSUME NEW c \in Nat, NEW w \in Nat \ {0}, NEW d \in Nat, d % w = 0, d <= c
  PROVE  (c - d) % w = c % w
<1>1. PICK q \in Int, r \in 0 .. w - 1 : c = q * w + r /\ c % w = r
  BY ModPick, ZenonT(60)
<1>2. PICK k \in Int, z \in 0 .. w - 1 : d = k * w + z /\ d % w = z
  BY ModPick
<1>3. d = k * w
  BY <1>2
<1>4. c - d = (q - k) * w + r
  BY <1>1, <1>3
<1>5. ((q - k) * w + r) % w = r
  BY ModOf
<1> QED
  BY <1>1, <1>4, <1>5, Zenon

(* So does the model's count, which is kept below a multiple of all windows. *)
LEMMA CountedPlace ==
  ASSUME NEW c \in Nat, NEW w \in Windows
  PROVE  /\ c % w \in 0 .. w - 1 /\ Counted(c + 1) \in Nat
         /\ Counted(c + 1) % w = IF (c % w) + 1 = w THEN 0 ELSE (c % w) + 1
<1>1. w \in Nat \ {0} /\ RingSize \in Nat /\ Cycle \in Nat /\ Cycle % w = 0
  OBVIOUS
<1>2. c % w \in 0 .. w - 1
  BY <1>1, ModPick
<1>3. (c + 1) % w = IF (c % w) + 1 = w THEN 0 ELSE (c % w) + 1
  BY <1>1, ModSucc, Zenon
<1>4. CASE c + 1 < RingSize + Cycle
  BY <1>2, <1>3, <1>4 DEF Counted
<1>5. CASE ~(c + 1 < RingSize + Cycle)
  <2>1. Cycle <= c + 1 /\ c + 1 \in Nat
    BY <1>1, <1>5
  <2>2. ((c + 1) - Cycle) % w = (c + 1) % w
    <3>1. \A n \in Nat : Cycle <= n => (n - Cycle) % w = n % w
      BY <1>1, ModBack, ZenonT(60)
    <3> QED
      BY <2>1, <3>1, Zenon
  <2>3. (c + 1) - Cycle \in Nat
    BY <1>1, <2>1
  <2> QED
    BY <1>2, <1>3, <1>5, <2>2, <2>3, Zenon DEF Counted
<1> QED
  BY <1>4, <1>5

-----------------------------------------------------------------------------
(* The history of values: the newest in front, the others behind it, the   *)
(* oldest beyond the ring's size forgotten.                                *)
LEMMA RecentStep ==
  ASSUME TypeOK, NEW jitter \in Jitters, Filter(jitter)
  PROVE  /\ recent' \in Seq(Jitters) /\ Len(recent') <= RingSize
         /\ Len(recent') = (IF Len(recent) < RingSize THEN Len(recent) + 1 ELSE RingSize)
         /\ recent'[1] = jitter
         /\ \A k \in 2 .. Len(recent') : recent'[k] = recent[k - 1]
<1> DEFINE n == IF Len(recent) < RingSize THEN Len(recent) + 1 ELSE RingSize
           all == <<jitter>> \o recent
<1>1. /\ recent \in Seq(Jitters) /\ Len(recent) \in Nat /\ Len(recent) <= RingSize
      /\ RingSize \in Nat \ {0}
  BY DEF TypeOK
<1>2. n \in 1 .. RingSize /\ n <= Len(recent) + 1
  BY <1>1
<1>3. /\ all \in Seq(Jitters) /\ Len(all) = Len(recent) + 1 /\ all[1] = jitter
      /\ \A k \in 2 .. Len(recent) + 1 : all[k] = recent[k - 1]
  BY <1>1
<1> HIDE DEF all
<1>4. recent' = SubSeq(all, 1, n)
  BY DEF Filter, all
<1> HIDE DEF n
<1>5. /\ recent' \in Seq(Jitters) /\ Len(recent') = n
      /\ \A k \in 1 .. n : recent'[k] = all[k]
  BY <1>1, <1>2, <1>3, <1>4
<1>6. 1 \in 1 .. n /\ \A k \in 2 .. n : k \in 1 .. n /\ k \in 2 .. Len(recent) + 1
  BY <1>1, <1>2
<1> QED
  BY <1>1, <1>2, <1>3, <1>5, <1>6 DEF n

(* Ages grow, up to the bound. *)
LEMMA OlderGrows ==
  ASSUME NEW age \in 0 .. MaxAge, NEW d \in 1 .. MaxAge
  PROVE  /\ Older(age, d) \in 0 .. MaxAge /\ age <= Older(age, d)
         /\ Older(age, d) < MaxAge => age < Older(age, d)
BY DEF Older

(* What the constants are. *)
LEMMA Bounds ==
  /\ RingSize \in Nat \ {0} /\ MaxAge \in Nat
  /\ LedHold \in Nat /\ LedHold < MaxAge /\ ReportEvery \in Nat /\ ReportEvery < MaxAge
OBVIOUS

-----------------------------------------------------------------------------
Flags == {threshold_calibrate, s_last_move_status, someone_status, detected,
          led_status, synced, s_report_someone_status, s_report_move_status}

(* The flags stay Booleans. *)
LEMMA FlagsStep ==
  ASSUME TypeOK, [Next]_vars
  PROVE  \A flag \in Flags' : flag \in BOOLEAN
<1> USE DEF TypeOK, Flags, config, window, room, light, report
<1>1. CASE write_cb
  BY <1>1, Zenon DEF write_cb, WriteWindow, WriteOther
<1>2. CASE TimeSync
  BY <1>2, Zenon DEF TimeSync
<1>3. CASE radar_cb
  <2>1. PICK d \in 1 .. MaxAge : Warming(d) \/ Flash(d) \/ Detect(d)
    BY <1>3, Zenon DEF radar_cb
  <2>2. UNCHANGED <<threshold_calibrate, synced>>
    BY <1>3, Zenon DEF radar_cb
  <2>3. CASE Warming(d) \/ Flash(d)
    BY <2>2, <2>3, Zenon DEF Warming, Flash
  <2>4. CASE Detect(d)
    <3>1. MoveStatus \in BOOLEAN
      BY DEF MoveStatus
    <3>2. (Older(move_age, d) < someone_timeout) \in BOOLEAN
      OBVIOUS
    <3>3. /\ s_last_move_status' \in BOOLEAN /\ someone_status' \in BOOLEAN
          /\ detected' \in BOOLEAN /\ led_status' \in BOOLEAN
      BY <2>4, <3>1, <3>2, Zenon DEF Detect
    <3>4. s_report_someone_status' \in BOOLEAN /\ s_report_move_status' \in BOOLEAN
      <4>1. CASE synced /\ ToCloud(MoveStatus, Older(report_age, d))
        BY <3>1, <3>3, <4>1, Zenon DEF ToCloud, Reported
      <4>2. CASE UNCHANGED <<s_report_someone_status, s_report_move_status>>
        BY <4>2, Zenon
      <4> QED
        BY <2>4, <4>1, <4>2, Zenon DEF Detect
    <3> QED
      BY <2>2, <3>3, <3>4, Zenon
  <2> QED
    BY <2>1, <2>3, <2>4
<1>4. CASE UNCHANGED vars
  BY <1>4, Zenon DEF vars
<1> QED
  BY <1>1, <1>2, <1>3, <1>4, Zenon DEF Next

(* A detection: what it sees of movement and of the time since the last.   *)
LEMMA Detection ==
  ASSUME TypeOK, NEW d \in 1 .. MaxAge, Detect(d)
  PROVE  \E move \in BOOLEAN, age \in 0 .. MaxAge :
           /\ move = MoveStatus /\ age = Older(move_age, d) /\ move_age <= age
           /\ detected' = TRUE /\ someone_status' = (age < someone_timeout)
           /\ Light(move, age)
           /\ move_age' = (IF move THEN 0 ELSE age) /\ s_last_move_status' = move
           /\ \/ synced /\ ToCloud(move, Older(report_age, d))
              \/ /\ report_age' = Older(report_age, d)
                 /\ UNCHANGED <<s_report_someone_status, s_report_move_status,
                                s_report_move_count, still, cloud>>
<1>1. PICK move \in BOOLEAN : move = MoveStatus
  <2>1. MoveStatus \in BOOLEAN
    BY DEF MoveStatus
  <2> QED
    BY <2>1, Zenon
<1>2. PICK age \in 0 .. MaxAge : age = Older(move_age, d) /\ move_age <= age
  <2>1. move_age \in 0 .. MaxAge
    BY DEF TypeOK
  <2> QED
    BY <2>1, OlderGrows, Zenon
<1>3. /\ detected' = TRUE /\ someone_status' = (age < someone_timeout)
      /\ Light(move, age)
      /\ move_age' = (IF move THEN 0 ELSE age) /\ s_last_move_status' = move
  BY <1>1, <1>2, Zenon DEF Detect
<1>4. \/ synced /\ ToCloud(move, Older(report_age, d))
      \/ /\ report_age' = Older(report_age, d)
         /\ UNCHANGED <<s_report_someone_status, s_report_move_status,
                        s_report_move_count, still, cloud>>
  BY <1>1, Zenon DEF Detect
<1> QED
  BY <1>1, <1>2, <1>3, <1>4, Zenon

(* A value that is no detection leaves what was reported; the LED is lit   *)
(* by the calibration or left alone.                                       *)
LEMMA NoDetection ==
  ASSUME TypeOK, NEW d \in 1 .. MaxAge, Warming(d) \/ Flash(d)
  PROVE  /\ move_age' \in 0 .. MaxAge /\ move_age <= move_age'
         /\ report_age' \in 0 .. MaxAge /\ report_age <= report_age'
         /\ detected' = FALSE
         /\ UNCHANGED <<s_last_move_status, someone_status, s_report_someone_status,
                        s_report_move_status, s_report_move_count, still, cloud>>
         /\ UNCHANGED light \/ (lit_by' = "calibration" /\ led' \in {"off", "yellow"})
<1>1. move_age \in 0 .. MaxAge /\ report_age \in 0 .. MaxAge
  BY DEF TypeOK
<1>2. move_age' = Older(move_age, d) /\ report_age' = Older(report_age, d)
  BY Zenon DEF Warming, Flash
<1>3. /\ move_age' \in 0 .. MaxAge /\ move_age <= move_age'
      /\ report_age' \in 0 .. MaxAge /\ report_age <= report_age'
  BY <1>1, <1>2, OlderGrows
<1>4. UNCHANGED light \/ (lit_by' = "calibration" /\ led' \in {"off", "yellow"})
  BY Zenon DEF Warming, Flash
<1> QED
  BY <1>3, <1>4, Zenon DEF Warming, Flash

-----------------------------------------------------------------------------
(* What a report leaves of the count, the age and the status in the cloud. *)
LEMMA Counts ==
  ASSUME TypeOK, CountTimed, CloudFollows, StopReported,
         NEW move \in BOOLEAN, NEW d \in 1 .. MaxAge, ToCloud(move, Older(report_age, d)),
         s_report_move_status' \in BOOLEAN, someone_status' \in BOOLEAN
  PROVE  /\ s_report_move_count' \in 0 .. ReportEvery /\ report_age' \in 0 .. MaxAge
         /\ still' \in 0 .. 2 /\ cloud' \in [someone : BOOLEAN, move : BOOLEAN]
         /\ CountTimed' /\ CloudFollows' /\ StopReported'
<1> DEFINE age == Older(report_age, d)
           count == IF move THEN s_report_move_count + 1 ELSE s_report_move_count
<1>1. /\ report_age \in 0 .. MaxAge /\ s_report_move_count \in 0 .. ReportEvery
      /\ s_report_move_count <= report_age /\ still \in 0 .. 2
      /\ cloud \in [someone : BOOLEAN, move : BOOLEAN]
  BY DEF TypeOK, CountTimed
<1>2. /\ age \in 0 .. MaxAge /\ report_age <= age
      /\ age < MaxAge => report_age < age
  BY <1>1, OlderGrows
<1>3. count \in Nat /\ (move => count > 0) /\ (~move => count = s_report_move_count)
  BY <1>1, Bounds
<1>4. still' = IF move THEN 0 ELSE IF still < 2 THEN still + 1 ELSE 2
  BY Zenon DEF ToCloud
<1>5. /\ still' \in 0 .. 2 /\ (still' > 0 => ~move) /\ (still' = 2 => still > 0 /\ ~move)
      /\ (~move => still' > 0)
  BY <1>1, <1>4
<1>6. s_report_move_status \in BOOLEAN
  BY Zenon DEF TypeOK
<1>7. CASE MoveDue(move, age)
  <2>1. /\ cloud' = [someone |-> someone_status', move |-> move \/ count > 0]
        /\ s_report_move_status' = Reported(move, count)
        /\ s_report_move_count' = 0 /\ report_age' = 0
    BY <1>7, Zenon DEF ToCloud
  <2>2. (count > 0) \in BOOLEAN /\ (count = 0 <=> ~(count > 0))
    BY <1>3
  <2>3. cloud'.move = (move \/ count > 0) /\ cloud' \in [someone : BOOLEAN, move : BOOLEAN]
    <3>1. (move \/ count > 0) \in BOOLEAN
      BY Zenon
    <3> QED
      BY <2>1, <3>1
  <2>4. 0 \in 0 .. ReportEvery /\ 0 \in 0 .. MaxAge /\ 0 <= 0
    BY Bounds
  <2>5. s_report_move_count' = 0
    BY <2>1
  <2>6. cloud'.move => s_report_move_status'
    <3> HIDE DEF count
    <3>1. s_report_move_status' = IF ~s_report_move_status \/ count = 0 THEN move ELSE s_report_move_status
      BY <2>1, Zenon DEF Reported
    <3>2. s_report_move_status \/ move
      BY <1>7, <1>6, Zenon DEF MoveDue
    <3> QED
      BY <1>6, <2>2, <2>3, <3>1, <3>2, Zenon
  <2>7. still' = 2 => ~cloud'.move
    <3> SUFFICES ASSUME still' = 2 PROVE ~cloud'.move
      OBVIOUS
    <3>1. still > 0 /\ ~move
      BY <1>5
    <3>2. s_report_move_status
      BY <1>6, <1>7, <3>1, Zenon DEF MoveDue
    <3>3. s_report_move_count = 0
      BY <3>1, <3>2 DEF CloudFollows
    <3>4. ~(count > 0)
      BY <3>1, <3>3
    <3> QED
      BY <2>3, <3>1, <3>4, Zenon
  <2> QED
    BY <1>5, <2>1, <2>3, <2>4, <2>5, <2>6, <2>7, Zenon DEF CountTimed, CloudFollows, StopReported
<1>8. CASE ~MoveDue(move, age)
  <2>1. /\ cloud' = (IF NoOneDue THEN [cloud EXCEPT !.someone = FALSE] ELSE cloud)
        /\ s_report_move_count' = count /\ report_age' = age
        /\ s_report_move_status' = s_report_move_status
    BY <1>8, Zenon DEF ToCloud
  <2>2. (move <=> s_report_move_status) /\ (move => ~(age > ReportEvery))
    <3>1. move = s_report_move_status /\ ~(move /\ age > ReportEvery)
      BY <1>8, Zenon DEF MoveDue
    <3> QED
      BY <3>1, Zenon
  <2>3. cloud' \in [someone : BOOLEAN, move : BOOLEAN] /\ cloud'.move = cloud.move
    BY <1>1, <2>1
  <2>4. count \in 0 .. ReportEvery /\ count <= age
    <3>1. CASE move
      <4>1. age <= ReportEvery /\ age < MaxAge
        BY <1>2, <2>2, <3>1, Bounds
      <4> QED
        BY <1>1, <1>2, <3>1, <4>1, Bounds
    <3>2. CASE ~move
      BY <1>1, <1>2, <3>2, Bounds
    <3> QED
      BY <3>1, <3>2
  <2> HIDE DEF count, age
  <2>5. CountTimed'
    BY <2>1, <2>4, Zenon DEF CountTimed
  <2>6. still' > 0 => ~s_report_move_status'
    BY <1>5, <2>1, <2>2, Zenon
  <2>7. CloudFollows' /\ StopReported'
    <3>1. cloud'.move => s_report_move_status'
      BY <2>1, <2>3, Zenon DEF CloudFollows
    <3>2. still' = 2 => ~cloud'.move
      BY <1>5, <2>1, <2>2, <3>1, Zenon
    <3> QED
      BY <2>6, <3>1, <3>2, Zenon DEF CloudFollows, StopReported
  <2> QED
    BY <1>2, <1>5, <2>1, <2>3, <2>4, <2>5, <2>7, Zenon DEF age
<1> QED
  BY <1>7, <1>8
-----------------------------------------------------------------------------
(* The newest value lies where the last one was placed, the older ones each *)
(* one place further back than before, and none where the new one goes.     *)
LEMMA NewestMoves ==
  ASSUME NEW w \in Nat \ {0}, NEW p \in 0 .. w - 1, NEW p2 \in 0 .. w - 1,
         p2 = IF p + 1 = w THEN 0 ELSE p + 1
  PROVE  /\ Newest(1, p2, w) = p
         /\ \A k \in 2 .. w : /\ Newest(k, p2, w) = Newest(k - 1, p, w)
                              /\ Newest(k, p2, w) \in 0 .. w - 1
                              /\ Newest(k, p2, w) # p
BY DEF Newest

(* Each place of a window holds one of its newest values. *)
LEMMA NewestCovers ==
  ASSUME NEW w \in Nat \ {0}, NEW p \in 0 .. w - 1
  PROVE  /\ \A k \in 1 .. w : Newest(k, p, w) \in 0 .. w - 1
         /\ \A j, k \in 1 .. w : Newest(j, p, w) = Newest(k, p, w) => j = k
         /\ \A i \in 0 .. w - 1 : \E k \in 1 .. w : Newest(k, p, w) = i
<1>1. \A i \in 0 .. w - 1 : \E k \in 1 .. w : Newest(k, p, w) = i
  <2> SUFFICES ASSUME NEW i \in 0 .. w - 1 PROVE \E k \in 1 .. w : Newest(k, p, w) = i
    OBVIOUS
  <2>1. CASE i < p
    <3>1. p - i \in 1 .. w /\ Newest(p - i, p, w) = i
      BY <2>1 DEF Newest
    <3> QED
      BY <3>1, Zenon
  <2>2. CASE ~(i < p)
    <3>1. p - i + w \in 1 .. w /\ Newest(p - i + w, p, w) = i
      BY <2>2 DEF Newest
    <3> QED
      BY <3>1, Zenon
  <2> QED
    BY <2>1, <2>2
<1> QED
  BY <1>1 DEF Newest

(* What is held in a window as far as p lists, by age, what is in a sequence. *)
Lists(held, seq, p, w) ==
  /\ DOMAIN held = 0 .. w - 1 /\ DOMAIN seq = 1 .. w
  /\ \A k \in 1 .. w : held[Newest(k, p, w)] = seq[k]

(* As many values above a threshold are in the window as are among the     *)
(* newest, when the window holds these in any order.                       *)
LEMMA SameAbove ==
  ASSUME NEW w \in Nat \ {0}, NEW p \in 0 .. w - 1,
         NEW held, NEW seq, Lists(held, seq, p, w)
  PROVE  Above(held) = Above(seq)
<1> DEFINE S == {k \in DOMAIN seq : seq[k] > move_threshold}
           T == {i \in DOMAIN held : held[i] > move_threshold}
           place == [k \in S |-> Newest(k, p, w)]
<1>1. /\ \A k \in 1 .. w : Newest(k, p, w) \in 0 .. w - 1
      /\ \A j, k \in 1 .. w : Newest(j, p, w) = Newest(k, p, w) => j = k
      /\ \A i \in 0 .. w - 1 : \E k \in 1 .. w : Newest(k, p, w) = i
  BY NewestCovers
<1>2. \A k \in S : place[k] = Newest(k, p, w) /\ k \in 1 .. w
  BY Zenon DEF Lists
<1>3. \A k \in S : place[k] \in T
  BY <1>1, <1>2, Zenon DEF Lists
<1>4. place \in Injection(S, T)
  <2>1. place \in [S -> T]
    BY <1>3, Zenon
  <2>2. \A j, k \in S : place[j] = place[k] => j = k
    BY <1>1, <1>2, Zenon
  <2> HIDE DEF place, S, T
  <2> QED
    BY <2>1, <2>2, Zenon DEF Injection, IsInjective
<1>5. place \in Surjection(S, T)
  <2>1. \A i \in T : \E k \in S : place[k] = i
    <3> SUFFICES ASSUME NEW i \in T PROVE \E k \in S : place[k] = i
      OBVIOUS
    <3>1. PICK k \in 1 .. w : Newest(k, p, w) = i
      BY <1>1, Zenon DEF Lists
    <3>2. k \in S
      BY <3>1, Zenon DEF Lists
    <3> QED
      BY <1>2, <3>1, <3>2, Zenon
  <2>2. place \in [S -> T]
    BY <1>3, Zenon
  <2> HIDE DEF place, S, T
  <2> QED
    BY <2>1, <2>2, Zenon DEF Surjection
<1>6. ExistsBijection(S, T)
  <2> HIDE DEF place, S, T
  <2> QED
    BY <1>4, <1>5, Zenon DEF ExistsBijection, Bijection
<1>7. IsFiniteSet(S)
  <2>1. IsFiniteSet(DOMAIN seq) /\ S \subseteq DOMAIN seq
    BY FS_Interval DEF Lists
  <2> HIDE DEF S
  <2> QED
    BY <2>1, FS_Subset
<1> HIDE DEF S, T
<1>8. Cardinality(T) = Cardinality(S)
  BY <1>6, <1>7, FS_Bijection
<1> QED
  BY <1>8, Zenon DEF Above, S, T

(* The window after a value: it still holds the newest values in order. *)
LEMMA WindowStep ==
  ASSUME TypeOK, WindowRecent, NEW jitter \in Jitters, Filter(jitter),
         filter_window' = filter_window
  PROVE  /\ s_buff_jitter' \in [0 .. RingSize - 1 -> Jitters \cup {0}]
         /\ s_buff_count' \in Nat /\ unchanged' \in 0 .. RingSize
         /\ WindowRecent'
<1> DEFINE w == filter_window
           p == s_buff_count % filter_window
           p2 == s_buff_count' % filter_window
<1>1. /\ w \in Windows /\ w \in 1 .. RingSize /\ s_buff_count \in Nat
      /\ s_buff_jitter \in [0 .. RingSize - 1 -> Jitters \cup {0}]
      /\ unchanged \in 0 .. RingSize /\ unchanged <= Len(recent)
      /\ Len(recent) \in Nat /\ Len(recent) <= RingSize
  BY DEF TypeOK, WindowRecent
<1>2. /\ s_buff_jitter' = [s_buff_jitter EXCEPT ![p] = jitter]
      /\ s_buff_count' = Counted(s_buff_count + 1)
      /\ unchanged' = IF unchanged < RingSize THEN unchanged + 1 ELSE RingSize
  BY Zenon DEF Filter, Place
<1>3. /\ p \in 0 .. w - 1 /\ s_buff_count' \in Nat
      /\ p2 = IF p + 1 = w THEN 0 ELSE p + 1
  BY <1>1, <1>2, CountedPlace, Zenon
<1>4. /\ Len(recent') = (IF Len(recent) < RingSize THEN Len(recent) + 1 ELSE RingSize)
      /\ recent'[1] = jitter
      /\ \A k \in 2 .. Len(recent') : recent'[k] = recent[k - 1]
  BY RecentStep
<1> HIDE DEF p, p2, w
<1>5. /\ p \in 0 .. RingSize - 1 /\ p2 \in 0 .. w - 1 /\ w \in Nat \ {0}
      /\ \A i \in 0 .. w - 1 : i \in 0 .. RingSize - 1
  BY <1>1, <1>3, Bounds
<1>6. /\ s_buff_jitter' \in [0 .. RingSize - 1 -> Jitters \cup {0}]
      /\ s_buff_jitter'[p] = jitter
      /\ \A i \in 0 .. w - 1 : i # p => s_buff_jitter'[i] = s_buff_jitter[i]
  BY <1>1, <1>2, <1>5, Zenon
<1>7. unchanged' \in 0 .. RingSize /\ unchanged' <= Len(recent') /\ unchanged' <= unchanged + 1
  BY <1>1, <1>2, <1>4, Bounds
<1>8. /\ Newest(1, p2, w) = p
      /\ \A k \in 2 .. w : /\ Newest(k, p2, w) = Newest(k - 1, p, w)
                           /\ Newest(k, p2, w) \in 0 .. w - 1
                           /\ Newest(k, p2, w) # p
  BY <1>3, <1>5, NewestMoves
<1>9. ASSUME NEW k \in 1 .. w, k <= unchanged'
      PROVE  s_buff_jitter'[Newest(k, p2, w)] = recent'[k]
  <2>1. CASE k = 1
    BY <1>4, <1>6, <1>8, <2>1, Zenon
  <2>2. CASE k # 1
    <3>1. /\ k \in 2 .. w /\ k \in 2 .. Len(recent') /\ k - 1 \in 1 .. w /\ k - 1 <= unchanged
      BY <1>1, <1>4, <1>5, <1>7, <1>9, <2>2
    <3>2. s_buff_jitter[Newest(k - 1, p, w)] = recent[k - 1]
      BY <3>1, Zenon DEF WindowRecent, p, w
    <3> QED
      BY <1>4, <1>6, <1>8, <3>1, <3>2, Zenon
  <2> QED
    BY <2>1, <2>2, Zenon
<1>10. WindowRecent'
  BY <1>7, <1>9, Zenon DEF WindowRecent, p2, w
<1> QED
  BY <1>3, <1>6, <1>7, <1>10, Zenon

(* A detection after the whole window was renewed judges the newest values. *)
LEMMA MoveFromRecent ==
  ASSUME TypeOK, TypeOK', WindowRecent', filter_window' = filter_window,
         unchanged' >= filter_window
  PROVE  MoveStatus = (Above(SubSeq(recent', 1, filter_window)) >= filter_count)
<1> DEFINE w == filter_window
           p == s_buff_count' % filter_window
           held == [i \in 0 .. w - 1 |-> s_buff_jitter'[i]]
           seq == SubSeq(recent', 1, w)
<1>1. /\ w \in 1 .. RingSize /\ w \in Windows /\ w \in Nat \ {0}
      /\ s_buff_count' \in Nat /\ recent' \in Seq(Jitters) /\ unchanged' \in Nat
      /\ unchanged' <= Len(recent') /\ Len(recent') \in Nat
  <2>1. w \in 1 .. RingSize /\ w \in Windows /\ w \in Nat \ {0}
    BY DEF TypeOK
  <2>2. s_buff_count' \in Nat /\ recent' \in Seq(Jitters) /\ unchanged' \in 0 .. RingSize
    BY Zenon DEF TypeOK
  <2>3. unchanged' \in Nat /\ Len(recent') \in Nat
    BY <2>2, Bounds
  <2>4. unchanged' <= Len(recent')
    BY Zenon DEF WindowRecent
  <2> QED
    BY <2>1, <2>2, <2>3, <2>4, Zenon
<1>2. p \in 0 .. w - 1
  BY <1>1, CountedPlace, Zenon
<1>3. w <= unchanged' /\ w <= Len(recent') /\ \A k \in 1 .. w : k <= unchanged'
  BY <1>1
<1>4. \A k \in 1 .. w : s_buff_jitter'[Newest(k, p, w)] = recent'[k]
  BY <1>3, Zenon DEF WindowRecent
<1> HIDE DEF p, w
<1>5. DOMAIN seq = 1 .. w /\ \A k \in 1 .. w : seq[k] = recent'[k]
  BY <1>1, <1>3
<1>6. DOMAIN held = 0 .. w - 1 /\ \A i \in 0 .. w - 1 : held[i] = s_buff_jitter'[i]
  BY Zenon
<1>7. \A k \in 1 .. w : Newest(k, p, w) \in 0 .. w - 1
  BY <1>1, <1>2, NewestCovers
<1>8. Lists(held, seq, p, w)
  BY <1>4, <1>5, <1>6, <1>7, Zenon DEF Lists
<1> HIDE DEF held, seq
<1>9. Above(held) = Above(seq)
  BY <1>1, <1>2, <1>8, SameAbove, ZenonT(60)
<1> QED
  BY <1>9, Zenon DEF MoveStatus, held, seq, w
-----------------------------------------------------------------------------
(* A step is a value that is a detection or not, or it leaves the window's *)
(* values, the room, the light and the report alone.                       *)
LEMMA Steps ==
  ASSUME [Next]_vars
  PROVE  \/ \E jitter \in Jitters, d \in 1 .. MaxAge :
              /\ Filter(jitter) /\ (Warming(d) \/ Flash(d) \/ Detect(d))
              /\ UNCHANGED <<config, synced>>
         \/ /\ detected' = FALSE \/ UNCHANGED <<config, window, detected>>
            /\ UNCHANGED <<room, light, report>>
            /\ \/ UNCHANGED <<filter_window, window>>
               \/ unchanged' = 0 /\ UNCHANGED <<s_buff_jitter, s_buff_count, recent>>
<1>1. CASE write_cb
  BY <1>1, Zenon DEF write_cb, WriteWindow, WriteOther
<1>2. CASE TimeSync
  BY <1>2, Zenon DEF TimeSync, config
<1>3. CASE radar_cb
  BY <1>3, Zenon DEF radar_cb
<1>4. CASE UNCHANGED vars
  BY <1>4, Zenon DEF vars, config
<1> QED
  BY <1>1, <1>2, <1>3, <1>4, Zenon DEF Next

(* What was reported, and what the cloud has of it. *)
LEMMA ReportStep ==
  ASSUME IInv, [Next]_vars
  PROVE  /\ s_report_move_count' \in 0 .. ReportEvery /\ report_age' \in 0 .. MaxAge
         /\ still' \in 0 .. 2 /\ cloud' \in [someone : BOOLEAN, move : BOOLEAN]
         /\ CountTimed' /\ CloudFollows' /\ StopReported'
<1>1. /\ TypeOK /\ CountTimed /\ CloudFollows /\ StopReported
      /\ s_report_move_count \in 0 .. ReportEvery /\ report_age \in 0 .. MaxAge
      /\ still \in 0 .. 2 /\ cloud \in [someone : BOOLEAN, move : BOOLEAN]
  BY Zenon DEF IInv, TypeOK
<1>2. CASE UNCHANGED report
  BY <1>1, <1>2, Zenon DEF report, CountTimed, CloudFollows, StopReported
<1>3. ASSUME report_age' \in 0 .. MaxAge, report_age <= report_age',
             UNCHANGED <<s_report_someone_status, s_report_move_status,
                         s_report_move_count, still, cloud>>
      PROVE  /\ s_report_move_count' \in 0 .. ReportEvery /\ report_age' \in 0 .. MaxAge
             /\ still' \in 0 .. 2 /\ cloud' \in [someone : BOOLEAN, move : BOOLEAN]
             /\ CountTimed' /\ CloudFollows' /\ StopReported'
  <2>1. CountTimed'
    <3>1. s_report_move_count <= report_age /\ s_report_move_count' = s_report_move_count
      BY <1>1, <1>3, Zenon DEF CountTimed
    <3> QED
      BY <1>1, <1>3, <3>1, Bounds DEF CountTimed
  <2> QED
    BY <1>1, <1>3, <2>1, Zenon DEF CloudFollows, StopReported
<1>4. ASSUME NEW d \in 1 .. MaxAge, Warming(d) \/ Flash(d)
      PROVE  /\ s_report_move_count' \in 0 .. ReportEvery /\ report_age' \in 0 .. MaxAge
             /\ still' \in 0 .. 2 /\ cloud' \in [someone : BOOLEAN, move : BOOLEAN]
             /\ CountTimed' /\ CloudFollows' /\ StopReported'
  BY <1>1, <1>3, <1>4, NoDetection, Zenon
<1>5. ASSUME NEW d \in 1 .. MaxAge, Detect(d)
      PROVE  /\ s_report_move_count' \in 0 .. ReportEvery /\ report_age' \in 0 .. MaxAge
             /\ still' \in 0 .. 2 /\ cloud' \in [someone : BOOLEAN, move : BOOLEAN]
             /\ CountTimed' /\ CloudFollows' /\ StopReported'
  <2>1. PICK move \in BOOLEAN :
           \/ synced /\ ToCloud(move, Older(report_age, d))
           \/ /\ report_age' = Older(report_age, d)
              /\ UNCHANGED <<s_report_someone_status, s_report_move_status,
                             s_report_move_count, still, cloud>>
    BY <1>1, <1>5, Detection, Zenon
  <2>2. CASE ToCloud(move, Older(report_age, d))
    <3>1. s_report_move_status' \in BOOLEAN /\ someone_status' \in BOOLEAN
      BY <1>1, FlagsStep, Zenon DEF Flags
    <3> QED
      BY <1>1, <2>2, <3>1, Counts, Zenon
  <2>3. CASE /\ report_age' = Older(report_age, d)
             /\ UNCHANGED <<s_report_someone_status, s_report_move_status,
                            s_report_move_count, still, cloud>>
    BY <1>1, <1>3, <2>3, OlderGrows, Zenon
  <2> QED
    BY <2>1, <2>2, <2>3, Zenon
<1> QED
  BY <1>2, <1>4, <1>5, Steps, Zenon

(* The LED and the room. *)
LEMMA LightStep ==
  ASSUME IInv, [Next]_vars
  PROVE  /\ move_age' \in 0 .. MaxAge
         /\ led' \in {"off", "green", "white", "yellow"}
         /\ lit_by' \in {"boot", "calibration", "detection"}
         /\ LedFollows' /\ LedTellsRoom'
<1>1. /\ TypeOK /\ LedFollows /\ LedTellsRoom /\ move_age \in 0 .. MaxAge
      /\ led \in {"off", "green", "white", "yellow"}
      /\ lit_by \in {"boot", "calibration", "detection"}
      /\ s_last_move_status \in BOOLEAN
  BY Zenon DEF IInv, TypeOK
<1>2. CASE UNCHANGED <<room, light>> /\ (detected' = FALSE \/ detected' = detected)
  <2>1. UNCHANGED <<move_age, s_last_move_status, someone_status, led, lit_by>>
    BY <1>2, Zenon DEF room, light
  <2>2. LedFollows'
    BY <1>1, <2>1, Zenon DEF LedFollows
  <2>3. LedTellsRoom'
    <3>1. CASE detected' = FALSE
      BY <3>1, Zenon DEF LedTellsRoom
    <3>2. CASE detected' = detected
      BY <1>1, <2>1, <3>2, Zenon DEF LedTellsRoom
    <3> QED
      BY <1>2, <3>1, <3>2, Zenon
  <2> QED
    BY <1>1, <2>1, <2>2, <2>3, Zenon
<1>3. ASSUME NEW d \in 1 .. MaxAge, Warming(d) \/ Flash(d)
      PROVE  /\ move_age' \in 0 .. MaxAge
             /\ led' \in {"off", "green", "white", "yellow"}
             /\ lit_by' \in {"boot", "calibration", "detection"}
             /\ LedFollows' /\ LedTellsRoom'
  <2>1. /\ move_age' \in 0 .. MaxAge /\ move_age <= move_age' /\ detected' = FALSE
        /\ s_last_move_status' = s_last_move_status
        /\ UNCHANGED light \/ (lit_by' = "calibration" /\ led' \in {"off", "yellow"})
    BY <1>1, <1>3, NoDetection, Zenon
  <2>2. LedTellsRoom'
    BY <2>1, Zenon DEF LedTellsRoom
  <2>3. CASE UNCHANGED light
    <3>1. move_age > LedHold => move_age' > LedHold
      BY <1>1, <2>1, Bounds
    <3> QED
      BY <1>1, <2>1, <2>2, <2>3, <3>1, Zenon DEF light, LedFollows
  <2>4. CASE lit_by' = "calibration" /\ led' \in {"off", "yellow"}
    BY <2>1, <2>2, <2>4 DEF LedFollows
  <2> QED
    BY <2>1, <2>3, <2>4, Zenon
<1>4. ASSUME NEW d \in 1 .. MaxAge, Detect(d)
      PROVE  /\ move_age' \in 0 .. MaxAge
             /\ led' \in {"off", "green", "white", "yellow"}
             /\ lit_by' \in {"boot", "calibration", "detection"}
             /\ LedFollows' /\ LedTellsRoom'
  <2>1. PICK move \in BOOLEAN, age \in 0 .. MaxAge :
           /\ move_age <= age /\ someone_status' = (age < someone_timeout)
           /\ Light(move, age)
           /\ move_age' = (IF move THEN 0 ELSE age) /\ s_last_move_status' = move
    BY <1>1, <1>4, Detection, Zenon
  <2>2. /\ move_age' \in 0 .. MaxAge /\ (~move => move_age' = age)
    BY <2>1, Bounds
  <2>3. someone_status' \in BOOLEAN
    BY <1>1, FlagsStep, Zenon DEF Flags
  <2>4. CASE move /\ led' = "green" /\ lit_by' = "detection"
    BY <2>1, <2>2, <2>4 DEF LedFollows, LedTellsRoom
  <2>5. CASE /\ ~move /\ age > LedHold
             /\ led' = StillColour /\ lit_by' = "detection"
    <3>1. led' \in {"off", "white"} /\ (led' = "off" => ~someone_status')
      BY <2>3, <2>5 DEF StillColour
    <3> QED
      BY <2>1, <2>2, <2>5, <3>1 DEF LedFollows, LedTellsRoom
  <2>6. CASE /\ (IF move THEN ~Changed(move) ELSE Changed(move) \/ age <= LedHold)
             /\ UNCHANGED <<led, lit_by>>
    <3>1. CASE move
      <4>1. s_last_move_status
        BY <1>1, <2>6, <3>1, Zenon DEF Changed
      <4>2. lit_by' # "calibration" => led' = "green"
        BY <1>1, <2>6, <4>1, Zenon DEF LedFollows
      <4> QED
        BY <1>1, <2>1, <2>2, <2>6, <3>1, <4>2 DEF LedFollows, LedTellsRoom
    <3>2. CASE ~move
      <4>1. s_last_move_status \/ age <= LedHold
        BY <1>1, <2>6, <3>2, Zenon DEF Changed
      <4>2. ~(lit_by = "detection" /\ led = "off")
        <5>1. CASE s_last_move_status
          BY <1>1, <5>1 DEF LedFollows
        <5>2. CASE age <= LedHold
          <6>1. ~(move_age > LedHold)
            BY <1>1, <2>1, <5>2, Bounds
          <6> QED
            BY <1>1, <6>1, Zenon DEF LedFollows
        <5> QED
          BY <4>1, <5>1, <5>2
      <4>3. ~(lit_by' = "detection" /\ led' = "off")
        BY <2>6, <4>2, Zenon
      <4> QED
        BY <1>1, <2>1, <2>2, <2>6, <3>2, <4>3, Zenon DEF LedFollows, LedTellsRoom
    <3> QED
      BY <3>1, <3>2
  <2> QED
    BY <2>1, <2>4, <2>5, <2>6, Zenon DEF Light
<1>5. \/ \E d \in 1 .. MaxAge : Warming(d) \/ Flash(d) \/ Detect(d)
      \/ UNCHANGED <<room, light>> /\ (detected' = FALSE \/ detected' = detected)
  BY Steps, Zenon
<1> QED
  BY <1>2, <1>3, <1>4, <1>5, Zenon

(* The window of values. *)
LEMMA RingStep ==
  ASSUME IInv, [Next]_vars
  PROVE  /\ s_buff_jitter' \in [0 .. RingSize - 1 -> Jitters \cup {0}]
         /\ s_buff_count' \in Nat /\ recent' \in Seq(Jitters) /\ Len(recent') <= RingSize
         /\ unchanged' \in 0 .. RingSize /\ WindowRecent'
<1>1. /\ TypeOK /\ WindowRecent
      /\ s_buff_jitter \in [0 .. RingSize - 1 -> Jitters \cup {0}]
      /\ s_buff_count \in Nat /\ recent \in Seq(Jitters) /\ Len(recent) <= RingSize
      /\ unchanged \in 0 .. RingSize
  BY Zenon DEF IInv, TypeOK
<1>2. CASE UNCHANGED <<filter_window, window>>
  BY <1>1, <1>2, Zenon DEF window, WindowRecent
<1>3. CASE unchanged' = 0 /\ UNCHANGED <<s_buff_jitter, s_buff_count, recent>>
  <2>1. 0 \in 0 .. RingSize /\ 0 <= Len(recent)
    BY <1>1, Bounds
  <2>2. \A k \in 1 .. filter_window' : ~(k <= 0)
    OBVIOUS
  <2>3. WindowRecent'
    BY <1>3, <2>1, <2>2, Zenon DEF WindowRecent
  <2> QED
    BY <1>1, <1>3, <2>1, <2>3, Zenon
<1>4. ASSUME NEW jitter \in Jitters, Filter(jitter), UNCHANGED config
      PROVE  /\ s_buff_jitter' \in [0 .. RingSize - 1 -> Jitters \cup {0}]
             /\ s_buff_count' \in Nat /\ recent' \in Seq(Jitters) /\ Len(recent') <= RingSize
             /\ unchanged' \in 0 .. RingSize /\ WindowRecent'
  <2>1. filter_window' = filter_window
    BY <1>4, Zenon DEF config
  <2> QED
    BY <1>1, <1>4, <2>1, WindowStep, RecentStep, Zenon
<1> QED
  BY <1>2, <1>3, <1>4, Steps, Zenon

(* The types. *)
LEMMA TypeStep ==
  ASSUME IInv, [Next]_vars
  PROVE  TypeOK'
<1>1. TypeOK
  BY Zenon DEF IInv
<1>2. /\ filter_window' \in Windows /\ filter_count' \in FilterCounts
      /\ move_threshold' \in Thresholds /\ someone_timeout' \in Timeouts
  <2>1. /\ filter_window \in Windows /\ filter_count \in FilterCounts
        /\ move_threshold \in Thresholds /\ someone_timeout \in Timeouts
    BY <1>1, Zenon DEF TypeOK
  <2>2. CASE write_cb
    BY <2>1, <2>2, Zenon DEF write_cb, WriteWindow, WriteOther
  <2>3. CASE UNCHANGED config
    BY <2>1, <2>3, Zenon DEF config
  <2> QED
    BY <2>2, <2>3, Zenon DEF Next, TimeSync, radar_cb, vars
<1>3. \A flag \in Flags' : flag \in BOOLEAN
  BY <1>1, FlagsStep, Zenon
<1> QED
  BY <1>2, <1>3, ReportStep, LightStep, RingStep, Zenon DEF TypeOK, Flags

(* A detection judges the newest values. *)
LEMMA MovementStep ==
  ASSUME IInv, [Next]_vars
  PROVE  MovementIsRecent'
<1>1. TypeOK /\ MovementIsRecent /\ TypeOK' /\ WindowRecent'
  BY TypeStep, RingStep, Zenon DEF IInv
<1>2. CASE detected' = FALSE
  BY <1>2, Zenon DEF MovementIsRecent
<1>3. CASE UNCHANGED <<config, window, detected, room>>
  BY <1>1, <1>3, Zenon DEF config, window, room, MovementIsRecent, Above
<1>4. ASSUME NEW d \in 1 .. MaxAge, Detect(d), UNCHANGED config
      PROVE  MovementIsRecent'
  <2>1. PICK move \in BOOLEAN : move = MoveStatus /\ s_last_move_status' = move
    BY <1>1, <1>4, Detection, Zenon
  <2>2. /\ filter_window' = filter_window /\ filter_count' = filter_count
        /\ move_threshold' = move_threshold
    BY <1>4, Zenon DEF config
  <2>3. unchanged' >= filter_window' =>
          MoveStatus = (Above(SubSeq(recent', 1, filter_window)) >= filter_count)
    BY <1>1, <2>2, MoveFromRecent, Zenon
  <2> QED
    BY <2>1, <2>2, <2>3, Zenon DEF MovementIsRecent, Above
<1>5. ASSUME NEW d \in 1 .. MaxAge, Warming(d) \/ Flash(d)
      PROVE  detected' = FALSE
  BY <1>1, <1>5, NoDetection, Zenon
<1> QED
  BY <1>2, <1>3, <1>4, <1>5, Steps, Zenon

(* The invariant holds initially. *)
LEMMA InitInv ==
  Init => IInv
<1> SUFFICES ASSUME Init PROVE IInv
  OBVIOUS
<1>1. s_buff_jitter \in [0 .. RingSize - 1 -> Jitters \cup {0}]
  BY DEF Init
<1>2. \A flag \in Flags : flag \in BOOLEAN
  BY Zenon DEF Init, Flags
<1>3. /\ recent \in Seq(Jitters) /\ Len(recent) = 0
      /\ s_buff_count \in Nat /\ unchanged = 0
  BY DEF Init
<1>4. /\ 0 \in 0 .. MaxAge /\ 0 \in 0 .. ReportEvery /\ 0 \in 0 .. 2 /\ 0 \in 0 .. RingSize
      /\ 0 <= 0 /\ 0 <= RingSize
  BY Bounds
<1>5. cloud \in [someone : BOOLEAN, move : BOOLEAN] /\ ~cloud.move
  BY DEF Init
<1>6. TypeOK
  BY <1>1, <1>2, <1>3, <1>4, <1>5 DEF Init, TypeOK, Flags
<1>7. CountTimed /\ LedFollows /\ LedTellsRoom
  BY DEF Init, CountTimed, LedFollows, LedTellsRoom
<1>8. CloudFollows /\ StopReported
  BY <1>5 DEF Init, CloudFollows, StopReported
<1>9. WindowRecent
  <2>1. \A k \in 1 .. filter_window : ~(k <= 0)
    OBVIOUS
  <2> QED
    BY <1>3, <1>4, <2>1, Zenon DEF WindowRecent
<1>10. MovementIsRecent
  BY Zenon DEF Init, MovementIsRecent
<1> QED
  BY <1>6, <1>7, <1>8, <1>9, <1>10, Zenon DEF IInv

(* The invariant is kept by every step. *)
LEMMA NextInv ==
  IInv /\ [Next]_vars => IInv'
BY TypeStep, ReportStep, LightStep, RingStep, MovementStep, Zenon DEF IInv

(* The invariant of the detection: what the window holds, what the LED and *)
(* the cloud have been told and the counts between them belong together.   *)
THEOREM RadarInvariant ==
  Spec => []IInv
BY InitInv, NextInv, PTL DEF Spec

(* Types: the places written stay in the ring, and no more movements are   *)
(* ever counted for a report than ticks between two of them.               *)
THEOREM RadarTypes ==
  Spec => []TypeOK
<1>1. IInv => TypeOK
  BY Zenon DEF IInv
<1> QED
  BY <1>1, RadarInvariant, PTL

(* Movement is told from the last filter_window values once as many have   *)
(* come since the window's size changed, wherever they lie in the ring.    *)
THEOREM JudgesRecent ==
  Spec => []MovementIsRecent
<1>1. IInv => MovementIsRecent
  BY Zenon DEF IInv
<1> QED
  BY <1>1, RadarInvariant, PTL

(* Unless a calibration took it, the LED is green as long as movement is   *)
(* detected and off, once a detection set it, only in an empty room.       *)
THEOREM LedIsRight ==
  Spec => []LedTellsRoom
<1>1. IInv => LedTellsRoom
  BY Zenon DEF IInv
<1> QED
  BY <1>1, RadarInvariant, PTL

(* The cloud knows of the end of a movement from the second still value.   *)
THEOREM CloudHearsStop ==
  Spec => []StopReported
<1>1. IInv => StopReported
  BY Zenon DEF IInv
<1> QED
  BY <1>1, RadarInvariant, PTL
=============================================================================
