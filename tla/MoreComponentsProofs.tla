------------------------ MODULE MoreComponentsProofs ------------------------
(***************************************************************************)
(* Further proofs about the components of MCComponents, for every value of *)
(* the constants. RadarPresence: what a report counts is what was received *)
(* last, wherever the ring has it, and a green LED has a reason.           *)
(* EvalServer: however a stream of lines is cut, the records in it are     *)
(* handed on once and in order. Startup: nothing but the known cases comes *)
(* before what it needs, in any application on any chip. At the end, the   *)
(* types of all components.                                                *)
(***************************************************************************)
EXTENDS ComponentsProofs, FiniteSetTheorems

Size == RADAR_BUFF_MAX_LEN

(* The ring has a size, *)
LEMMA SizeIs == Size \in Nat /\ Size > 0 /\ Size \in Nat \ {0}
BY ComponentsAssumption DEF ComponentsAssumption, Size
(* and the values are what the callback may get. *)
LEMMA ValuesAre == BuffSizes \subseteq Nat /\ OutlierNumbers \subseteq Nat /\ 0 \in Jitters
BY ComponentsAssumption DEF ComponentsAssumption

(* The place of the k-th newest value in a ring whose next place is p. *)
Place(k, p) == IF k <= p THEN p - k ELSE p - k + Size
Following(p) == IF p + 1 = Size THEN 0 ELSE p + 1

-----------------------------------------------------------------------------
(* The remainder of what is written as a multiple and a rest. *)
LEMMA RestOf ==
  ASSUME NEW q \in Int, NEW d \in Nat, d > 0, NEW r \in 0 .. d - 1
  PROVE  (q * d + r) % d = r
OBVIOUS

(* Every number is a multiple of a size and its remainder. *)
LEMMA Divided ==
  ASSUME NEW c \in Int, NEW d \in Nat, d > 0
  PROVE  c % d = c - d * (c \div d) /\ c % d \in 0 .. d - 1 /\ c \div d \in Int
OBVIOUS
(* It is written so. *)
LEMMA RestPick ==
  ASSUME NEW c \in Nat, NEW d \in Nat, d > 0
  PROVE  \E q \in Int, r \in 0 .. d - 1 : c = q * d + r /\ c % d = r
<1>1. c % d = c - d * (c \div d) /\ c % d \in 0 .. d - 1 /\ c \div d \in Int
  BY Divided
<1>2. PICK q \in Int : q = c \div d
  BY <1>1
<1>3. PICK r \in 0 .. d - 1 : r = c % d
  BY <1>1
<1>4. r = c - d * q
  BY <1>1, <1>2, <1>3, Zenon
<1>5. c = q * d + r
  BY <1>4
<1> QED BY <1>3, <1>5, Zenon

(* The value received k values ago lies k places back, round the ring. *)
LEMMA PlaceOf ==
  ASSUME NEW c \in Nat, NEW k \in 1 .. Size, k <= c
  PROVE  (c - k) % Size = Place(k, c % Size)
<1>1. PICK q \in Int, r \in 0 .. Size - 1 : c = q * Size + r /\ c % Size = r
  BY SizeIs, RestPick
<1>2. CASE k <= r
  <2>1. c - k = q * Size + (r - k) /\ r - k \in 0 .. Size - 1
    BY <1>1, <1>2, SizeIs
  <2>2. (q * Size + (r - k)) % Size = r - k
    BY <2>1, RestOf, SizeIs
  <2> QED BY <1>1, <1>2, <2>1, <2>2, Zenon DEF Place
<1>3. CASE ~(k <= r)
  <2>1. c - k = (q - 1) * Size + (r - k + Size) /\ r - k + Size \in 0 .. Size - 1 /\ q - 1 \in Int
    BY <1>1, <1>3, SizeIs
  <2>2. ((q - 1) * Size + (r - k + Size)) % Size = r - k + Size
    BY <2>1, RestOf, SizeIs
  <2> QED BY <1>1, <1>3, <2>1, <2>2, Zenon DEF Place
<1> QED BY <1>2, <1>3

(* The next place moves on by one, and round at the ring's end. *)
LEMMA PlaceMoves ==
  ASSUME NEW c \in Nat
  PROVE  c % Size \in 0 .. Size - 1 /\ (c + 1) % Size = Following(c % Size)
<1>1. PICK q \in Int, r \in 0 .. Size - 1 : c = q * Size + r /\ c % Size = r
  BY SizeIs, RestPick
<1>2. CASE r + 1 = Size
  <2>1. c + 1 = (q + 1) * Size + 0 /\ q + 1 \in Int /\ 0 \in 0 .. Size - 1
    BY <1>1, <1>2, SizeIs
  <2>2. ((q + 1) * Size + 0) % Size = 0
    BY <2>1, RestOf, SizeIs
  <2> QED BY <1>1, <1>2, <2>1, <2>2, Zenon DEF Following
<1>3. CASE r + 1 # Size
  <2>1. c + 1 = q * Size + (r + 1) /\ r + 1 \in 0 .. Size - 1
    BY <1>1, <1>3, SizeIs
  <2>2. (q * Size + (r + 1)) % Size = r + 1
    BY <2>1, RestOf, SizeIs
  <2> QED BY <1>1, <1>3, <2>1, <2>2, Zenon DEF Following
<1> QED BY <1>1, <1>2, <1>3, Zenon

(* A new value takes the next place, the others are each one further back. *)
LEMMA PlacesMove ==
  ASSUME NEW p \in 0 .. Size - 1
  PROVE  /\ Place(1, Following(p)) = p
         /\ \A k \in 2 .. Size : Place(k, Following(p)) = Place(k - 1, p) /\ Place(k - 1, p) # p
BY SizeIs DEF Place, Following

(* Each place of the ring has one of the newest values. *)
LEMMA PlacesCover ==
  ASSUME NEW p \in 0 .. Size - 1
  PROVE  /\ \A k \in 1 .. Size : Place(k, p) \in 0 .. Size - 1
         /\ \A j_, k \in 1 .. Size : Place(j_, p) = Place(k, p) => j_ = k
         /\ \A i \in 0 .. Size - 1 : \E k \in 1 .. Size : Place(k, p) = i
<1>1. \A i \in 0 .. Size - 1 : \E k \in 1 .. Size : Place(k, p) = i
  <2> SUFFICES ASSUME NEW i \in 0 .. Size - 1 PROVE \E k \in 1 .. Size : Place(k, p) = i
    OBVIOUS
  <2>1. CASE i < p
    <3>1. p - i \in 1 .. Size /\ Place(p - i, p) = i
      BY <2>1, SizeIs DEF Place
    <3> QED BY <3>1, Zenon
  <2>2. CASE ~(i < p)
    <3>1. p - i + Size \in 1 .. Size /\ Place(p - i + Size, p) = i
      BY <2>2, SizeIs DEF Place
    <3> QED BY <3>1, Zenon
  <2> QED BY <2>1, <2>2
<1>2. \A k \in 1 .. Size : Place(k, p) \in 0 .. Size - 1
  BY SizeIs DEF Place
<1>3. \A j_, k \in 1 .. Size : Place(j_, p) = Place(k, p) => j_ = k
  BY SizeIs DEF Place
<1> QED BY <1>1, <1>2, <1>3

-----------------------------------------------------------------------------
(* What a ring holds, by age, is what is in a sequence. *)
Holds(held, seq, p) ==
  /\ DOMAIN held = 0 .. Size - 1 /\ DOMAIN seq = 1 .. Size
  /\ \A k \in 1 .. Size : held[Place(k, p)] = seq[k]

(* Then as many of some values are in the one as in the other. *)
LEMMA SameCount ==
  ASSUME NEW p \in 0 .. Size - 1, NEW held, NEW seq, Holds(held, seq, p), NEW A
  PROVE  Cardinality({i \in DOMAIN held : held[i] \in A}) = Cardinality({k \in DOMAIN seq : seq[k] \in A})
<1> DEFINE S == {k \in DOMAIN seq : seq[k] \in A}
           T == {i \in DOMAIN held : held[i] \in A}
           place == [k \in S |-> Place(k, p)]
<1>1. /\ \A k \in 1 .. Size : Place(k, p) \in 0 .. Size - 1
      /\ \A j_, k \in 1 .. Size : Place(j_, p) = Place(k, p) => j_ = k
      /\ \A i \in 0 .. Size - 1 : \E k \in 1 .. Size : Place(k, p) = i
  BY PlacesCover
<1>2. \A k \in S : place[k] = Place(k, p) /\ k \in 1 .. Size
  BY Zenon DEF Holds
<1>3. place \in [S -> T]
  <2>1. \A k \in S : place[k] \in T
    BY <1>1, <1>2, Zenon DEF Holds
  <2> QED BY <2>1, Zenon
<1>4. \A j_, k \in S : place[j_] = place[k] => j_ = k
  BY <1>1, <1>2, Zenon
<1>5. \A i \in T : \E k \in S : place[k] = i
  <2> SUFFICES ASSUME NEW i \in T PROVE \E k \in S : place[k] = i
    OBVIOUS
  <2>1. PICK k \in 1 .. Size : Place(k, p) = i
    BY <1>1, Zenon DEF Holds
  <2>2. k \in S
    BY <2>1, Zenon DEF Holds
  <2> QED BY <1>2, <2>1, <2>2, Zenon
<1>6. IsFiniteSet(S)
  <2>1. IsFiniteSet(DOMAIN seq) /\ S \subseteq DOMAIN seq
    BY FS_Interval, SizeIs DEF Holds
  <2> HIDE DEF S
  <2> QED BY <2>1, FS_Subset
<1> HIDE DEF place, S, T
<1>7. place \in Bijection(S, T)
  BY <1>3, <1>4, <1>5, Zenon DEF Bijection, Injection, Surjection, IsInjective
<1>8. Cardinality(T) = Cardinality(S)
  BY <1>6, <1>7, FS_Bijection, Zenon DEF ExistsBijection
<1> QED BY <1>8, Zenon DEF S, T

(* Nor does it matter whether values are counted from 0 or from 1. *)
LEMMA ShiftedCount ==
  ASSUME NEW n \in Nat, NEW S, S \subseteq 0 .. n - 1, NEW T, T = {i + 1 : i \in S}
  PROVE  Cardinality(S) = Cardinality(T)
<1> DEFINE up == [i \in S |-> i + 1]
<1>1. up \in [S -> T]
  OBVIOUS
<1>2. \A i, k \in S : up[i] = up[k] => i = k
  OBVIOUS
<1>3. \A t \in T : \E i \in S : up[i] = t
  OBVIOUS
<1>4. IsFiniteSet(S)
  <2>1. IsFiniteSet(0 .. n - 1)
    BY FS_Interval
  <2> QED BY <2>1, FS_Subset
<1> HIDE DEF up
<1>5. up \in Bijection(S, T)
  BY <1>1, <1>2, <1>3, Zenon DEF Bijection, Injection, Surjection, IsInjective
<1> QED BY <1>4, <1>5, FS_Bijection, Zenon DEF ExistsBijection

(* The component counts as the library does. *)
LEMMA CountIs == ASSUME NEW S PROVE Presence!Cardinality(S) = Cardinality(S)
BY DEF Presence!Cardinality, Cardinality

(* And both have one median. *)
LEMMA SameMedian ==
  ASSUME NEW p \in 0 .. Size - 1, NEW held, NEW seq, Holds(held, seq, p),
         \A k \in 1 .. Size : seq[k] \in Jitters
  PROVE  Presence!median(held) = Presence!median(seq)
<1>1. \A i \in DOMAIN held : held[i] \in Jitters
  <2> SUFFICES ASSUME NEW i \in 0 .. Size - 1 PROVE held[i] \in Jitters
    BY DEF Holds
  <2>1. PICK k \in 1 .. Size : Place(k, p) = i
    BY PlacesCover
  <2> QED BY <2>1 DEF Holds
<1>0. ASSUME NEW A
      PROVE  Cardinality({i \in DOMAIN held : held[i] \in A}) = Cardinality({k \in DOMAIN seq : seq[k] \in A})
  BY SameCount
<1>2. ASSUME NEW x \in Jitters
      PROVE  /\ Cardinality({i \in DOMAIN held : held[i] < x})
                  = Cardinality({k \in DOMAIN seq : seq[k] < x})
             /\ Cardinality({i \in DOMAIN held : held[i] > x})
                  = Cardinality({k \in DOMAIN seq : seq[k] > x})
  <2> DEFINE A == {v \in Jitters : v < x}
             B == {v \in Jitters : v > x}
  <2>1. /\ {i \in DOMAIN held : held[i] < x} = {i \in DOMAIN held : held[i] \in A}
        /\ {i \in DOMAIN held : held[i] > x} = {i \in DOMAIN held : held[i] \in B}
    BY <1>1, Zenon
  <2>2. /\ {k \in DOMAIN seq : seq[k] < x} = {k \in DOMAIN seq : seq[k] \in A}
        /\ {k \in DOMAIN seq : seq[k] > x} = {k \in DOMAIN seq : seq[k] \in B}
    BY Zenon DEF Holds
  <2> HIDE DEF A, B
  <2>3. /\ Cardinality({i \in DOMAIN held : held[i] \in A}) = Cardinality({k \in DOMAIN seq : seq[k] \in A})
        /\ Cardinality({i \in DOMAIN held : held[i] \in B}) = Cardinality({k \in DOMAIN seq : seq[k] \in B})
    BY <1>0, Zenon
  <2> QED BY <2>1, <2>2, <2>3, Zenon
<1>3. Cardinality(DOMAIN held) = Cardinality(DOMAIN seq)
  <2>1. /\ {i \in DOMAIN held : held[i] \in Jitters} = DOMAIN held
        /\ {k \in DOMAIN seq : seq[k] \in Jitters} = DOMAIN seq
    BY <1>1 DEF Holds
  <2>2. Cardinality({i \in DOMAIN held : held[i] \in Jitters})
          = Cardinality({k \in DOMAIN seq : seq[k] \in Jitters})
    BY SameCount
  <2> QED BY <2>1, <2>2, Zenon
<1> DEFINE Middle(f, x) == /\ 2 * Cardinality({i \in DOMAIN f : f[i] < x}) <= Cardinality(DOMAIN f)
                           /\ 2 * Cardinality({i \in DOMAIN f : f[i] > x}) < Cardinality(DOMAIN f)
<1>4. \A x \in Jitters : Middle(held, x) <=> Middle(seq, x)
  BY <1>2, <1>3, Zenon
<1>5. ASSUME NEW f PROVE Presence!median(f) = CHOOSE x \in Jitters : Middle(f, x)
  BY CountIs, Zenon DEF Presence!median
<1> HIDE DEF Middle
<1>7. (CHOOSE x \in Jitters : Middle(held, x)) = (CHOOSE x \in Jitters : Middle(seq, x))
  BY <1>4, Zenon
<1> QED BY <1>5, <1>7, Zenon

-----------------------------------------------------------------------------
(* The outliers among the newest values of the ring are as many as among   *)
(* the newest values: the one at Index(c, i) came i + 1 values ago.        *)
InRing(held, c, n, A) == {i \in 0 .. n - 1 : held[Presence!Index(c, i)] \in A}
Received(seq, n, A) == {k \in 1 .. n : seq[k] \in A}
(* Both sets are as large. *)
LEMMA SameOutliers ==
  ASSUME NEW held, NEW seq, NEW c \in Nat, NEW n \in 1 .. Size, n <= c, NEW A,
         \A k \in 1 .. n : held[Place(k, c % Size)] = seq[k]
  PROVE  Cardinality(InRing(held, c, n, A)) = Cardinality(Received(seq, n, A))
<1> DEFINE S == InRing(held, c, n, A)
           T == Received(seq, n, A)
<1> USE DEF InRing, Received
<1>1. n \in Nat /\ \A k : k \in 1 .. n => k \in 1 .. Size
  BY SizeIs
<1>2. ASSUME NEW i \in 0 .. n - 1 PROVE held[Presence!Index(c, i)] = seq[i + 1]
  <2>1. i + 1 \in 1 .. Size /\ i + 1 <= c /\ i + 1 \in 1 .. n /\ (c - 1) - i = c - (i + 1)
    BY <1>1, SizeIs
  <2>2. (c - (i + 1)) % Size = Place(i + 1, c % Size)
    BY <2>1, PlaceOf
  <2> QED BY <2>1, <2>2, Zenon DEF Presence!Index, Size
<1>3. S \subseteq 0 .. n - 1 /\ T = {i + 1 : i \in S}
  <2>1. \A i \in S : i + 1 \in T
    <3> SUFFICES ASSUME NEW i \in 0 .. n - 1, held[Presence!Index(c, i)] \in A
                 PROVE  i + 1 \in 1 .. n /\ seq[i + 1] \in A
      OBVIOUS
    <3> QED BY <1>1, <1>2
  <2>2. \A k \in T : k - 1 \in S /\ k = (k - 1) + 1
    <3> SUFFICES ASSUME NEW k \in 1 .. n, seq[k] \in A
                 PROVE  k - 1 \in 0 .. n - 1 /\ held[Presence!Index(c, k - 1)] \in A /\ k = (k - 1) + 1
      OBVIOUS
    <3>1. k - 1 \in 0 .. n - 1 /\ k = (k - 1) + 1
      BY <1>1
    <3> QED BY <1>2, <3>1
  <2>3. S \subseteq 0 .. n - 1
    OBVIOUS
  <2> HIDE DEF S, T
  <2> QED BY <2>1, <2>2, <2>3
<1> HIDE DEF S, T
<1>4. Cardinality(S) = Cardinality(T)
  BY <1>1, <1>3, ShiftedCount
<1> QED BY <1>4, Zenon DEF S, T

-----------------------------------------------------------------------------
PresenceTyped ==
  /\ s_buff_jitter \in [0 .. Size - 1 -> Jitters] /\ s_buff_count \in Nat
  /\ values \in Seq(Jitters) /\ Len(values) = s_buff_count
  /\ predict_buff_size \in Nat
  /\ DOMAIN ages = {"move", "someone"} /\ ages.move \in 0 .. 2 /\ ages.someone \in 0 .. 2
  /\ moved \in 0 .. 2

(* The ring has the last values that were received, and 0 for those before *)
(* the first.                                                              *)
RingRecent ==
  \A k \in 1 .. Size : s_buff_jitter[Place(k, s_buff_count % Size)] = Presence!Window[k]

(* While the LED is green the last movement is that of someone. *)
GreenMoved == led = "green" => ages.move = moved

PresenceInv == PresenceTyped /\ RingRecent /\ GreenMoved /\ Presence!MovesCounted

(* At first nothing is reported. *)
LEMMA PresenceInit ==
  ASSUME Presence!Init PROVE PresenceInv
<1> USE DEF Presence!Init
<1>1. PresenceTyped
  BY SizeIs, ValuesAre DEF PresenceTyped, Presence!Ring, Presence!Long, Size
<1>2. RingRecent
  <2>1. 0 % Size \in 0 .. Size - 1
    BY PlaceMoves
  <2>2. \A k \in 1 .. Size : Place(k, 0 % Size) \in 0 .. Size - 1
    BY <2>1, PlacesCover
  <2>3. \A k \in 1 .. Size : Presence!Window[k] = 0
    BY SizeIs DEF Presence!Window, Size
  <2>4. \A i \in 0 .. Size - 1 : s_buff_jitter[i] = 0
    BY DEF Presence!Ring, Size
  <2> QED BY <2>2, <2>3, <2>4, Zenon DEF RingRecent
<1>3. GreenMoved /\ Presence!MovesCounted
  BY DEF GreenMoved, Presence!MovesCounted
<1> QED BY <1>1, <1>2, <1>3 DEF PresenceInv

(* A value takes its place in the ring. *)
Takes(jitter) ==
  /\ s_buff_jitter' = [s_buff_jitter EXCEPT ![s_buff_count % Size] = jitter]
  /\ s_buff_count' = s_buff_count + 1 /\ values' = <<jitter>> \o values
(* The values stay typed, and the ring keeps the newest. *)
LEMMA RingStep ==
  ASSUME PresenceTyped, RingRecent, NEW jitter \in Jitters, Takes(jitter)
  PROVE  /\ s_buff_jitter' \in [0 .. Size - 1 -> Jitters] /\ s_buff_count' \in Nat
         /\ values' \in Seq(Jitters) /\ Len(values') = s_buff_count'
         /\ RingRecent'
<1> DEFINE p == s_buff_count % Size
           p2 == s_buff_count' % Size
<1>1. /\ s_buff_jitter \in [0 .. Size - 1 -> Jitters] /\ s_buff_count \in Nat
      /\ values \in Seq(Jitters) /\ Len(values) = s_buff_count
  BY DEF PresenceTyped
<1>2. /\ values' \in Seq(Jitters) /\ Len(values') = s_buff_count + 1 /\ values'[1] = jitter
      /\ \A k \in 2 .. s_buff_count + 1 : values'[k] = values[k - 1]
  BY <1>1 DEF Takes
<1>3. p \in 0 .. Size - 1 /\ p2 = Following(p) /\ s_buff_count' = s_buff_count + 1
  BY <1>1, PlaceMoves DEF Takes
<1>4. s_buff_jitter' = [s_buff_jitter EXCEPT ![p] = jitter]
  BY DEF Takes
<1> HIDE DEF p, p2
<1>5. s_buff_jitter' \in [0 .. Size - 1 -> Jitters]
  BY <1>1, <1>3, <1>4
<1>6. ASSUME NEW k \in 1 .. Size PROVE s_buff_jitter'[Place(k, p2)] = Presence!Window'[k]
  <2>1. Presence!Window'[k] = IF k <= Len(values') THEN values'[k] ELSE 0
    BY DEF Presence!Window, Size
  <2>2. CASE k = 1
    <3>1. Place(k, p2) = p
      BY <1>3, <2>2, PlacesMove
    <3>2. Presence!Window'[k] = jitter
      BY <1>1, <1>2, <2>1, <2>2
    <3> QED BY <1>1, <1>3, <1>4, <3>1, <3>2
  <2>3. CASE k # 1
    <3>1. k \in 2 .. Size /\ k - 1 \in 1 .. Size
      BY <2>3, SizeIs
    <3>2. Place(k, p2) = Place(k - 1, p) /\ Place(k - 1, p) # p /\ Place(k - 1, p) \in 0 .. Size - 1
      BY <1>3, <3>1, PlacesMove, PlacesCover
    <3>3. s_buff_jitter'[Place(k, p2)] = s_buff_jitter[Place(k - 1, p)]
      BY <1>1, <1>4, <3>2
    <3>4. s_buff_jitter[Place(k - 1, p)] = Presence!Window[k - 1]
      BY <3>1, Zenon DEF RingRecent, p
    <3>5. Presence!Window[k - 1] = IF k - 1 <= Len(values) THEN values[k - 1] ELSE 0
      BY <3>1 DEF Presence!Window, Size
    <3>6. Presence!Window'[k] = Presence!Window[k - 1]
      BY <1>1, <1>2, <2>1, <3>1, <3>5
    <3> QED BY <3>3, <3>4, <3>6
  <2> QED BY <2>2, <2>3
<1>7. RingRecent'
  BY <1>6, Zenon DEF RingRecent, p2
<1> QED BY <1>1, <1>2, <1>3, <1>5, <1>7

(* A report: the LED is lit green by a movement of someone, and stays so   *)
(* no longer than that, or someone, is recent.                             *)
LEMMA ReportShows ==
  ASSUME PresenceTyped, GreenMoved, NEW someone \in BOOLEAN, NEW human \in BOOLEAN,
         Presence!Report(someone, human)
  PROVE  /\ DOMAIN ages' = {"move", "someone"} /\ ages'.move \in 0 .. 2 /\ ages'.someone \in 0 .. 2
         /\ moved' \in 0 .. 2 /\ GreenMoved'
         /\ "human" \in shown' <=> human
         /\ led' = "green" => moved' < 2 \/ ("room" \notin shown' /\ ages'.someone < 2)
         /\ {"room", "human"} \subseteq shown' => led' = "green"
<1>1. shown' = {s \in {"room", "human"} : IF s = "room" THEN someone ELSE human}
  BY Zenon DEF Presence!Report
<1>2. ("human" \in shown' <=> human) /\ ("room" \in shown' <=> someone)
  BY <1>1
<1>3. /\ ages.move \in 0 .. 2 /\ ages.someone \in 0 .. 2 /\ moved \in 0 .. 2
      /\ led = "green" => ages.move = moved
  BY DEF PresenceTyped, GreenMoved
<1>4. /\ DOMAIN ages' = {"move", "someone"}
      /\ ages'.move = IF human /\ (someone \/ ages.someone = 2) THEN 0 ELSE ages.move
      /\ ages'.someone = IF someone THEN 0 ELSE ages.someone
      /\ moved' = IF someone /\ human THEN 0 ELSE moved
      /\ led' = Presence!Lit(someone, human)
  BY DEF Presence!Report, Presence!Long
<1>5. CASE someone
  BY <1>2, <1>3, <1>4, <1>5 DEF Presence!Lit, Presence!Long, GreenMoved
<1>6. CASE ~someone
  BY <1>2, <1>3, <1>4, <1>6 DEF Presence!Lit, Presence!Long, GreenMoved
<1> QED BY <1>5, <1>6

(* What a report counts is what the property counts. *)
CountedOnes ==
  {k \in Presence!Newest(predict_buff_size) :
     Presence!Outlier(values[k], Presence!median(Presence!Window))}
(* Both have as many. *)
LEMMA ReportCounts ==
  ASSUME PresenceTyped', RingRecent', UNCHANGED Presence!config,
         predict_buff_size \in 1 .. Size, predict_buff_size <= s_buff_count'
  PROVE  Cardinality({i \in 0 .. predict_buff_size - 1 :
                        Presence!Outlier(s_buff_jitter'[Presence!Index(s_buff_count', i)],
                                         Presence!median(s_buff_jitter'))})
           = Cardinality(CountedOnes')
<1> DEFINE n == predict_buff_size
           c == s_buff_count'
           held == s_buff_jitter'
           seq == values'
           win == Presence!Window'
           mid == Presence!median(win)
           A == {v \in Jitters : Presence!Outlier(v, mid)}
           p == c % Size
<1>1. /\ held \in [0 .. Size - 1 -> Jitters] /\ c \in Nat /\ seq \in Seq(Jitters) /\ Len(seq) = c
      /\ n \in 1 .. Size /\ n <= c /\ n \in Nat
      /\ predict_buff_size' = n /\ predict_move_threshold' = predict_move_threshold
  BY SizeIs DEF PresenceTyped, Presence!config
<1>2. /\ DOMAIN win = 1 .. Size
      /\ \A k \in 1 .. Size : win[k] = IF k <= Len(seq) THEN seq[k] ELSE 0
  BY DEF Presence!Window, Size
<1>3. \A k \in 1 .. Size : held[Place(k, p)] = win[k]
  BY Zenon DEF RingRecent
<1>4. p \in 0 .. Size - 1
  BY <1>1, PlaceMoves
<1> HIDE DEF n, c, held, seq, win, mid, A, p
<1>5. \A k \in 1 .. Size : win[k] \in Jitters
  BY <1>1, <1>2, ValuesAre
<1>6. DOMAIN held = 0 .. Size - 1 /\ Holds(held, win, p)
  BY <1>1, <1>2, <1>3, Zenon DEF Holds
<1>7. Presence!median(held) = mid
  BY <1>4, <1>5, <1>6, SameMedian, Zenon DEF mid
<1>8. \A k \in 1 .. n : held[Place(k, p)] = seq[k] /\ seq[k] \in Jitters
  BY <1>1, <1>2, <1>3, SizeIs
<1>9. Cardinality(InRing(held, c, n, A)) = Cardinality(Received(seq, n, A))
  <2>1. \A k \in 1 .. n : held[Place(k, c % Size)] = seq[k]
    BY <1>8, Zenon DEF p
  <2>2. c \in Nat /\ n \in 1 .. Size /\ n <= c
    BY <1>1, Zenon
  <2> QED BY <2>1, <2>2, SameOutliers
<1>10. InRing(held, c, n, A)
         = {i \in 0 .. n - 1 : Presence!Outlier(held[Presence!Index(c, i)], Presence!median(held))}
  <2>1. ASSUME NEW i \in 0 .. n - 1 PROVE held[Presence!Index(c, i)] \in Jitters
    <3>1. i + 1 \in 1 .. Size /\ i + 1 <= c /\ (c - 1) - i = c - (i + 1) /\ i + 1 \in 1 .. n
      BY <1>1, SizeIs
    <3>2. (c - (i + 1)) % Size = Place(i + 1, p)
      BY <1>1, <3>1, PlaceOf DEF p
    <3>3. Presence!Index(c, i) = Place(i + 1, p)
      BY <3>1, <3>2, Zenon DEF Presence!Index, Size
    <3> QED BY <1>8, <3>1, <3>3, Zenon
  <2> QED BY <1>7, <2>1, Zenon DEF A, InRing
<1>11. Received(seq, n, A) = {k \in 1 .. n : Presence!Outlier(seq[k], mid)}
  BY <1>8, Zenon DEF A, Received
<1>12. CountedOnes' = {k \in 1 .. n : Presence!Outlier(seq[k], mid)}
  <2>1. Presence!Newest(predict_buff_size)' = 1 .. n
    BY <1>1 DEF Presence!Newest, seq
  <2>2. mid = Presence!median(Presence!Window)'
    BY Zenon DEF mid, win, Presence!median
  <2>3. ASSUME NEW k
        PROVE  Presence!Outlier(values[k], Presence!median(Presence!Window))'
                 <=> Presence!Outlier(seq[k], mid)
    BY <1>1, <2>2, Zenon DEF Presence!Outlier, seq
  <2> QED BY <2>1, <2>3, Zenon DEF CountedOnes
<1> QED BY <1>9, <1>10, <1>11, <1>12, Zenon DEF n, c, held

-----------------------------------------------------------------------------
(* No other step than a value changes the ring, and none but a report has  *)
(* something shown.                                                        *)
LEMMA OthersKeep ==
  ASSUME PresenceInv, Presence!TimePasses \/ Presence!wifi_cmd_radar PROVE PresenceInv'
<1>1. /\ UNCHANGED <<s_buff_jitter, s_buff_count, led, values>> /\ shown' = Presence!None
  BY DEF Presence!TimePasses, Presence!wifi_cmd_radar, Presence!buff
<1>2. PresenceTyped /\ RingRecent /\ GreenMoved
  BY DEF PresenceInv
<1>3. predict_buff_size' \in Nat
  <2>1. predict_buff_size \in Nat
    BY <1>2 DEF PresenceTyped
  <2> QED BY <2>1, ValuesAre DEF Presence!TimePasses, Presence!wifi_cmd_radar, Presence!config
<1>4. /\ DOMAIN ages' = {"move", "someone"} /\ ages'.move \in 0 .. 2 /\ ages'.someone \in 0 .. 2
      /\ moved' \in 0 .. 2 /\ (ages.move = moved => ages'.move = moved')
  BY <1>2 DEF PresenceTyped, Presence!TimePasses, Presence!wifi_cmd_radar, Presence!Older,
              Presence!Long
<1>5. PresenceTyped'
  BY <1>1, <1>2, <1>3, <1>4 DEF PresenceTyped
<1>6. RingRecent'
  BY <1>1, <1>2, Zenon DEF RingRecent, Presence!Window
<1>7. GreenMoved'
  BY <1>1, <1>2, <1>4 DEF GreenMoved
<1>8. Presence!MovesCounted'
  BY <1>1 DEF Presence!MovesCounted
<1> QED BY <1>5, <1>6, <1>7, <1>8, Zenon DEF PresenceInv

(* Nor does a step of another component. *)
LEMMA PresenceRests ==
  ASSUME PresenceInv, UNCHANGED presence_vars PROVE PresenceInv'
<1> USE DEF presence_vars
<1>1. PresenceTyped' /\ GreenMoved'
  BY DEF PresenceInv, PresenceTyped, GreenMoved
<1>2. RingRecent'
  BY Zenon DEF PresenceInv, RingRecent, Presence!Window
<1>3. Presence!MovesCounted'
  BY ZenonT(60) DEF PresenceInv, Presence!MovesCounted, Presence!Newest, Presence!Outlier,
               Presence!Window, Presence!median
<1> QED BY <1>1, <1>2, <1>3, Zenon DEF PresenceInv

(* The callback: the value is placed, and then there are too few, or the   *)
(* LED shows training, or it is reported what the newest values say.       *)
LEMMA CallbackKeeps ==
  ASSUME PresenceInv, Presence!wifi_radar_cb PROVE PresenceInv'
<1> DEFINE moves(jitters, c) ==
             {i \in 0 .. predict_buff_size - 1 :
                Presence!Outlier(jitters[Presence!Index(c, i)], Presence!median(jitters))}
<1>1. PICK jitter \in Jitters, someone \in BOOLEAN :
        /\ Takes(jitter)
        /\ \/ /\ shown' = Presence!None
              /\ UNCHANGED <<ages, led, led_status, moved>>
           \/ Presence!Train
           \/ /\ s_buff_count' >= predict_buff_size
              /\ Presence!Report(someone /\ predict_buff_size >= 1,
                                 Presence!Cardinality(moves(s_buff_jitter', s_buff_count'))
                                   >= predict_outliers_number)
  BY DEF Presence!wifi_radar_cb, Takes, Size
<1>2. UNCHANGED Presence!config
  BY DEF Presence!wifi_radar_cb
<1>3. PresenceTyped /\ RingRecent /\ GreenMoved
  BY DEF PresenceInv
<1>4. /\ s_buff_jitter' \in [0 .. Size - 1 -> Jitters] /\ s_buff_count' \in Nat
      /\ values' \in Seq(Jitters) /\ Len(values') = s_buff_count'
      /\ RingRecent'
  BY <1>1, <1>3, RingStep
<1>5. /\ predict_buff_size \in Nat /\ predict_buff_size' = predict_buff_size
      /\ predict_outliers_number' = predict_outliers_number
  BY <1>2, <1>3 DEF PresenceTyped, Presence!config
<1>6. CASE shown' = Presence!None /\ UNCHANGED <<ages, led, led_status, moved>>
  <2>1. PresenceTyped' /\ GreenMoved'
    BY <1>3, <1>4, <1>5, <1>6 DEF PresenceTyped, GreenMoved
  <2>2. Presence!MovesCounted'
    BY <1>6 DEF Presence!MovesCounted
  <2> QED BY <1>4, <2>1, <2>2, Zenon DEF PresenceInv
<1>7. CASE Presence!Train
  <2>1. /\ ages' = [move |-> 0, someone |-> 0] /\ led' \in {"off", "yellow"}
        /\ shown' = Presence!None /\ moved' = moved
    BY <1>7 DEF Presence!Train
  <2>2. PresenceTyped' /\ GreenMoved'
    BY <1>3, <1>4, <1>5, <2>1 DEF PresenceTyped, GreenMoved
  <2>3. Presence!MovesCounted'
    BY <2>1 DEF Presence!MovesCounted
  <2> QED BY <1>4, <2>2, <2>3, Zenon DEF PresenceInv
<1>8. CASE /\ s_buff_count' >= predict_buff_size
           /\ Presence!Report(someone /\ predict_buff_size >= 1,
                              Presence!Cardinality(moves(s_buff_jitter', s_buff_count'))
                                >= predict_outliers_number)
  <2> DEFINE number == Cardinality(moves(s_buff_jitter', s_buff_count'))
  <2>1. Presence!Report(someone /\ predict_buff_size >= 1, number >= predict_outliers_number)
    <3> HIDE DEF moves
    <3> QED BY <1>8, CountIs, Zenon
  <2>2. PICK room \in BOOLEAN, human \in BOOLEAN :
          human = (number >= predict_outliers_number) /\ Presence!Report(room, human)
    <3> HIDE DEF number
    <3>1. (someone /\ predict_buff_size >= 1) \in BOOLEAN /\ (number >= predict_outliers_number) \in BOOLEAN
      OBVIOUS
    <3> QED BY <2>1, <3>1, Zenon
  <2>3. /\ DOMAIN ages' = {"move", "someone"} /\ ages'.move \in 0 .. 2 /\ ages'.someone \in 0 .. 2
        /\ moved' \in 0 .. 2 /\ GreenMoved'
        /\ "human" \in shown' <=> human
        /\ led' = "green" => moved' < 2 \/ ("room" \notin shown' /\ ages'.someone < 2)
        /\ {"room", "human"} \subseteq shown' => led' = "green"
    BY <1>3, <2>2, ReportShows
  <2>4. PresenceTyped'
    BY <1>4, <1>5, <2>3 DEF PresenceTyped
  <2>5. ASSUME predict_buff_size \in 1 .. RADAR_BUFF_MAX_LEN
        PROVE  "human" \in shown' <=> Cardinality(CountedOnes') >= predict_outliers_number
    <3>1. number = Cardinality(CountedOnes')
      BY <1>2, <1>4, <1>5, <1>8, <2>4, <2>5, ReportCounts DEF Size
    <3> QED BY <2>2, <2>3, <3>1, Zenon
  <2>6. Presence!MovesCounted'
    <3>1. predict_buff_size' \in 1 .. RADAR_BUFF_MAX_LEN =>
            ("human" \in shown' <=> Presence!Cardinality(CountedOnes') >= predict_outliers_number')
      BY <1>5, <2>5, CountIs, Zenon
    <3> QED BY <2>3, <3>1, Zenon DEF Presence!MovesCounted, Presence!Long, CountedOnes
  <2> QED BY <1>4, <2>3, <2>4, <2>6, Zenon DEF PresenceInv
<1> QED BY <1>1, <1>6, <1>7, <1>8

(* Every step, of any component, keeps the invariant. *)
LEMMA PresenceSteps ==
  ASSUME PresenceInv, [Next]_vars PROVE PresenceInv'
<1>1. CASE PresenceStep
  BY <1>1, CallbackKeeps, OthersKeep DEF PresenceStep, Presence!Next
<1>2. CASE UNCHANGED presence_vars
  BY <1>2, PresenceRests
<1> QED
  BY <1>1, <1>2 DEF Next, vars, StartStep, PingStep, EvalStep, RadarStep, TransformStep,
                    GainStep, HostStep

(* The invariant holds initially and is kept by every step. *)
LEMMA PresenceInvariant == Spec => []PresenceInv
<1>1. Init => PresenceInv
  BY PresenceInit DEF Init
<1>2. PresenceInv /\ [Next]_vars => PresenceInv'
  BY PresenceSteps
<1> QED
  BY <1>1, <1>2, PTL DEF Spec

(* A report says that a human moved exactly when that many of the values   *)
(* received last are outliers, for every size up to the ring's; and the    *)
(* LED is green no longer than movement or someone is recent.              *)
THEOREM ReportsAreRight == Spec => []MovesCounted
<1>1. PresenceInv => MovesCounted
  BY DEF PresenceInv, MovesCounted
<1> QED
  BY <1>1, PresenceInvariant, PTL

-----------------------------------------------------------------------------
(* The stream of a connection: lines one after the other, a word CSI_DATA  *)
(* only at the beginning of one and a newline at the end.                  *)
InLines(s) ==
  /\ \A i, k \in 1 .. Len(s) : i < k => s[i].line <= s[k].line
  /\ \A i, k \in 1 .. Len(s) : i < k /\ s[i].kind = "newline" => s[i].line < s[k].line
  /\ \A i, k \in 1 .. Len(s) : i < k /\ s[k].kind = "CSI_DATA" => s[i].line < s[k].line
  /\ \A i, k \in 1 .. Len(s) : i < k /\ s[i].line < s[k].line =>
       \E e \in i .. k - 1 : s[e].kind = "newline"

(* One line, and lines up to a number, the last one ended. *)
OneLine(t, n) ==
  /\ Len(t) > 0 /\ \A i \in 1 .. Len(t) : t[i].line = n
  /\ \A i \in 1 .. Len(t) : t[i].kind = "newline" <=> i = Len(t)
  /\ \A i \in 1 .. Len(t) : t[i].kind = "CSI_DATA" => i = 1
UpTo(s, n) ==
  /\ Len(s) > 0 => s[Len(s)].kind = "newline"
  /\ \A i \in 1 .. Len(s) : s[i].line <= n

(* The bounds are numbers, and lines are records or not of some size. *)
LEMMA LinesAre ==
  /\ MaxLines \in Nat /\ MaxLines > 0 /\ Short \in Nat
  /\ \A line \in Lines : line.csi \in BOOLEAN /\ line.body \in Nat
<1>1. MaxLines \in Nat /\ MaxLines > 0 /\ Short \in Nat /\ RecordSizes \subseteq Nat /\ OtherSizes \subseteq Nat
  BY ComponentsAssumption DEF ComponentsAssumption
<1>2. ASSUME NEW line \in Lines PROVE line.csi \in BOOLEAN /\ line.body \in Nat
  <2>1. PICK b \in BOOLEAN, n \in Nat : line = Line(b, n)
    BY <1>1 DEF Lines
  <2> QED BY <2>1 DEF Line
<1> QED BY <1>1, <1>2

(* What a character is. *)
LEMMA CharIs ==
  ASSUME NEW c \in Eval!Chars
  PROVE  c.kind \in {"CSI_DATA", "other", "newline"} /\ c.line \in 1 .. MaxLines /\ c.line \in Nat
BY DEF Eval!Chars

(* What is made of one line. *)
LEMMA TextIs ==
  ASSUME NEW line \in Lines, NEW n \in 1 .. MaxLines
  PROVE  Eval!Text(line, n) \in Seq(Eval!Chars) /\ OneLine(Eval!Text(line, n), n)
<1> DEFINE body == [i \in 1 .. line.body |-> Eval!Char("other", n)]
           front == IF line.csi THEN <<Eval!Char("CSI_DATA", n)>> ELSE <<>>
           t == Eval!Text(line, n)
<1>1. line.csi \in BOOLEAN /\ line.body \in Nat
  BY LinesAre
<1>2. \A kind \in {"CSI_DATA", "other", "newline"} :
        /\ Eval!Char(kind, n) \in Eval!Chars /\ Eval!Char(kind, n).kind = kind
        /\ Eval!Char(kind, n).line = n
  BY DEF Eval!Char, Eval!Chars
<1>3. /\ body \in Seq(Eval!Chars) /\ Len(body) = line.body
      /\ \A i \in 1 .. Len(body) : body[i] = Eval!Char("other", n)
  BY <1>1, <1>2
<1>4. /\ front \in Seq(Eval!Chars) /\ Len(front) \in {0, 1}
      /\ \A i \in 1 .. Len(front) : i = 1 /\ front[i] = Eval!Char("CSI_DATA", n)
  BY <1>1, <1>2
<1>5. t = (front \o body) \o <<Eval!Char("newline", n)>>
  BY DEF Eval!Text
<1> HIDE DEF body, front, t
<1>6. /\ t \in Seq(Eval!Chars) /\ Len(t) = Len(front) + Len(body) + 1
      /\ \A i \in 1 .. Len(front) : t[i] = front[i]
      /\ \A i \in Len(front) + 1 .. Len(front) + Len(body) : t[i] = body[i - Len(front)]
      /\ t[Len(t)] = Eval!Char("newline", n)
  BY <1>2, <1>3, <1>4, <1>5
<1>7. Len(front) \in Nat /\ Len(body) \in Nat
  BY <1>3, <1>4
<1>8. ASSUME NEW i \in 1 .. Len(t)
      PROVE  \/ i = 1 /\ i # Len(t) /\ t[i] = Eval!Char("CSI_DATA", n)
             \/ i # Len(t) /\ t[i] = Eval!Char("other", n)
             \/ i = Len(t) /\ t[i] = Eval!Char("newline", n)
  <2>1. CASE i \in 1 .. Len(front)
    BY <1>4, <1>6, <1>7, <2>1
  <2>2. CASE i \in Len(front) + 1 .. Len(front) + Len(body)
    <3>1. i - Len(front) \in 1 .. Len(body) /\ i # Len(t)
      BY <1>6, <1>7, <2>2
    <3> QED BY <1>3, <1>6, <2>2, <3>1
  <2>3. CASE i = Len(t)
    BY <1>6, <2>3
  <2> QED BY <1>6, <1>7, <2>1, <2>2, <2>3
<1>9. OneLine(t, n)
  BY <1>2, <1>6, <1>7, <1>8 DEF OneLine
<1> QED BY <1>6, <1>9 DEF t

(* A line more. *)
LEMMA LineMore ==
  ASSUME NEW s \in Seq(Eval!Chars), NEW t \in Seq(Eval!Chars), NEW n \in 1 .. MaxLines,
         InLines(s), UpTo(s, n - 1), OneLine(t, n)
  PROVE  s \o t \in Seq(Eval!Chars) /\ InLines(s \o t) /\ UpTo(s \o t, n)
<1> DEFINE u == s \o t
<1>1. /\ u \in Seq(Eval!Chars) /\ Len(u) = Len(s) + Len(t) /\ Len(s) \in Nat /\ Len(t) \in Nat
      /\ \A i \in 1 .. Len(s) : u[i] = s[i]
      /\ \A i \in 1 .. Len(t) : u[Len(s) + i] = t[i]
  OBVIOUS
<1> HIDE DEF u
<1>2. ASSUME NEW i \in 1 .. Len(u)
      PROVE  /\ u[i] \in Eval!Chars
             /\ \/ i \in 1 .. Len(s) /\ u[i] = s[i] /\ u[i].line < n
                \/ /\ i > Len(s) /\ u[i].line = n
                   /\ u[i].kind = "newline" <=> i = Len(u)
                   /\ u[i].kind = "CSI_DATA" => i = Len(s) + 1
  <2>1. CASE i \in 1 .. Len(s)
    <3>1. s[i].line <= n - 1 /\ u[i] = s[i] /\ s[i] \in Eval!Chars
      BY <1>1, <2>1 DEF UpTo
    <3>2. s[i].line \in Nat
      BY <3>1, CharIs
    <3> QED BY <2>1, <3>1, <3>2, LinesAre
  <2>2. CASE i \notin 1 .. Len(s)
    <3>1. i - Len(s) \in 1 .. Len(t) /\ Len(s) + (i - Len(s)) = i /\ i > Len(s)
      BY <1>1, <2>2
    <3>2. u[i] = t[i - Len(s)]
      BY <1>1, <3>1
    <3>3. (i - Len(s) = Len(t)) <=> i = Len(u)
      BY <1>1, <3>1
    <3>4. (i - Len(s) = 1) => i = Len(s) + 1
      BY <1>1, <3>1
    <3>5. /\ t[i - Len(s)].line = n
          /\ t[i - Len(s)].kind = "newline" <=> i - Len(s) = Len(t)
          /\ t[i - Len(s)].kind = "CSI_DATA" => i - Len(s) = 1
      BY <3>1 DEF OneLine
    <3>6. t[i - Len(s)] \in Eval!Chars
      BY <3>1
    <3> QED BY <3>1, <3>2, <3>3, <3>4, <3>5, <3>6
  <2> QED BY <2>1, <2>2
<1>3. \A i \in 1 .. Len(u) : u[i].line \in Nat
  BY <1>2, CharIs
<1>4. UpTo(u, n)
  <2>1. ASSUME NEW i \in 1 .. Len(u) PROVE u[i].line <= n
    BY <1>2, <1>3, LinesAre
  <2>2. Len(u) \in 1 .. Len(u) /\ Len(u) > Len(s)
    BY <1>1 DEF OneLine
  <2>3. u[Len(u)].kind = "newline"
    BY <1>1, <1>2, <2>2
  <2> QED BY <2>1, <2>3 DEF UpTo
<1>5. ASSUME NEW i \in 1 .. Len(u), NEW k \in 1 .. Len(u), i < k
      PROVE  /\ u[i].line <= u[k].line
             /\ u[i].kind = "newline" => u[i].line < u[k].line
             /\ u[k].kind = "CSI_DATA" => u[i].line < u[k].line
             /\ u[i].line < u[k].line => \E e \in i .. k - 1 : u[e].kind = "newline"
  <2>1. CASE k \in 1 .. Len(s)
    <3>1. i \in 1 .. Len(s) /\ \A e \in i .. k - 1 : e \in 1 .. Len(s)
      BY <1>1, <1>5, <2>1
    <3> QED BY <1>1, <1>5, <2>1, <3>1 DEF InLines
  <2>2. CASE k \notin 1 .. Len(s) /\ i \in 1 .. Len(s)
    <3>1. Len(s) \in i .. k - 1 /\ Len(s) \in 1 .. Len(s) /\ u[Len(s)] = s[Len(s)] /\ Len(s) > 0
      BY <1>1, <1>5, <2>2
    <3>2. u[Len(s)].kind = "newline"
      BY <3>1 DEF UpTo
    <3>3. u[i].line < n /\ u[k].line = n
      BY <1>1, <1>2, <2>2
    <3> QED BY <1>3, <3>1, <3>2, <3>3, LinesAre
  <2>3. CASE k \notin 1 .. Len(s) /\ i \notin 1 .. Len(s)
    <3>1. u[i].line = n /\ u[k].line = n
      BY <1>2, <2>3
    <3>2. u[i].kind # "newline" /\ u[k].kind # "CSI_DATA"
      BY <1>1, <1>2, <1>5, <2>3
    <3> QED BY <3>1, <3>2, LinesAre
  <2> QED BY <2>1, <2>2, <2>3
<1>6. InLines(u)
  BY <1>5 DEF InLines
<1> QED BY <1>1, <1>4, <1>6 DEF u

(* What a client sends, whatever its lines are. *)
LEMMA TextOfIs ==
  ASSUME NEW lines \in Eval!BoundedSeq(Lines, MaxLines)
  PROVE  Eval!TextOf(lines) \in Seq(Eval!Chars) /\ InLines(Eval!TextOf(lines))
<1>1. PICK size \in 0 .. MaxLines : lines \in [1 .. size -> Lines]
  BY DEF Eval!BoundedSeq, Eval!SeqOf
<1> DEFINE texts == [n \in 1 .. Len(lines) |-> Eval!Text(lines[n], n)]
           Flat(f, k) == f = [i \in 1 .. k |-> IF i = 1 THEN texts[i] ELSE f[i - 1] \o texts[i]]
           flatten == CHOOSE f : Flat(f, Len(texts))
<1>2. Len(lines) = size /\ size \in Nat
  BY <1>1, LinesAre
<1>3. Len(texts) = size /\ size <= MaxLines
  BY <1>1, <1>2, LinesAre
<1>4. \A n \in 1 .. size : texts[n] \in Seq(Eval!Chars) /\ OneLine(texts[n], n) /\ n \in 1 .. MaxLines
  BY <1>1, <1>2, <1>3, TextIs, LinesAre
<1>5. Eval!TextOf(lines) = IF Len(texts) = 0 THEN texts ELSE flatten[Len(texts)]
  BY DEF Eval!TextOf, Eval!FlattenSeq
<1>6. CASE size = 0
  <2>1. texts = <<>>
    BY <1>2, <1>6
  <2> HIDE DEF texts, flatten
  <2>2. Eval!TextOf(lines) = <<>>
    BY <1>3, <1>5, <1>6, <2>1
  <2> QED BY <2>2 DEF InLines
<1> HIDE DEF texts
<1>7. CASE size # 0
  <2> DEFINE T == {k \in 0 .. size : \E f : Flat(f, k)}
  <2>1. 0 \in T
    <3> DEFINE f0 == [i \in 1 .. 0 |-> 0]
    <3>1. Flat(f0, 0)
      OBVIOUS
    <3>2. \E f : Flat(f, 0)
      <4> HIDE DEF f0, Flat
      <4> QED BY <3>1
    <3>3. 0 \in 0 .. size
      BY <1>2
    <3> HIDE DEF Flat
    <3> QED BY <3>2, <3>3
  <2>2. ASSUME NEW k \in 0 .. size - 1, k \in T PROVE k + 1 \in T
    <3>1. PICK f : Flat(f, k)
      BY <2>2
    <3> DEFINE h == [i \in 1 .. k + 1 |-> IF i = k + 1
                       THEN (IF i = 1 THEN texts[i] ELSE f[k] \o texts[i]) ELSE f[i]]
    <3>2. /\ \A i \in 1 .. k : h[i] = f[i] /\ i \in 1 .. k + 1
          /\ h[k + 1] = IF k + 1 = 1 THEN texts[k + 1] ELSE f[k] \o texts[k + 1]
      <4>1. k + 1 \in 1 .. k + 1 /\ \A i \in 1 .. k : i # k + 1 /\ i \in 1 .. k + 1
        BY <1>2
      <4> QED BY <4>1
    <3>3. \A i \in 1 .. k + 1 : h[i] = IF i = 1 THEN texts[i] ELSE h[i - 1] \o texts[i]
      <4>1. ASSUME NEW i \in 1 .. k PROVE h[i] = IF i = 1 THEN texts[i] ELSE h[i - 1] \o texts[i]
        <5>1. f[i] = IF i = 1 THEN texts[i] ELSE f[i - 1] \o texts[i]
          BY <3>1
        <5>2. i # 1 => h[i - 1] = f[i - 1]
          BY <1>2, <3>2
        <5> HIDE DEF h
        <5> QED BY <3>2, <5>1, <5>2
      <4>2. k + 1 # 1 => h[k] = f[k] /\ (k + 1) - 1 = k
        BY <1>2, <3>2
      <4>3. h[k + 1] = IF k + 1 = 1 THEN texts[k + 1] ELSE h[(k + 1) - 1] \o texts[k + 1]
        <5> HIDE DEF h
        <5> QED BY <3>2, <4>2
      <4> HIDE DEF h
      <4>4. \A i \in 1 .. k + 1 : i \in 1 .. k \/ i = k + 1
        BY <1>2
      <4> QED BY <4>1, <4>3, <4>4
    <3>4. Flat(h, k + 1)
      <4>1. h = [i \in 1 .. k + 1 |-> h[i]]
        OBVIOUS
      <4> HIDE DEF h
      <4> QED BY <3>3, <4>1
    <3> HIDE DEF h
    <3>5. k + 1 \in 0 .. size
      BY <1>2
    <3> QED BY <3>4, <3>5
  <2>3. size \in T
    <3> HIDE DEF T
    <3>1. size \in 0 .. size
      BY <1>2
    <3> QED BY <1>2, <2>1, <2>2, <3>1, Induction
  <2>4. Flat(flatten, size)
    <3>1. \E f : Flat(f, Len(texts))
      BY <1>3, <2>3
    <3> HIDE DEF Flat
    <3>2. Flat(flatten, Len(texts))
      BY <3>1
    <3> QED BY <1>3, <3>2
  <2> HIDE DEF flatten, T
  <2>5. \A i \in 1 .. size : flatten[i] = IF i = 1 THEN texts[i] ELSE flatten[i - 1] \o texts[i]
    BY <2>4
  <2> DEFINE U == {k \in 0 .. size : k = 0 \/ (flatten[k] \in Seq(Eval!Chars) /\ InLines(flatten[k])
                                               /\ UpTo(flatten[k], k))}
  <2>6. 0 \in U
    BY <1>2
  <2>7. ASSUME NEW k \in 0 .. size - 1, k \in U PROVE k + 1 \in U
    <3>1. /\ k + 1 \in 1 .. size /\ k + 1 \in 0 .. size /\ k + 1 \in 1 .. MaxLines
          /\ (k + 1) - 1 = k
      BY <1>2, <1>3, LinesAre
    <3>2. texts[k + 1] \in Seq(Eval!Chars) /\ OneLine(texts[k + 1], k + 1)
      BY <1>4, <3>1
    <3>3. CASE k = 0
      <4>1. /\ <<>> \in Seq(Eval!Chars) /\ InLines(<<>>) /\ UpTo(<<>>, (k + 1) - 1)
            /\ <<>> \o texts[k + 1] = texts[k + 1]
        BY <3>2 DEF InLines, UpTo
      <4>2. /\ texts[k + 1] \in Seq(Eval!Chars) /\ InLines(texts[k + 1])
            /\ UpTo(texts[k + 1], k + 1)
        BY <3>1, <3>2, <4>1, LineMore
      <4>3. flatten[k + 1] = texts[k + 1]
        BY <2>5, <3>1, <3>3
      <4> QED BY <3>1, <4>2, <4>3
    <3>4. CASE k # 0
      <4>1. flatten[k] \in Seq(Eval!Chars) /\ InLines(flatten[k]) /\ UpTo(flatten[k], (k + 1) - 1)
        BY <2>7, <3>1, <3>4
      <4>2. flatten[k + 1] = flatten[k] \o texts[k + 1]
        <5>1. k + 1 # 1
          BY <1>2, <3>4
        <5>2. flatten[k + 1] = flatten[(k + 1) - 1] \o texts[k + 1]
          BY <2>5, <3>1, <5>1
        <5> QED BY <3>1, <5>2
      <4>3. /\ flatten[k + 1] \in Seq(Eval!Chars) /\ InLines(flatten[k + 1])
            /\ UpTo(flatten[k + 1], k + 1)
        BY <3>1, <3>2, <4>1, <4>2, LineMore
      <4> QED BY <3>1, <4>3
    <3> QED BY <3>3, <3>4
  <2>8. size \in U
    <3> HIDE DEF U
    <3>1. size \in 0 .. size
      BY <1>2
    <3> QED BY <1>2, <2>6, <2>7, <3>1, Induction
  <2>9. flatten[size] \in Seq(Eval!Chars) /\ InLines(flatten[size])
    BY <1>7, <2>8
  <2> QED BY <1>3, <1>5, <1>7, <2>9
<1> QED BY <1>6, <1>7

-----------------------------------------------------------------------------
(* What the server has of the stream: the lines in front of a newline are  *)
(* done with, the buffer has the rest.                                     *)
Kept(r, b, d) ==
  /\ d \in 0 .. Len(r) /\ Len(b) = Len(r) - d
  /\ \A i \in 1 .. Len(b) : b[i] = r[d + i]
  /\ d > 0 => r[d].kind = "newline"

(* The records among them, in order. *)
RecordIn(r, d, n) == \E i, k \in 1 .. d :
  /\ r[i].kind = "CSI_DATA" /\ r[i].line = n
  /\ r[k].kind = "newline" /\ r[k].line = n /\ k > i + Short
HandedOn(r, d, a) ==
  /\ \A k, l \in 1 .. Len(a) : k < l => a[k] < a[l]
  /\ \A k \in 1 .. Len(a) : RecordIn(r, d, a[k])
  /\ \A n \in 1 .. MaxLines : RecordIn(r, d, n) => \E k \in 1 .. Len(a) : a[k] = n

(* Where the first of a kind is. *)
FirstOf(b, p, kind) ==
  /\ p \in 0 .. Len(b) /\ (p > 0 => b[p].kind = kind)
  /\ \A i \in 1 .. Len(b) : p = 0 \/ i < p => b[i].kind # kind

(* The stream that is cut has the same lines. *)
LEMMA PartInLines ==
  ASSUME NEW s \in Seq(Eval!Chars), NEW t \in Seq(Eval!Chars), InLines(s \o t)
  PROVE  InLines(s)
<1> DEFINE u == s \o t
<1>1. /\ Len(s) \in Nat /\ \A i \in 1 .. Len(s) : i \in 1 .. Len(u) /\ u[i] = s[i]
  OBVIOUS
<1> HIDE DEF u
<1>2. InLines(u)
  BY DEF u
<1>3. ASSUME NEW i \in 1 .. Len(s), NEW k \in 1 .. Len(s), i < k
      PROVE  /\ s[i].line <= s[k].line
             /\ s[i].kind = "newline" => s[i].line < s[k].line
             /\ s[k].kind = "CSI_DATA" => s[i].line < s[k].line
             /\ s[i].line < s[k].line => \E e \in i .. k - 1 : s[e].kind = "newline"
  <2>1. \A e \in i .. k - 1 : e \in 1 .. Len(s)
    BY <1>1
  <2> QED BY <1>1, <1>2, <1>3, <2>1, SMTT(60) DEF InLines
<1> QED BY <1>3 DEF InLines

(* Two streams put together, *)
LEMMA Joined ==
  ASSUME NEW s \in Seq(Eval!Chars), NEW t \in Seq(Eval!Chars)
  PROVE  /\ s \o t \in Seq(Eval!Chars) /\ Len(s \o t) = Len(s) + Len(t)
         /\ \A i \in 1 .. Len(s) : (s \o t)[i] = s[i]
         /\ \A i \in Len(s) + 1 .. Len(s) + Len(t) : (s \o t)[i] = t[i - Len(s)]
OBVIOUS

(* the rest of one, *)
LEMMA RestIs ==
  ASSUME NEW b \in Seq(Eval!Chars), NEW e \in 1 .. Len(b)
  PROVE  /\ SubSeq(b, e + 1, Len(b)) \in Seq(Eval!Chars)
         /\ Len(SubSeq(b, e + 1, Len(b))) = Len(b) - e
         /\ \A i \in 1 .. Len(b) - e : SubSeq(b, e + 1, Len(b))[i] = b[e + i]
OBVIOUS

(* and one that is cut between two of its characters. *)
LEMMA CutAnywhere ==
  ASSUME NEW s \in Seq(Eval!Chars), NEW t \in Seq(Eval!Chars), NEW n \in 1 .. Len(t)
  PROVE  /\ s \o SubSeq(t, 1, n) \in Seq(Eval!Chars) /\ SubSeq(t, n + 1, Len(t)) \in Seq(Eval!Chars)
         /\ (s \o SubSeq(t, 1, n)) \o SubSeq(t, n + 1, Len(t)) = s \o t
         /\ Len(s \o SubSeq(t, 1, n)) = Len(s) + n
         /\ \A i \in 1 .. Len(s) : (s \o SubSeq(t, 1, n))[i] = s[i]
<1> DEFINE front == SubSeq(t, 1, n)
           back == SubSeq(t, n + 1, Len(t))
<1>1. /\ front \in Seq(Eval!Chars) /\ Len(front) = n /\ \A i \in 1 .. n : front[i] = t[i]
      /\ back \in Seq(Eval!Chars) /\ Len(back) = Len(t) - n
      /\ \A i \in 1 .. Len(back) : back[i] = t[n + i]
      /\ Len(t) \in Nat /\ Len(s) \in Nat /\ n \in Nat
  BY SMTT(60)
<1> HIDE DEF front, back
<1>2. s \o front \in Seq(Eval!Chars) /\ Len(s \o front) = Len(s) + n
  BY <1>1, Joined
<1>3. /\ Len((s \o front) \o back) = Len(s) + Len(t) /\ Len(s \o t) = Len(s) + Len(t)
      /\ (s \o front) \o back \in Seq(Eval!Chars) /\ s \o t \in Seq(Eval!Chars)
  <2>1. Len((s \o front) \o back) = Len(s \o front) + Len(back)
    BY <1>1, <1>2, Joined
  <2>2. (s \o front) \o back \in Seq(Eval!Chars)
    BY <1>1, <1>2, Joined
  <2> QED BY <1>1, <1>2, <2>1, <2>2, Joined
<1>4. ASSUME NEW i \in 1 .. Len(s) + Len(t) PROVE ((s \o front) \o back)[i] = (s \o t)[i]
  <2>1. CASE i <= Len(s)
    BY <1>1, <1>2, <2>1
  <2>2. CASE i > Len(s) /\ i <= Len(s) + n
    <3>1. i - Len(s) \in 1 .. n
      BY <1>1, <2>2
    <3>2. (s \o front)[i] = front[i - Len(s)] /\ (s \o t)[i] = t[i - Len(s)]
      BY <1>1, <2>2, <3>1
    <3>3. ((s \o front) \o back)[i] = (s \o front)[i]
      BY <1>1, <1>2, <2>2
    <3> QED BY <1>1, <3>1, <3>2, <3>3
  <2>3. CASE i > Len(s) + n
    <3>1. i - (Len(s) + n) \in 1 .. Len(back) /\ n + (i - (Len(s) + n)) = i - Len(s)
      BY <1>1, <2>3
    <3>2. ((s \o front) \o back)[i] = back[i - (Len(s) + n)]
      BY <1>1, <1>2, <2>3, <3>1, SMTT(60)
    <3>3. (s \o t)[i] = t[i - Len(s)]
      BY <1>1, <2>3
    <3> QED BY <1>1, <3>1, <3>2, <3>3
  <2> QED BY <1>1, <2>1, <2>2, <2>3, SMTT(60)
<1>5. (s \o front) \o back = s \o t
  BY <1>3, <1>4, SMTT(60)
<1>6. \A i \in 1 .. Len(s) : (s \o front)[i] = s[i]
  BY <1>1, Joined
<1> QED BY <1>1, <1>2, <1>5, <1>6 DEF front, back

(* What lies on both sides of a newline are two lines. *)
LEMMA NewlineParts ==
  ASSUME NEW r \in Seq(Eval!Chars), InLines(r), NEW d \in 1 .. Len(r), r[d].kind = "newline",
         NEW i \in 1 .. d, NEW k \in d + 1 .. Len(r)
  PROVE  r[i].line < r[k].line
<1>1. d \in Nat /\ Len(r) \in Nat /\ i \in 1 .. Len(r) /\ k \in 1 .. Len(r) /\ d < k
  OBVIOUS
<1>2. r[d].line < r[k].line
  BY <1>1 DEF InLines
<1>3. r[i].line <= r[d].line
  <2>1. CASE i = d
    <3>1. r[d].line \in Nat
      BY <1>1, CharIs
    <3> QED BY <2>1, <3>1
  <2>2. CASE i < d
    BY <1>1, <2>2 DEF InLines
  <2> QED BY <2>1, <2>2, <1>1
<1>4. r[i].line \in Nat /\ r[d].line \in Nat /\ r[k].line \in Nat
  BY <1>1, CharIs
<1> QED BY <1>2, <1>3, <1>4

(* Without a newline between them two characters are of one line. *)
LEMMA OneLineBetween ==
  ASSUME NEW r \in Seq(Eval!Chars), InLines(r), NEW i \in 1 .. Len(r), NEW k \in i .. Len(r),
         \A e \in i .. k - 1 : r[e].kind # "newline"
  PROVE  r[i].line = r[k].line
<1>1. i \in Nat /\ k \in Nat /\ Len(r) \in Nat /\ k \in 1 .. Len(r)
  OBVIOUS
<1>2. r[i].line \in Nat /\ r[k].line \in Nat
  BY <1>1, CharIs
<1>3. CASE i = k
  BY <1>3
<1>4. CASE i < k
  <2>1. r[i].line <= r[k].line /\ ~(r[i].line < r[k].line)
    BY <1>1, <1>4 DEF InLines
  <2> QED BY <1>2, <2>1
<1> QED BY <1>1, <1>3, <1>4

(* The first line of the buffer is done with. *)
LEMMA LineDone ==
  ASSUME NEW r \in Seq(Eval!Chars), NEW b \in Seq(Eval!Chars), NEW a \in Seq(Nat), NEW d,
         InLines(r), Kept(r, b, d), HandedOn(r, d, a), NEW p, NEW e, e > 0,
         FirstOf(b, p, "CSI_DATA"), FirstOf(b, e, "newline")
  PROVE  /\ Kept(r, SubSeq(b, e + 1, Len(b)), d + e)
         /\ p > 0 /\ e > p + Short =>
              b[p].line \in Nat /\ HandedOn(r, d + e, Append(a, b[p].line))
         /\ ~(p > 0 /\ e > p + Short) => HandedOn(r, d + e, a)
<1>1. /\ Len(r) \in Nat /\ Len(b) \in Nat /\ d \in Nat /\ d <= Len(r) /\ Len(b) = Len(r) - d
      /\ e \in 1 .. Len(b) /\ p \in 0 .. Len(b)
      /\ \A i \in 1 .. Len(b) : b[i] = r[d + i] /\ d + i \in d + 1 .. Len(r) /\ d + i \in 1 .. Len(r)
  BY DEF Kept, FirstOf
<1>2. /\ \A i \in 1 .. Len(b) : p = 0 \/ i < p => b[i].kind # "CSI_DATA"
      /\ \A i \in 1 .. Len(b) : i < e => b[i].kind # "newline"
      /\ p > 0 => b[p].kind = "CSI_DATA"
      /\ b[e].kind = "newline"
  BY <1>1 DEF FirstOf
<1>3. \A i \in 1 .. Len(r) : r[i].line \in Nat /\ r[i].line \in 1 .. MaxLines
  BY CharIs
<1>4. Kept(r, SubSeq(b, e + 1, Len(b)), d + e)
  <2>1. /\ Len(SubSeq(b, e + 1, Len(b))) = Len(b) - e
        /\ \A i \in 1 .. Len(b) - e : SubSeq(b, e + 1, Len(b))[i] = b[e + i]
    BY <1>1, RestIs
  <2>2. \A i \in 1 .. Len(b) - e : b[e + i] = r[(d + e) + i]
    <3> SUFFICES ASSUME NEW i \in 1 .. Len(b) - e PROVE b[e + i] = r[(d + e) + i]
      OBVIOUS
    <3>1. e \in Nat /\ i \in Nat /\ e + i \in 1 .. Len(b)
      <4>1. e \in 1 .. Len(b) /\ Len(b) \in Nat
        BY <1>1
      <4> QED BY <4>1
    <3>2. d + (e + i) = (d + e) + i
      BY <1>1, <3>1
    <3> QED BY <1>1, <3>1, <3>2
  <2>3. r[d + e].kind = "newline"
    BY <1>1, <1>2
  <2> QED BY <1>1, <2>1, <2>2, <2>3, SMTT(60) DEF Kept
(* A record of the lines done with now is one of before or the new one. *)
<1>5. ASSUME NEW n, RecordIn(r, d + e, n)
      PROVE  RecordIn(r, d, n) \/ (p > 0 /\ e > p + Short /\ n = b[p].line)
  <2>1. PICK i \in 1 .. d + e, k \in 1 .. d + e :
          /\ r[i].kind = "CSI_DATA" /\ r[i].line = n
          /\ r[k].kind = "newline" /\ r[k].line = n /\ k > i + Short
    BY <1>5 DEF RecordIn
  <2>2. i < k
    BY <1>1, <2>1, LinesAre
  <2>3. CASE k <= d
    <3>1. i \in 1 .. d /\ k \in 1 .. d
      BY <1>1, <2>2, <2>3
    <3> QED BY <2>1, <3>1 DEF RecordIn
  <2>4. CASE k > d
    <3>1. k - d \in 1 .. e /\ k - d \in 1 .. Len(b) /\ d + (k - d) = k
      BY <1>1, <2>4, SMTT(60)
    <3>2. b[k - d].kind = "newline"
      BY <1>1, <2>1, <3>1
    <3>3. k = d + e
      BY <1>1, <1>2, <3>1, <3>2
    <3>4. i > d
      <4> SUFFICES ASSUME i <= d PROVE FALSE
        BY <1>1
      <4>1. d \in 1 .. Len(r) /\ i \in 1 .. d /\ k \in d + 1 .. Len(r) /\ r[d].kind = "newline"
        BY <1>1, <2>4, SMTT(60) DEF Kept
      <4>2. r[i].line < r[k].line
        BY <4>1, NewlineParts
      <4>3. r[k].line \in Nat
        BY <1>3, <4>1
      <4> QED BY <2>1, <4>2, <4>3
    <3>5. i - d \in 1 .. Len(b) /\ d + (i - d) = i
      BY <1>1, <2>2, <3>3, <3>4
    <3>6. b[i - d].kind = "CSI_DATA"
      BY <1>1, <2>1, <3>5
    <3>7. p > 0 /\ p <= i - d
      BY <1>1, <1>2, <3>5, <3>6, SMTT(60)
    <3>8. p = i - d
      <4> SUFFICES ASSUME p < i - d PROVE FALSE
        BY <1>1, <3>7, <3>5
      <4>1. d + p \in 1 .. Len(r) /\ d + p < i /\ i \in d + p .. Len(r) /\ i \in 1 .. Len(r)
        BY <1>1, <3>7, <3>5
      <4>2. r[d + p].line < r[i].line
        BY <2>1, <4>1 DEF InLines
      <4>3. ASSUME NEW f \in d + p .. i - 1 PROVE r[f].kind # "newline"
        <5>1. f - d \in 1 .. Len(b) /\ f - d < e /\ d + (f - d) = f
          BY <1>1, <2>2, <3>3, <3>7, <3>5
        <5> QED BY <1>1, <1>2, <5>1
      <4>4. r[d + p].line = r[i].line
        BY <4>1, <4>3, OneLineBetween
      <4> QED BY <1>3, <4>1, <4>2, <4>4
    <3>9. e > p + Short
      BY <1>1, <2>1, <3>3, <3>8, LinesAre
    <3> QED BY <1>1, <2>1, <3>7, <3>8, <3>9, <3>5
  <2> QED BY <1>1, <2>3, <2>4
<1>6. ASSUME NEW n, RecordIn(r, d, n) PROVE RecordIn(r, d + e, n)
  <2>1. \A i \in 1 .. d : i \in 1 .. d + e
    BY <1>1
  <2> QED BY <1>6, <2>1 DEF RecordIn
<1>7. CASE ~(p > 0 /\ e > p + Short)
  BY <1>4, <1>5, <1>6, <1>7 DEF HandedOn
<1>8. CASE p > 0 /\ e > p + Short
  <2>1. /\ p \in 1 .. Len(b) /\ p < e /\ d + p \in 1 .. d + e /\ d + e \in 1 .. d + e
        /\ d + e > (d + p) + Short /\ d + p \in 1 .. Len(r) /\ d + e \in 1 .. Len(r)
        /\ d + e \in d + p .. Len(r)
    BY <1>1, <1>8, LinesAre
  <2>2. b[p].line \in Nat /\ b[p].line \in 1 .. MaxLines /\ b[p] = r[d + p] /\ b[e] = r[d + e]
    BY <1>1, <1>3, <2>1
  <2>3. ASSUME NEW f \in d + p .. (d + e) - 1 PROVE r[f].kind # "newline"
    <3>1. f - d \in 1 .. Len(b) /\ f - d < e /\ d + (f - d) = f
      BY <1>1, <2>1
    <3> QED BY <1>1, <1>2, <3>1
  <2>4. r[d + p].line = r[d + e].line
    BY <2>1, <2>3, OneLineBetween
  <2>5. RecordIn(r, d + e, b[p].line)
    BY <1>2, <1>8, <2>1, <2>2, <2>4 DEF RecordIn
  <2>6. ASSUME NEW k \in 1 .. Len(a) PROVE a[k] < b[p].line
    <3>1. PICK l \in 1 .. d : r[l].line = a[k]
      BY DEF HandedOn, RecordIn
    <3>2. d \in 1 .. Len(r) /\ d + p \in d + 1 .. Len(r) /\ r[d].kind = "newline"
      BY <1>1, <2>1 DEF Kept
    <3>3. r[l].line < r[d + p].line
      BY <3>2, NewlineParts
    <3> QED BY <2>2, <3>1, <3>3
  <2> DEFINE a1 == Append(a, b[p].line)
  <2>7. /\ Len(a1) = Len(a) + 1 /\ a1[Len(a) + 1] = b[p].line /\ Len(a) \in Nat
        /\ \A k \in 1 .. Len(a) : a1[k] = a[k] /\ k \in 1 .. Len(a1)
        /\ Len(a) + 1 \in 1 .. Len(a1)
        /\ \A k \in 1 .. Len(a1) : k \in 1 .. Len(a) \/ k = Len(a) + 1
    BY <2>2
  <2> HIDE DEF a1
  <2>8. \A k, l \in 1 .. Len(a1) : k < l => a1[k] < a1[l]
    <3> SUFFICES ASSUME NEW k \in 1 .. Len(a1), NEW l \in 1 .. Len(a1), k < l
                 PROVE  a1[k] < a1[l]
      OBVIOUS
    <3>1. k \in 1 .. Len(a)
      BY <2>7
    <3>2. CASE l \in 1 .. Len(a)
      BY <2>7, <3>1, <3>2 DEF HandedOn
    <3>3. CASE l = Len(a) + 1
      BY <2>6, <2>7, <3>1, <3>3
    <3> QED BY <2>7, <3>2, <3>3
  <2>9. \A k \in 1 .. Len(a1) : RecordIn(r, d + e, a1[k])
    BY <1>6, <2>5, <2>7 DEF HandedOn
  <2>10. ASSUME NEW n \in 1 .. MaxLines, RecordIn(r, d + e, n)
         PROVE  \E k \in 1 .. Len(a1) : a1[k] = n
    <3>1. CASE RecordIn(r, d, n)
      BY <2>7, <3>1 DEF HandedOn
    <3>2. CASE n = b[p].line
      BY <2>7, <3>2
    <3> QED BY <1>5, <2>10, <3>1, <3>2
  <2>11. HandedOn(r, d + e, a1)
    BY <2>8, <2>9, <2>10 DEF HandedOn
  <2> QED BY <1>4, <1>8, <2>2, <2>11 DEF a1
<1> QED BY <1>7, <1>8

-----------------------------------------------------------------------------
(* What the server's variables say of each other. *)
StreamTyped ==
  /\ unsent \in Seq(Eval!Chars) /\ rx_buffer \in Seq(Eval!Chars)
  /\ received \in Seq(Eval!Chars) /\ analysed \in Seq(Nat)
Connected == server \in {"recv", "scan"}
NothingWhole ==
  Len(rx_buffer) <= Short \/ \A i \in 1 .. Len(rx_buffer) : rx_buffer[i].kind # "newline"
Followed == \E d \in Nat : Kept(received, rx_buffer, d) /\ HandedOn(received, d, analysed)
StreamInv ==
  /\ StreamTyped
  /\ Connected => InLines(received \o unsent) /\ Followed
  /\ server = "recv" => NothingWhole

(* strstr finds the first of its kind. *)
LEMMA StrstrFinds ==
  ASSUME StreamTyped, NEW kind
  PROVE  FirstOf(rx_buffer, Eval!strstr(kind), kind)
<1> DEFINE T == {i \in DOMAIN rx_buffer : rx_buffer[i].kind = kind}
           Found(i) == /\ rx_buffer[i].kind = kind
                       /\ \A k \in 1 .. i - 1 : rx_buffer[k].kind # kind
<1>1. DOMAIN rx_buffer = 1 .. Len(rx_buffer) /\ Len(rx_buffer) \in Nat
  BY DEF StreamTyped
<1>2. CASE T = {}
  <2>1. Eval!strstr(kind) = 0
    BY <1>2 DEF Eval!strstr
  <2>2. \A i \in 1 .. Len(rx_buffer) : rx_buffer[i].kind # kind
    BY <1>1, <1>2
  <2> QED BY <1>1, <2>1, <2>2 DEF FirstOf
<1>3. CASE T # {}
  <2>1. T \subseteq Nat
    BY <1>1
  <2>2. PICK x \in T : \A y \in T : x <= y
    <3> HIDE DEF T
    <3> QED BY <1>3, <2>1, Least
  <2>3. x \in DOMAIN rx_buffer /\ Found(x)
    <3>1. \A k \in 1 .. x - 1 : k \in DOMAIN rx_buffer /\ ~(x <= k)
      BY <1>1, <2>2
    <3> QED BY <2>2, <3>1
  <2>4. Eval!strstr(kind) = CHOOSE i \in DOMAIN rx_buffer : Found(i)
    BY <2>2 DEF Eval!strstr
  <2> HIDE DEF Found
  <2>5. Eval!strstr(kind) \in DOMAIN rx_buffer /\ Found(Eval!strstr(kind))
    BY <2>3, <2>4, Zenon
  <2> QED BY <1>1, <2>5 DEF FirstOf, Found
<1> QED BY <1>2, <1>3

(* The start of the server and the beginning and end of its connections. *)
LEMMA ConnectionKeeps ==
  ASSUME StreamInv,
         \/ Eval!radar_evaluate_server \/ Eval!Setup \/ Eval!AcceptFails \/ Eval!Closed
         \/ Eval!Release
  PROVE  StreamInv'
<1>1. CASE Eval!Closed
  BY <1>1 DEF Eval!Closed, StreamInv, StreamTyped, Connected
<1>2. CASE \/ Eval!radar_evaluate_server \/ Eval!Setup \/ Eval!AcceptFails \/ Eval!Release
  <2>1. UNCHANGED <<unsent, rx_buffer, received, analysed>> /\ server' \notin {"recv", "scan"}
    BY <1>2 DEF Eval!radar_evaluate_server, Eval!Setup, Eval!AcceptFails, Eval!Release
  <2> QED BY <2>1 DEF StreamInv, StreamTyped, Connected
<1> QED BY <1>1, <1>2

(* A client connects: nothing has been received, *)
LEMMA AcceptKeeps == ASSUME StreamInv, Eval!Accept PROVE StreamInv'
<1>1. PICK lines \in Eval!BoundedSeq(Lines, MaxLines) : unsent' = Eval!TextOf(lines)
  BY DEF Eval!Accept
<1>2. rx_buffer' = <<>> /\ analysed' = <<>> /\ received' = <<>>
  BY DEF Eval!Accept
<1>3. unsent' \in Seq(Eval!Chars) /\ InLines(unsent')
  BY <1>1, TextOfIs
<1>4. StreamTyped'
  BY <1>2, <1>3 DEF StreamTyped
<1>5. received' \o unsent' = unsent'
  BY <1>2, <1>3
<1>6. Kept(received', rx_buffer', 0) /\ HandedOn(received', 0, analysed')
  BY <1>2 DEF Kept, HandedOn, RecordIn
<1>7. Followed'
  BY <1>6 DEF Followed
<1>8. NothingWhole'
  BY <1>2 DEF NothingWhole
<1> QED BY <1>3, <1>4, <1>5, <1>7, <1>8 DEF StreamInv

(* some more of the stream comes, *)
LEMMA ReceiveKeeps == ASSUME StreamInv, Eval!Receive PROVE StreamInv'
<1>1. PICK n \in 1 .. Eval!Room :
        /\ n <= Len(unsent)
        /\ unsent' = SubSeq(unsent, n + 1, Len(unsent))
        /\ rx_buffer' = rx_buffer \o SubSeq(unsent, 1, n)
        /\ received' = received \o SubSeq(unsent, 1, n)
  BY DEF Eval!Receive
<1>2. server = "recv" /\ server' = "scan" /\ analysed' = analysed
  BY DEF Eval!Receive
<1> DEFINE part == SubSeq(unsent, 1, n)
<1>3. StreamTyped /\ InLines(received \o unsent) /\ Followed
  BY <1>2 DEF StreamInv, Connected
<1>4. n \in 1 .. Len(unsent) /\ n \in Nat
  BY <1>1
<1>5. /\ received' \in Seq(Eval!Chars) /\ unsent' \in Seq(Eval!Chars)
      /\ received' \o unsent' = received \o unsent
      /\ Len(received') = Len(received) + n
      /\ \A i \in 1 .. Len(received) : received'[i] = received[i]
  <2>1. received \in Seq(Eval!Chars) /\ unsent \in Seq(Eval!Chars)
    BY <1>3 DEF StreamTyped
  <2> QED BY <1>1, <1>4, <2>1, CutAnywhere, ZenonT(60)
<1>6. rx_buffer' \in Seq(Eval!Chars)
  BY <1>1, <1>3, <1>4, CutAnywhere DEF StreamTyped
<1>7. StreamTyped'
  BY <1>2, <1>3, <1>5, <1>6 DEF StreamTyped
<1>8. PICK d \in Nat : Kept(received, rx_buffer, d) /\ HandedOn(received, d, analysed)
  BY <1>3 DEF Followed
<1>9. Len(received) \in Nat /\ Len(rx_buffer) \in Nat /\ d <= Len(received)
      /\ Len(rx_buffer) = Len(received) - d
  BY <1>3, <1>8 DEF StreamTyped, Kept
<1>10. part \in Seq(Eval!Chars) /\ Len(part) = n
  BY <1>3, <1>4 DEF StreamTyped
<1> HIDE DEF part
<1>11. /\ Len(rx_buffer') = Len(rx_buffer) + n
       /\ \A i \in 1 .. Len(rx_buffer) : rx_buffer'[i] = rx_buffer[i]
       /\ \A i \in Len(rx_buffer) + 1 .. Len(rx_buffer) + n :
            rx_buffer'[i] = part[i - Len(rx_buffer)]
       /\ \A i \in Len(received) + 1 .. Len(received) + n : received'[i] = part[i - Len(received)]
  <2>1. rx_buffer' = rx_buffer \o part /\ received' = received \o part
    BY <1>1 DEF part
  <2>2. rx_buffer \in Seq(Eval!Chars) /\ received \in Seq(Eval!Chars)
    BY <1>3 DEF StreamTyped
  <2> QED BY <1>10, <2>1, <2>2, Joined
<1>12. Kept(received', rx_buffer', d)
  <2>1. ASSUME NEW i \in 1 .. Len(rx_buffer) + n PROVE rx_buffer'[i] = received'[d + i]
    <3>1. CASE i \in 1 .. Len(rx_buffer)
      <4>1. d + i \in 1 .. Len(received)
        BY <1>9, <3>1
      <4> QED BY <1>5, <1>8, <1>11, <3>1, <4>1 DEF Kept
    <3>2. CASE i > Len(rx_buffer)
      <4>1. /\ i \in Len(rx_buffer) + 1 .. Len(rx_buffer) + n
            /\ d + i \in Len(received) + 1 .. Len(received) + n
            /\ i - Len(rx_buffer) = (d + i) - Len(received)
        BY <1>4, <1>9, <3>2
      <4> QED BY <1>11, <4>1
    <3> QED BY <1>4, <1>9, <3>1, <3>2
  <2>2. d > 0 => received'[d] = received[d]
    BY <1>5, <1>9
  <2>3. d \in 0 .. Len(received') /\ Len(rx_buffer') = Len(received') - d
    BY <1>4, <1>5, <1>9, <1>11
  <2> QED BY <1>8, <1>11, <2>1, <2>2, <2>3 DEF Kept
<1>13. \A l : RecordIn(received', d, l) <=> RecordIn(received, d, l)
  <2>0. \A i \in 1 .. d : i \in 1 .. Len(received)
    BY <1>9
  <2>1. \A i \in 1 .. d : received'[i] = received[i]
    BY <1>5, <2>0
  <2> QED BY <2>1 DEF RecordIn
<1>14. HandedOn(received', d, analysed')
  BY <1>2, <1>8, <1>13 DEF HandedOn
<1>15. Followed'
  BY <1>12, <1>14 DEF Followed
<1> QED BY <1>2, <1>3, <1>5, <1>7, <1>15 DEF StreamInv

(* a line is done with, *)
LEMMA ScanKeeps == ASSUME StreamInv, Eval!Scan PROVE StreamInv'
<1> DEFINE e == Eval!strstr("newline")
           p == Eval!strstr("CSI_DATA")
<1>1. /\ server = "scan" /\ server' = server /\ e > 0
      /\ UNCHANGED <<unsent, received>>
      /\ rx_buffer' = SubSeq(rx_buffer, e + 1, Len(rx_buffer))
      /\ p > 0 /\ e > p + Short => analysed' = Append(analysed, rx_buffer[p].line)
      /\ ~(p > 0 /\ e > p + Short) => analysed' = analysed
  BY DEF Eval!Scan, Eval!end, Eval!begin, Eval!Drop, Eval!IsRecord
<1>2. StreamTyped /\ InLines(received \o unsent) /\ Followed
  BY <1>1 DEF StreamInv, Connected
<1>3. FirstOf(rx_buffer, e, "newline") /\ FirstOf(rx_buffer, p, "CSI_DATA")
  BY <1>2, StrstrFinds
<1>4. InLines(received)
  BY <1>2, PartInLines DEF StreamTyped
<1>5. PICK d \in Nat : Kept(received, rx_buffer, d) /\ HandedOn(received, d, analysed)
  BY <1>2 DEF Followed
<1> HIDE DEF e, p
<1>6. e \in 1 .. Len(rx_buffer) /\ rx_buffer \in Seq(Eval!Chars) /\ Len(rx_buffer) \in Nat /\ e \in Nat
  BY <1>1, <1>2, <1>3 DEF FirstOf, StreamTyped
<1>7. rx_buffer' \in Seq(Eval!Chars)
  BY <1>1, <1>6, RestIs
<1>8. /\ Kept(received, rx_buffer', d + e)
      /\ p > 0 /\ e > p + Short => rx_buffer[p].line \in Nat
      /\ HandedOn(received, d + e, analysed')
  <2>1. /\ Kept(received, SubSeq(rx_buffer, e + 1, Len(rx_buffer)), d + e)
        /\ p > 0 /\ e > p + Short =>
             /\ rx_buffer[p].line \in Nat
             /\ HandedOn(received, d + e, Append(analysed, rx_buffer[p].line))
        /\ ~(p > 0 /\ e > p + Short) => HandedOn(received, d + e, analysed)
    BY <1>1, <1>2, <1>3, <1>4, <1>5, LineDone DEF StreamTyped
  <2> QED BY <1>1, <2>1
<1>9. analysed' \in Seq(Nat)
  <2>1. analysed \in Seq(Nat)
    BY <1>2 DEF StreamTyped
  <2>2. CASE p > 0 /\ e > p + Short
    <3>1. rx_buffer[p].line \in Nat /\ analysed' = Append(analysed, rx_buffer[p].line)
      BY <1>1, <1>8, <2>2
    <3> QED BY <2>1, <3>1
  <2>3. CASE ~(p > 0 /\ e > p + Short)
    BY <1>1, <2>1, <2>3
  <2> QED BY <2>2, <2>3
<1>10. Followed'
  BY <1>1, <1>5, <1>6, <1>8 DEF Followed
<1> QED BY <1>1, <1>2, <1>7, <1>9, <1>10 DEF StreamInv, StreamTyped

(* and the loop ends or spins. *)
LEMMA ScanDoneKeeps == ASSUME StreamInv, Eval!ScanDone \/ Eval!Spin PROVE StreamInv'
<1>1. /\ UNCHANGED <<unsent, rx_buffer, received, analysed>> /\ server = "scan"
      /\ server' = "scan" \/
           (Len(rx_buffer) <= Short \/ Eval!strstr("newline") = 0)
  BY DEF Eval!ScanDone, Eval!Spin, Eval!Spins, Eval!end, Eval!vars, Eval!eval_vars
<1>2. StreamTyped /\ InLines(received \o unsent) /\ Followed
  BY <1>1 DEF StreamInv, Connected
<1>3. StreamTyped' /\ InLines(received' \o unsent') /\ Followed'
  BY <1>1, <1>2 DEF StreamTyped, Followed
<1>4. FirstOf(rx_buffer, Eval!strstr("newline"), "newline")
  BY <1>2, StrstrFinds
<1>5. server' = "scan" \/ NothingWhole'
  BY <1>1, <1>4 DEF NothingWhole, FirstOf
<1> QED BY <1>3, <1>5 DEF StreamInv

(* A line has arrived whole exactly when it is one of those done with. *)
LEMMA WholeIs ==
  ASSUME NEW n \in 1 .. MaxLines, NEW d \in Nat, StreamTyped, InLines(received), NothingWhole,
         Kept(received, rx_buffer, d)
  PROVE  Eval!Whole(n) <=> RecordIn(received, d, n)
<1> DEFINE r == received
           T == {i \in DOMAIN r : r[i].line = n}
<1>1. /\ r \in Seq(Eval!Chars) /\ DOMAIN r = 1 .. Len(r) /\ Len(r) \in Nat /\ d <= Len(r)
      /\ \A i \in 1 .. d : i \in 1 .. Len(r)
      /\ Len(rx_buffer) = Len(r) - d
  BY DEF StreamTyped, Kept
<1>2. \A i \in 1 .. Len(r) : r[i] \in Eval!Chars /\ r[i].line \in Nat
  BY <1>1, CharIs
<1>3. Eval!Size(n) = Cardinality(T) - 1
  BY DEF Eval!Size, Eval!Cardinality, Cardinality
<1> HIDE DEF r, T
(* A line that begins and ends has just the characters between. *)
<1>4. ASSUME NEW i \in 1 .. Len(r), NEW k \in 1 .. Len(r), r[i].kind = "CSI_DATA", r[i].line = n,
             r[k].kind = "newline", r[k].line = n
      PROVE  i < k /\ Cardinality(T) = k - i + 1
  <2>1. InLines(r)
    BY DEF r
  <2>2. i # k
    BY <1>4
  <2>3. ~(k < i)
    BY <1>2, <1>4, <2>1 DEF InLines
  <2>4. i < k
    BY <2>2, <2>3
  <2>5. ASSUME NEW l \in 1 .. Len(r) PROVE r[l].line = n <=> l \in i .. k
    <3>1. CASE l < i
      BY <1>2, <1>4, <2>1, <2>4, <3>1 DEF InLines
    <3>2. CASE l > k
      BY <1>2, <1>4, <2>1, <2>4, <3>2 DEF InLines
    <3>3. CASE l \in i .. k
      <4>1. CASE l = i \/ l = k
        BY <1>4, <3>3, <4>1
      <4>2. CASE i < l /\ l < k
        <5>1. r[i].line <= r[l].line /\ r[l].line <= r[k].line
          BY <2>1, <4>2 DEF InLines
        <5> QED BY <1>2, <1>4, <3>3, <5>1
      <4> QED BY <3>3, <4>1, <4>2
    <3> QED BY <3>1, <3>2, <3>3
  <2>6. T = i .. k
    BY <1>1, <2>5 DEF T, r
  <2>7. Cardinality(i .. k) = k - i + 1
    BY <2>4, FS_Interval
  <2> QED BY <2>4, <2>6, <2>7
<1>5. ASSUME Eval!Whole(n) PROVE RecordIn(r, d, n)
  <2>1. PICK i \in DOMAIN r, k \in DOMAIN r :
          /\ r[i] = Eval!Char("CSI_DATA", n) /\ r[k] = Eval!Char("newline", n)
          /\ Eval!Size(n) > Short
    BY <1>5 DEF Eval!Whole, r
  <2>2. /\ i \in 1 .. Len(r) /\ k \in 1 .. Len(r)
        /\ r[i].kind = "CSI_DATA" /\ r[i].line = n /\ r[k].kind = "newline" /\ r[k].line = n
    BY <1>1, <2>1 DEF Eval!Char
  <2>3. i < k /\ k > i + Short
    <3>1. i < k /\ Eval!Size(n) = (k - i + 1) - 1
      BY <1>3, <1>4, <2>2
    <3> QED BY <2>1, <2>2, <3>1, LinesAre
  <2>4. CASE k <= d
    <3>1. i \in 1 .. d /\ k \in 1 .. d
      BY <2>2, <2>3, <2>4
    <3> QED BY <2>2, <2>3, <3>1 DEF RecordIn
  <2>5. CASE k > d
    <3>1. k - d \in 1 .. Len(rx_buffer) /\ d + (k - d) = k
      BY <1>1, <2>2, <2>5
    <3>2. rx_buffer[k - d].kind = "newline"
      BY <2>2, <3>1 DEF Kept, r
    <3>3. Len(rx_buffer) <= Short
      BY <3>1, <3>2 DEF NothingWhole
    <3>4. i <= d
      BY <1>1, <2>2, <2>3, <3>3, LinesAre
    <3>5. d \in 1 .. Len(r) /\ i \in 1 .. d /\ k \in d + 1 .. Len(r) /\ r[d].kind = "newline"
      BY <1>1, <2>2, <2>5, <3>4 DEF Kept, r
    <3>6. r[i].line < r[k].line
      BY <1>1, <3>5, NewlineParts DEF r
    <3> QED BY <1>2, <2>2, <3>6
  <2> QED BY <1>1, <2>2, <2>4, <2>5
<1>6. ASSUME RecordIn(r, d, n) PROVE Eval!Whole(n)
  <2>1. PICK i \in 1 .. d, k \in 1 .. d :
          /\ r[i].kind = "CSI_DATA" /\ r[i].line = n
          /\ r[k].kind = "newline" /\ r[k].line = n /\ k > i + Short
    BY <1>6 DEF RecordIn
  <2>2. i \in 1 .. Len(r) /\ k \in 1 .. Len(r)
    BY <1>1
  <2>3. Eval!Size(n) = k - i
    <3>1. Cardinality(T) = k - i + 1
      BY <1>4, <2>1, <2>2
    <3> QED BY <1>3, <2>2, <3>1
  <2>4. Eval!Size(n) > Short
    BY <2>1, <2>2, <2>3, LinesAre
  <2>5. r[i] = Eval!Char("CSI_DATA", n) /\ r[k] = Eval!Char("newline", n)
    BY <1>2, <2>1, <2>2 DEF Eval!Char, Eval!Chars
  <2>6. i \in DOMAIN received /\ k \in DOMAIN received
    BY <1>1, <2>2 DEF r
  <2> QED BY <2>4, <2>5, <2>6 DEF Eval!Whole, r
<1> QED BY <1>5, <1>6 DEF r

(* The records handed on are those that have arrived. *)
LEMMA RecordsOnce == ASSUME StreamInv PROVE Eval!EachRecordOnce
<1>0. StreamTyped
  BY DEF StreamInv
<1>1. ASSUME server = "recv"
      PROVE  /\ \A k, l \in DOMAIN analysed : k < l => analysed[k] < analysed[l]
             /\ {analysed[k] : k \in DOMAIN analysed} = {n \in 1 .. MaxLines : Eval!Whole(n)}
  <2>1. InLines(received \o unsent) /\ Followed /\ NothingWhole
    BY <1>1 DEF StreamInv, Connected
  <2>2. InLines(received)
    BY <1>0, <2>1, PartInLines DEF StreamTyped
  <2>3. PICK d \in Nat : Kept(received, rx_buffer, d) /\ HandedOn(received, d, analysed)
    BY <2>1 DEF Followed
  <2>4. DOMAIN analysed = 1 .. Len(analysed)
    BY <1>0 DEF StreamTyped
  <2>5. \A n \in 1 .. MaxLines : Eval!Whole(n) <=> RecordIn(received, d, n)
    BY <1>0, <2>1, <2>2, <2>3, WholeIs
  <2>6. ASSUME NEW k \in 1 .. Len(analysed) PROVE analysed[k] \in 1 .. MaxLines
    <3>1. PICK i \in 1 .. d : received[i].line = analysed[k]
      BY <2>3 DEF HandedOn, RecordIn
    <3>2. i \in 1 .. Len(received)
      BY <1>0, <2>3 DEF Kept, StreamTyped
    <3>3. received[i] \in Eval!Chars
      BY <1>0, <3>2 DEF StreamTyped
    <3> QED BY <3>1, <3>3, CharIs
  <2>7. \A k \in 1 .. Len(analysed) : RecordIn(received, d, analysed[k])
    BY <2>3 DEF HandedOn
  <2>8. \A n \in 1 .. MaxLines : RecordIn(received, d, n) => \E k \in 1 .. Len(analysed) : analysed[k] = n
    BY <2>3 DEF HandedOn
  <2>9. \A k, l \in 1 .. Len(analysed) : k < l => analysed[k] < analysed[l]
    BY <2>3 DEF HandedOn
  <2>10. {analysed[k] : k \in 1 .. Len(analysed)} = {n \in 1 .. MaxLines : Eval!Whole(n)}
    BY <2>5, <2>6, <2>7, <2>8
  <2> QED BY <2>4, <2>9, <2>10
<1>2. ASSUME Eval!Spins
      PROVE  \E n \in 1 .. MaxLines : \A i \in DOMAIN rx_buffer : rx_buffer[i] = Eval!Char("other", n)
  <2>1. /\ server = "scan" /\ Eval!strstr("newline") = 0 /\ Eval!strstr("CSI_DATA") = 0
    BY <1>2 DEF Eval!Spins, Eval!end, Eval!begin
  <2>2. /\ DOMAIN rx_buffer = 1 .. Len(rx_buffer) /\ Len(rx_buffer) \in Nat
        /\ \A i \in 1 .. Len(rx_buffer) : rx_buffer[i] \in Eval!Chars
    BY <1>0 DEF StreamTyped
  <2>3. \A i \in 1 .. Len(rx_buffer) : rx_buffer[i].kind = "other"
    <3>1. FirstOf(rx_buffer, 0, "newline") /\ FirstOf(rx_buffer, 0, "CSI_DATA")
      BY <1>0, <2>1, StrstrFinds
    <3>2. ASSUME NEW i \in 1 .. Len(rx_buffer) PROVE rx_buffer[i].kind = "other"
      <4>1. rx_buffer[i].kind \in {"CSI_DATA", "other", "newline"}
        BY <2>2, CharIs
      <4> QED BY <3>1, <4>1 DEF FirstOf
    <3> QED BY <3>2
  <2>4. CASE Len(rx_buffer) = 0
    <3>1. 1 \in 1 .. MaxLines
      BY LinesAre
    <3> QED BY <2>2, <2>4, <3>1
  <2>5. CASE Len(rx_buffer) > 0
    <3>1. InLines(received \o unsent) /\ Followed
      BY <2>1 DEF StreamInv, Connected
    <3>2. InLines(received)
      BY <1>0, <3>1, PartInLines DEF StreamTyped
    <3>3. PICK d \in Nat : Kept(received, rx_buffer, d)
      BY <3>1 DEF Followed
    <3>4. /\ Len(received) \in Nat /\ received \in Seq(Eval!Chars) /\ d + Len(rx_buffer) = Len(received)
          /\ \A i \in 1 .. Len(rx_buffer) : rx_buffer[i] = received[d + i]
      BY <1>0, <2>2, <3>3 DEF StreamTyped, Kept
    <3> DEFINE n == rx_buffer[1].line
    <3>5. ASSUME NEW i \in 1 .. Len(rx_buffer) PROVE rx_buffer[i].line = n
      <4>1. /\ d + 1 \in 1 .. Len(received) /\ d + i \in d + 1 .. Len(received)
            /\ 1 \in 1 .. Len(rx_buffer)
        BY <2>2, <2>5, <3>4
      <4>2. ASSUME NEW f \in d + 1 .. (d + i) - 1 PROVE received[f].kind # "newline"
        <5>1. f - d \in 1 .. Len(rx_buffer) /\ d + (f - d) = f
          BY <2>2
        <5>2. received[f] = rx_buffer[f - d]
          BY <3>4, <5>1
        <5> QED BY <2>3, <5>1, <5>2
      <4>3. received[d + 1].line = received[d + i].line
        BY <3>2, <3>4, <4>1, <4>2, OneLineBetween
      <4> QED BY <3>4, <4>1, <4>3
    <3>6. n \in 1 .. MaxLines
      <4>1. rx_buffer[1] \in Eval!Chars
        BY <2>2, <2>5
      <4> QED BY <4>1, CharIs
    <3> HIDE DEF n
    <3>7. ASSUME NEW i \in 1 .. Len(rx_buffer) PROVE rx_buffer[i] = Eval!Char("other", n)
      <4>1. rx_buffer[i] \in Eval!Chars /\ rx_buffer[i].kind = "other" /\ rx_buffer[i].line = n
        BY <2>2, <2>3, <3>5
      <4> QED BY <4>1 DEF Eval!Char, Eval!Chars
    <3> QED BY <2>2, <3>6, <3>7
  <2> QED BY <2>2, <2>4, <2>5
<1> QED BY <1>1, <1>2 DEF Eval!EachRecordOnce

(* The invariant holds initially and is kept by every step, of any component. *)
LEMMA StreamInvariant == Spec => []StreamInv
<1>1. Init => StreamInv
  BY DEF Init, Eval!Init, StreamInv, StreamTyped, Connected
<1>2. StreamInv /\ [Next]_vars => StreamInv'
  <2> SUFFICES ASSUME StreamInv, [Next]_vars PROVE StreamInv'
    OBVIOUS
  <2>1. CASE EvalStep
    BY <2>1, ConnectionKeeps, AcceptKeeps, ReceiveKeeps, ScanKeeps, ScanDoneKeeps
       DEF EvalStep, Eval!Next
  <2>2. CASE UNCHANGED eval_vars
    BY <2>2 DEF eval_vars, StreamInv, StreamTyped, Connected, Followed, NothingWhole
  <2> QED
    BY <2>1, <2>2 DEF Next, vars, StartStep, PingStep, RadarStep, PresenceStep, TransformStep,
                      GainStep, HostStep
<1> QED
  BY <1>1, <1>2, PTL DEF Spec

(* However the stream is cut, the server hands on each record that was     *)
(* sent and has arrived whole, once and in order; its loop hangs on        *)
(* nothing but a line longer than the buffer that is no record.            *)
THEOREM RecordsComeOnce == Spec => []EachRecordOnce
<1>1. StreamInv => EachRecordOnce
  BY RecordsOnce DEF EachRecordOnce
<1> QED
  BY <1>1, StreamInvariant, PTL

-----------------------------------------------------------------------------
(* Start-up. What a call needs, or the actors it sets loose, but for the   *)
(* interrupt, the event, the command and the write that are known early.   *)
KnownActors == {"gpio_isr_handler", "WIFI_EVENT_STA_START", "wifi_cmd_radar", "write_cb"}
Released(c) ==
  CASE c = "esp_wifi_set_csi" ->
         IF app = "slave_recv" THEN {"csi_send_queue"}
         ELSE IF app = "master_recv" THEN {"csi_recv_queue"} ELSE {}
    [] c = "uart_send_task" -> {"csi_send_queue", "uart_driver_install"}
    [] c = "uart_event_task" -> {"uart_driver_install", "uart_recv_queue"}
    [] c = "process_csi_data_task" -> {"csi_recv_queue", "csi_display_queue"}
    [] c = "csi_data_display_task" -> {"uart_recv_queue", "ui_init"}
    [] c = "esp_console_start_repl" -> {"esp_wifi_start"}
    [] c = "esp_radar_start" -> {"esp_radar_set_config"}
    [] c = "csi_data_print_task" -> {"g_csi_info_queue"}
    [] OTHER -> {}
Met(h, c) == Start!Needs(c) \subseteq h /\ Released(c) \subseteq h

(* What app_main may go on without. *)
Doubtful == {"esp_lcd_new_panel_io_spi", "esp_ping_new_session", "esp_ping_start"}
Apart(c, kind) ==
  /\ kind = "plain" /\ c \in Start!Fallible =>
       c \in {"esp_lcd_new_panel_io_spi", "esp_ping_new_session"}
  /\ c = "esp_lcd_new_panel_gc9a01" => kind # "plain" /\ app = "master_recv"
  /\ c = "esp_ping_start" => app \in {"csi_recv_router", "connect_rainmaker"}

(* What the first calls of a program give; that those of a program find    *)
(* what they need, after others that give h, and give g.                   *)
Given(p, k) == UNION {Start!Gives(p[i].call) : i \in 1 .. k}
Fine(h, p, i) == Met(h \cup Given(p, i - 1), p[i].call) /\ Apart(p[i].call, p[i].kind)
Good(h, p, g) ==
  /\ \E S : p \in Seq(S)
  /\ \A i \in 1 .. Len(p) : Fine(h, p, i)
  /\ g \subseteq Given(p, Len(p))

(* A call gives itself, and few give more. *)
LEMMA GivesItself ==
  ASSUME NEW c
  PROVE  /\ c \in Start!Gives(c)
         /\ \A x \in Start!Gives(c) : x = c \/ x \in {"esp_wifi_init", "esp_wifi_start", "connected"}
BY Zenon DEF Start!Gives

(* More that is given does no harm. *)
LEMMA MetMore ==
  ASSUME NEW h, NEW k, NEW c, Met(h, c), h \subseteq k PROVE Met(k, c)
BY Zenon DEF Met

(* The calls given by a program and one after it. *)
LEMMA GivenBoth ==
  ASSUME NEW S, NEW p \in Seq(S), NEW q \in Seq(S)
  PROVE  /\ p \o q \in Seq(S) /\ Len(p \o q) = Len(p) + Len(q)
         /\ \A k \in 0 .. Len(p) : Given(p \o q, k) = Given(p, k)
         /\ \A k \in 0 .. Len(q) : Given(p \o q, Len(p) + k) = Given(p, Len(p)) \cup Given(q, k)
<1> DEFINE r == p \o q
<1>1. /\ r \in Seq(S) /\ Len(r) = Len(p) + Len(q) /\ Len(p) \in Nat /\ Len(q) \in Nat
      /\ \A i \in 1 .. Len(p) : r[i] = p[i]
      /\ \A i \in 1 .. Len(q) : r[Len(p) + i] = q[i]
  OBVIOUS
<1> HIDE DEF r
<1>2. ASSUME NEW k \in 0 .. Len(p) PROVE Given(r, k) = Given(p, k)
  <2>1. \A i \in 1 .. k : r[i] = p[i]
    BY <1>1
  <2> QED BY <2>1, Zenon DEF Given
<1>3. ASSUME NEW k \in 0 .. Len(q)
      PROVE  Given(r, Len(p) + k) = Given(p, Len(p)) \cup Given(q, k)
  <2>1. ASSUME NEW x \in Given(r, Len(p) + k) PROVE x \in Given(p, Len(p)) \cup Given(q, k)
    <3>1. PICK i \in 1 .. Len(p) + k : x \in Start!Gives(r[i].call)
      BY Zenon DEF Given
    <3>2. CASE i <= Len(p)
      <4>1. i \in 1 .. Len(p) /\ r[i] = p[i]
        BY <1>1, <3>2
      <4> QED BY <3>1, <4>1, Zenon DEF Given
    <3>3. CASE i > Len(p)
      <4>1. i - Len(p) \in 1 .. k /\ r[i] = q[i - Len(p)]
        <5>1. i - Len(p) \in 1 .. k /\ i - Len(p) \in 1 .. Len(q) /\ Len(p) + (i - Len(p)) = i
          BY <1>1, <3>3
        <5> QED BY <1>1, <5>1
      <4> QED BY <3>1, <4>1, Zenon DEF Given
    <3> QED BY <1>1, <3>2, <3>3
  <2>2. ASSUME NEW x \in Given(p, Len(p)) PROVE x \in Given(r, Len(p) + k)
    <3>1. PICK i \in 1 .. Len(p) : x \in Start!Gives(p[i].call)
      BY Zenon DEF Given
    <3>2. i \in 1 .. Len(p) + k /\ r[i] = p[i]
      BY <1>1
    <3> QED BY <3>1, <3>2, Zenon DEF Given
  <2>3. ASSUME NEW x \in Given(q, k) PROVE x \in Given(r, Len(p) + k)
    <3>1. PICK i \in 1 .. k : x \in Start!Gives(q[i].call)
      BY Zenon DEF Given
    <3>2. Len(p) + i \in 1 .. Len(p) + k /\ r[Len(p) + i] = q[i]
      BY <1>1
    <3> QED BY <3>1, <3>2, Zenon DEF Given
  <2> QED BY <2>1, <2>2, <2>3, Zenon
<1> QED BY <1>1, <1>2, <1>3 DEF r

(* A program after another that gives what it needs. *)
LEMMA Follow ==
  ASSUME NEW h, NEW p, NEW g, NEW k, NEW q, NEW f, Good(h, p, g), Good(k, q, f), k \subseteq h \cup g
  PROVE  Good(h, p \o q, g \cup f)
<1>8. PICK S_p : p \in Seq(S_p)
  BY Zenon DEF Good
<1>9. PICK S_q : q \in Seq(S_q)
  BY Zenon DEF Good
<1> DEFINE S == S_p \cup S_q  r == p \o q
<1>1. p \in Seq(S) /\ q \in Seq(S) /\ Len(p) \in Nat /\ Len(q) \in Nat
  <2>1. S_p \subseteq S /\ S_q \subseteq S
    OBVIOUS
  <2> HIDE DEF S
  <2> QED BY <1>8, <1>9, <2>1, SeqMonotonic
<1> HIDE DEF S
<1>2. /\ r \in Seq(S) /\ Len(r) = Len(p) + Len(q)
      /\ \A n \in 0 .. Len(p) : Given(r, n) = Given(p, n)
      /\ \A n \in 0 .. Len(q) : Given(r, Len(p) + n) = Given(p, Len(p)) \cup Given(q, n)
  BY <1>1, GivenBoth
<1>3. /\ \A n \in 1 .. Len(p) : r[n] = p[n]
      /\ \A n \in 1 .. Len(q) : r[Len(p) + n] = q[n]
  BY <1>1
<1> HIDE DEF r
<1>4. ASSUME NEW n \in 1 .. Len(p) PROVE Fine(h, r, n)
  <2>1. r[n] = p[n] /\ Given(r, n - 1) = Given(p, n - 1)
    <3>1. n - 1 \in 0 .. Len(p)
      BY <1>1
    <3> QED BY <1>2, <1>3, <3>1, Zenon
  <2> QED BY <2>1, Zenon DEF Good, Fine
<1>5. ASSUME NEW n \in 1 .. Len(q) PROVE Fine(h, r, Len(p) + n)
  <2>1. r[Len(p) + n] = q[n] /\ Given(r, Len(p) + n - 1) = Given(p, Len(p)) \cup Given(q, n - 1)
    <3>1. n - 1 \in 0 .. Len(q) /\ Len(p) + n - 1 = Len(p) + (n - 1)
      BY <1>1
    <3> QED BY <1>2, <1>3, <3>1, Zenon
  <2>2. Met(k \cup Given(q, n - 1), q[n].call) /\ Apart(q[n].call, q[n].kind)
    BY Zenon DEF Good, Fine
  <2>3. k \cup Given(q, n - 1) \subseteq h \cup Given(r, Len(p) + n - 1)
    BY <2>1, Zenon DEF Good
  <2>4. Met(h \cup Given(r, Len(p) + n - 1), q[n].call)
    BY <2>2, <2>3, MetMore
  <2> QED BY <2>1, <2>2, <2>4 DEF Fine
<1>6. \A n \in 1 .. Len(r) : Fine(h, r, n)
  <2> SUFFICES ASSUME NEW n \in 1 .. Len(r), n > Len(p) PROVE Fine(h, r, n)
    BY <1>1, <1>2, <1>4
  <2>1. n - Len(p) \in 1 .. Len(q) /\ Len(p) + (n - Len(p)) = n
    BY <1>1, <1>2
  <2> QED BY <1>5, <2>1, Zenon
<1>7. g \cup f \subseteq Given(r, Len(r))
  <2>1. Given(r, Len(r)) = Given(p, Len(p)) \cup Given(q, Len(q))
    <3>1. Len(q) \in 0 .. Len(q)
      BY <1>1
    <3> QED BY <1>2, <3>1, Zenon
  <2> QED BY <2>1, Zenon DEF Good
<1> QED BY <1>2, <1>6, <1>7, Zenon DEF Good, r

(* A program that needs less and gives more. *)
LEMMA Less ==
  ASSUME NEW h, NEW p, NEW g, NEW k, NEW f, Good(h, p, g), h \subseteq k, f \subseteq g
  PROVE  Good(k, p, f)
<1>1. ASSUME NEW i \in 1 .. Len(p) PROVE Fine(k, p, i)
  <2>1. h \cup Given(p, i - 1) \subseteq k \cup Given(p, i - 1)
    BY Zenon
  <2>2. Met(h \cup Given(p, i - 1), p[i].call) /\ Apart(p[i].call, p[i].kind)
    BY Zenon DEF Good, Fine
  <2>3. Met(k \cup Given(p, i - 1), p[i].call)
    BY <2>1, <2>2, MetMore
  <2> QED BY <2>2, <2>3, Zenon DEF Fine
<1> QED BY <1>1, Zenon DEF Good

(* Nothing is a good program. *)
LEMMA Nothing == ASSUME NEW h PROVE Good(h, <<>>, {})
<1>1. <<>> \in Seq({}) /\ Len(<<>>) = 0
  OBVIOUS
<1>2. \A i \in 1 .. Len(<<>>) : FALSE
  BY <1>1
<1> QED BY <1>1, <1>2, Zenon DEF Good

(* A program after another, of which only so much matters later. *)
LEMMA FollowTo ==
  ASSUME NEW h, NEW p, NEW g, NEW k, NEW q, NEW f, NEW e,
         Good(h, p, g), Good(k, q, f), k \subseteq h \cup g, e \subseteq g \cup f
  PROVE  Good(h, p \o q, e)
<1>1. h \subseteq h
  OBVIOUS
<1>2. Good(h, p \o q, g \cup f)
  BY Follow
<1> QED BY <1>1, <1>2, Less

(* What comes with a call is given as well. *)
LEMMA GivesAll ==
  ASSUME NEW h, NEW p, NEW g, NEW c \in g, Good(h, p, g),
         c \notin {"esp_wifi_init", "esp_wifi_start", "connected"}
  PROVE  Good(h, p, g \cup Start!Gives(c))
<1>1. PICK i \in 1 .. Len(p) : c \in Start!Gives(p[i].call)
  BY Zenon DEF Good, Given
<1>2. p[i].call = c
  BY <1>1, GivesItself
<1>3. Start!Gives(c) \subseteq Given(p, Len(p))
  BY <1>1, <1>2, Zenon DEF Given
<1> QED BY <1>3, Zenon DEF Good

-----------------------------------------------------------------------------
(* A call of its own is a good program if it finds what it needs, *)
LEMMA One ==
  ASSUME NEW h, NEW kind, NEW a, Met(h, a), Apart(a, kind)
  PROVE  Good(h, Start!Calls(kind, <<a>>), {a})
<1> DEFINE p == Start!Calls(kind, <<a>>)
<1>1. /\ p \in Seq({[call |-> a, kind |-> kind]}) /\ Len(p) = 1
      /\ p[1].call = a /\ p[1].kind = kind
  BY DEF Start!Calls
<1> HIDE DEF p
<1>2. Fine(h, p, 1)
  <2>1. h \subseteq h \cup Given(p, 1 - 1)
    BY Zenon
  <2>2. Met(h \cup Given(p, 1 - 1), a)
    BY <2>1, MetMore
  <2> QED BY <1>1, <2>2 DEF Fine
<1>3. {a} \subseteq Given(p, Len(p))
  <2>1. 1 \in 1 .. Len(p)
    BY <1>1
  <2> QED BY <1>1, <2>1, GivesItself, Zenon DEF Given
<1>4. \A i \in 1 .. Len(p) : i = 1
  BY <1>1
<1>5. Good(h, p, {a})
  BY <1>1, <1>2, <1>3, <1>4, Zenon DEF Good
<1> QED BY <1>5 DEF p

(* and one more call at the end of some, if it finds it with what they     *)
(* give.                                                                   *)
LEMMA OneMore ==
  ASSUME NEW h, NEW kind, NEW g, NEW a, NEW T, NEW s \in Seq(T), NEW t \in Seq(T),
         Good(h, Start!Calls(kind, s), g), Met(h \cup g, a), Apart(a, kind),
         Len(t) = Len(s) + 1, t[Len(s) + 1] = a,
         \A i \in 1 .. Len(s) : t[i] = s[i]
  PROVE  Good(h, Start!Calls(kind, t), g \cup {a})
<1> DEFINE S == [call : T, kind : {kind}]  n == Len(s)
           p == Start!Calls(kind, s)  q == Start!Calls(kind, <<a>>)
           r == Start!Calls(kind, t)
<1>1. Good(h \cup g, q, {a}) /\ Good(h, p, g)
  BY One
<1>2. Good(h, p \o q, g \cup {a})
  <2> HIDE DEF p, q
  <2> QED BY <1>1, Follow
<1>3. p \in Seq(S) /\ Len(p) = n /\ \A i \in 1 .. n : p[i] = [call |-> s[i], kind |-> kind]
  BY DEF Start!Calls
<1>4. q \in Seq(S) /\ Len(q) = 1 /\ q[1] = [call |-> a, kind |-> kind]
  BY DEF Start!Calls
<1>5. /\ r \in Seq(S) /\ Len(r) = n + 1
      /\ \A i \in 1 .. n + 1 : r[i] = [call |-> t[i], kind |-> kind]
  BY DEF Start!Calls
<1>6. n \in Nat /\ t[n + 1] = a /\ \A i \in 1 .. n : t[i] = s[i]
  OBVIOUS
<1> HIDE DEF p, q, r, S, n
<1>7. /\ p \o q \in Seq(S) /\ Len(p \o q) = n + 1
      /\ \A i \in 1 .. n + 1 : (p \o q)[i] = IF i <= n THEN p[i] ELSE q[i - n]
  <2>1. /\ p \o q \in Seq(S) /\ Len(p \o q) = Len(p) + Len(q)
        /\ \A i \in 1 .. Len(p) + Len(q) :
             (p \o q)[i] = IF i <= Len(p) THEN p[i] ELSE q[i - Len(p)]
    BY <1>3, <1>4, ConcatProperties, Zenon
  <2>2. Len(p) = n /\ Len(q) = 1
    BY <1>3, <1>4, Zenon
  <2> QED BY <2>1, <2>2, Zenon
<1>8. \A i \in 1 .. n + 1 : r[i] = (p \o q)[i]
  <2> SUFFICES ASSUME NEW i \in 1 .. n + 1 PROVE r[i] = (p \o q)[i]
    OBVIOUS
  <2>1. CASE i <= n
    <3>1. i \in 1 .. n
      BY <1>6, <2>1
    <3> QED BY <1>3, <1>5, <1>6, <1>7, <2>1, <3>1
  <2>2. CASE ~(i <= n)
    <3>1. i = n + 1 /\ i - n = 1
      BY <1>6, <2>2
    <3> QED BY <1>4, <1>5, <1>6, <1>7, <2>2, <3>1
  <2> QED BY <2>1, <2>2
<1>9. r = p \o q
  BY <1>5, <1>7, <1>8, SeqEqual
<1> QED BY <1>2, <1>9 DEF r

(* Tuples are sequences. *)
LEMMA TuplesAre ==
  ASSUME NEW S, NEW a \in S, NEW b \in S, NEW c \in S, NEW d \in S, NEW e \in S, NEW f \in S
  PROVE  /\ <<a>> \in Seq(S) /\ <<a, b>> \in Seq(S) /\ <<a, b, c>> \in Seq(S)
         /\ <<a, b, c, d>> \in Seq(S) /\ <<a, b, c, d, e>> \in Seq(S)
         /\ <<a, b, c, d, e, f>> \in Seq(S)
OBVIOUS

(* So for a handful of calls: two, *)
LEMMA Two ==
  ASSUME NEW h, NEW kind, NEW a, NEW b,
         Met(h, a), Met(h \cup {a}, b), Apart(a, kind), Apart(b, kind)
  PROVE  Good(h, Start!Calls(kind, <<a, b>>), {a, b})
<1> DEFINE s == <<a>>  t == <<a, b>>  T == {a, b}  g == {a}
<1>1. Good(h, Start!Calls(kind, s), g)
  BY One
<1>2. s \in Seq(T) /\ t \in Seq(T)
  <2>1. a \in T /\ b \in T
    OBVIOUS
  <2> HIDE DEF T
  <2> QED BY <2>1, TuplesAre
<1>3. Len(s) = 1 /\ Len(t) = 2 /\ t[2] = b
  OBVIOUS
<1>4. /\ s[1] = a /\ t[1] = a
  OBVIOUS
<1>5. Met(h \cup g, b) /\ Apart(b, kind) /\ g \cup {b} = {a, b}
  BY Zenon
<1> HIDE DEF s, t, g, T
<1>6. Len(t) = Len(s) + 1 /\ t[Len(s) + 1] = b /\ \A i \in 1 .. Len(s) : t[i] = s[i]
  BY <1>3, <1>4
<1>7. Good(h, Start!Calls(kind, t), g \cup {b})
  BY <1>1, <1>2, <1>5, <1>6, OneMore
<1> QED BY <1>5, <1>7, Zenon DEF t

(* three, *)
LEMMA Three ==
  ASSUME NEW h, NEW kind, NEW a, NEW b,
         NEW c,
         Met(h, a), Met(h \cup {a}, b), Met(h \cup {a, b}, c), Apart(a, kind),
         Apart(b, kind), Apart(c, kind)
  PROVE  Good(h, Start!Calls(kind, <<a, b, c>>), {a, b, c})
<1> DEFINE s == <<a, b>>  t == <<a, b, c>>  T == {a, b, c}  g == {a, b}
<1>1. Good(h, Start!Calls(kind, s), g)
  BY Two
<1>2. s \in Seq(T) /\ t \in Seq(T)
  <2>1. a \in T /\ b \in T /\ c \in T
    OBVIOUS
  <2> HIDE DEF T
  <2> QED BY <2>1, TuplesAre
<1>3. Len(s) = 2 /\ Len(t) = 3 /\ t[3] = c
  OBVIOUS
<1>4. /\ s[1] = a /\ t[1] = a
      /\ s[2] = b /\ t[2] = b
  OBVIOUS
<1>5. Met(h \cup g, c) /\ Apart(c, kind) /\ g \cup {c} = {a, b, c}
  BY Zenon
<1> HIDE DEF s, t, g, T
<1>6. Len(t) = Len(s) + 1 /\ t[Len(s) + 1] = c /\ \A i \in 1 .. Len(s) : t[i] = s[i]
  BY <1>3, <1>4
<1>7. Good(h, Start!Calls(kind, t), g \cup {c})
  BY <1>1, <1>2, <1>5, <1>6, OneMore
<1> QED BY <1>5, <1>7, Zenon DEF t

(* four, *)
LEMMA Four ==
  ASSUME NEW h, NEW kind, NEW a, NEW b,
         NEW c, NEW d,
         Met(h, a), Met(h \cup {a}, b), Met(h \cup {a, b}, c),
         Met(h \cup {a, b, c}, d), Apart(a, kind), Apart(b, kind), Apart(c, kind),
         Apart(d, kind)
  PROVE  Good(h, Start!Calls(kind, <<a, b, c, d>>), {a, b, c, d})
<1> DEFINE s == <<a, b, c>>  t == <<a, b, c, d>>  T == {a, b, c, d}  g == {a, b, c}
<1>1. Good(h, Start!Calls(kind, s), g)
  BY Three
<1>2. s \in Seq(T) /\ t \in Seq(T)
  <2>1. a \in T /\ b \in T /\ c \in T /\ d \in T
    OBVIOUS
  <2> HIDE DEF T
  <2> QED BY <2>1, TuplesAre
<1>3. Len(s) = 3 /\ Len(t) = 4 /\ t[4] = d
  OBVIOUS
<1>4. /\ s[1] = a /\ t[1] = a
      /\ s[2] = b /\ t[2] = b
      /\ s[3] = c /\ t[3] = c
  OBVIOUS
<1>5. Met(h \cup g, d) /\ Apart(d, kind) /\ g \cup {d} = {a, b, c, d}
  BY Zenon
<1> HIDE DEF s, t, g, T
<1>6. Len(t) = Len(s) + 1 /\ t[Len(s) + 1] = d /\ \A i \in 1 .. Len(s) : t[i] = s[i]
  BY <1>3, <1>4
<1>7. Good(h, Start!Calls(kind, t), g \cup {d})
  BY <1>1, <1>2, <1>5, <1>6, OneMore
<1> QED BY <1>5, <1>7, Zenon DEF t

(* five *)
LEMMA Five ==
  ASSUME NEW h, NEW kind, NEW a, NEW b,
         NEW c, NEW d, NEW e,
         Met(h, a), Met(h \cup {a}, b), Met(h \cup {a, b}, c),
         Met(h \cup {a, b, c}, d), Met(h \cup {a, b, c, d}, e), Apart(a, kind),
         Apart(b, kind), Apart(c, kind), Apart(d, kind), Apart(e, kind)
  PROVE  Good(h, Start!Calls(kind, <<a, b, c, d, e>>), {a, b, c, d, e})
<1> DEFINE s == <<a, b, c, d>>  t == <<a, b, c, d, e>>  T == {a, b, c, d, e}  g == {a, b, c, d}
<1>1. Good(h, Start!Calls(kind, s), g)
  BY Four
<1>2. s \in Seq(T) /\ t \in Seq(T)
  <2>1. a \in T /\ b \in T /\ c \in T /\ d \in T /\ e \in T
    OBVIOUS
  <2> HIDE DEF T
  <2> QED BY <2>1, TuplesAre
<1>3. Len(s) = 4 /\ Len(t) = 5 /\ t[5] = e
  OBVIOUS
<1>4. /\ s[1] = a /\ t[1] = a
      /\ s[2] = b /\ t[2] = b
      /\ s[3] = c /\ t[3] = c
      /\ s[4] = d /\ t[4] = d
  OBVIOUS
<1>5. Met(h \cup g, e) /\ Apart(e, kind) /\ g \cup {e} = {a, b, c, d, e}
  BY Zenon
<1> HIDE DEF s, t, g, T
<1>6. Len(t) = Len(s) + 1 /\ t[Len(s) + 1] = e /\ \A i \in 1 .. Len(s) : t[i] = s[i]
  BY <1>3, <1>4
<1>7. Good(h, Start!Calls(kind, t), g \cup {e})
  BY <1>1, <1>2, <1>5, <1>6, OneMore
<1> QED BY <1>5, <1>7, Zenon DEF t

(* and six. *)
LEMMA Six ==
  ASSUME NEW h, NEW kind, NEW a, NEW b,
         NEW c, NEW d, NEW e, NEW f,
         Met(h, a), Met(h \cup {a}, b), Met(h \cup {a, b}, c),
         Met(h \cup {a, b, c}, d), Met(h \cup {a, b, c, d}, e),
         Met(h \cup {a, b, c, d, e}, f), Apart(a, kind), Apart(b, kind),
         Apart(c, kind), Apart(d, kind), Apart(e, kind), Apart(f, kind)
  PROVE  Good(h, Start!Calls(kind, <<a, b, c, d, e, f>>), {a, b, c, d, e, f})
<1> DEFINE s == <<a, b, c, d, e>>  t == <<a, b, c, d, e, f>>  T == {a, b, c, d, e, f}  g == {a, b, c, d, e}
<1>1. Good(h, Start!Calls(kind, s), g)
  BY Five
<1>2. s \in Seq(T) /\ t \in Seq(T)
  <2>1. a \in T /\ b \in T /\ c \in T /\ d \in T /\ e \in T /\ f \in T
    OBVIOUS
  <2> HIDE DEF T
  <2> QED BY <2>1, TuplesAre
<1>3. Len(s) = 5 /\ Len(t) = 6 /\ t[6] = f
  OBVIOUS
<1>4. /\ s[1] = a /\ t[1] = a
      /\ s[2] = b /\ t[2] = b
      /\ s[3] = c /\ t[3] = c
      /\ s[4] = d /\ t[4] = d
      /\ s[5] = e /\ t[5] = e
  OBVIOUS
<1>5. Met(h \cup g, f) /\ Apart(f, kind) /\ g \cup {f} = {a, b, c, d, e, f}
  BY Zenon
<1> HIDE DEF s, t, g, T
<1>6. Len(t) = Len(s) + 1 /\ t[Len(s) + 1] = f /\ \A i \in 1 .. Len(s) : t[i] = s[i]
  BY <1>3, <1>4
<1>7. Good(h, Start!Calls(kind, t), g \cup {f})
  BY <1>1, <1>2, <1>5, <1>6, OneMore
<1> QED BY <1>5, <1>7, Zenon DEF t

-----------------------------------------------------------------------------
(* A program of which less matters later. *)
LEMMA Narrow ==
  ASSUME NEW h, NEW p, NEW g, NEW f, Good(h, p, g), f \subseteq g PROVE Good(h, p, f)
<1>1. h \subseteq h
  OBVIOUS
<1> QED BY <1>1, Less

(* Calls that need nothing of each other. *)
LEMMA TwoAlike ==
  ASSUME NEW h, NEW kind, NEW a, NEW b,
         Met(h, a), Apart(a, kind), Met(h, b), Apart(b, kind)
  PROVE  Good(h, Start!Calls(kind, <<a, b>>), {a, b})
<1>1. Met(h \cup {a}, b)
  BY MetMore
<1> QED BY <1>1, Two

(* or three, *)
LEMMA ThreeAlike ==
  ASSUME NEW h, NEW kind, NEW a, NEW b, NEW c,
         Met(h, a), Apart(a, kind), Met(h, b), Apart(b, kind),
         Met(h, c), Apart(c, kind)
  PROVE  Good(h, Start!Calls(kind, <<a, b, c>>), {a, b, c})
<1>1. /\ Met(h \cup {a}, b)
      /\ Met(h \cup {a, b}, c)
  BY MetMore
<1> QED BY <1>1, Three

(* or four, *)
LEMMA FourAlike ==
  ASSUME NEW h, NEW kind, NEW a, NEW b, NEW c, NEW d,
         Met(h, a), Apart(a, kind), Met(h, b), Apart(b, kind),
         Met(h, c), Apart(c, kind), Met(h, d), Apart(d, kind)
  PROVE  Good(h, Start!Calls(kind, <<a, b, c, d>>), {a, b, c, d})
<1>1. /\ Met(h \cup {a}, b)
      /\ Met(h \cup {a, b}, c)
      /\ Met(h \cup {a, b, c}, d)
  BY MetMore
<1> QED BY <1>1, Four

(* or five, *)
LEMMA FiveAlike ==
  ASSUME NEW h, NEW kind, NEW a, NEW b, NEW c, NEW d, NEW e,
         Met(h, a), Apart(a, kind), Met(h, b), Apart(b, kind),
         Met(h, c), Apart(c, kind), Met(h, d), Apart(d, kind),
         Met(h, e), Apart(e, kind)
  PROVE  Good(h, Start!Calls(kind, <<a, b, c, d, e>>), {a, b, c, d, e})
<1>1. /\ Met(h \cup {a}, b)
      /\ Met(h \cup {a, b}, c)
      /\ Met(h \cup {a, b, c}, d)
      /\ Met(h \cup {a, b, c, d}, e)
  BY MetMore
<1> QED BY <1>1, Five

(* or six. *)
LEMMA SixAlike ==
  ASSUME NEW h, NEW kind, NEW a, NEW b, NEW c, NEW d, NEW e, NEW f,
         Met(h, a), Apart(a, kind), Met(h, b), Apart(b, kind),
         Met(h, c), Apart(c, kind), Met(h, d), Apart(d, kind),
         Met(h, e), Apart(e, kind), Met(h, f), Apart(f, kind)
  PROVE  Good(h, Start!Calls(kind, <<a, b, c, d, e, f>>), {a, b, c, d, e, f})
<1>1. /\ Met(h \cup {a}, b)
      /\ Met(h \cup {a, b}, c)
      /\ Met(h \cup {a, b, c}, d)
      /\ Met(h \cup {a, b, c, d}, e)
      /\ Met(h \cup {a, b, c, d, e}, f)
  BY MetMore
<1> QED BY <1>1, Six

(* The programs that applications have in common. *)
LEMMA NvsGood == Good({}, Start!NvsInit, {"nvs_flash_init"})
<1>1. Met({}, "nvs_flash_init") /\ Apart("nvs_flash_init", "erase")
  BY DEF Met, Start!Needs, Released, Apart, Start!Fallible
<1>2. Good({}, Start!NvsInit, {"nvs_flash_init"})
  BY <1>1, One DEF Start!NvsInit
<1> QED BY <1>2, Narrow

(* ESP-NOW and its peer; *)
LEMMA EspNowGood == Good({"esp_wifi_start"}, Start!EspNow, {"esp_now_add_peer"})
<1>1. /\ Met({"esp_wifi_start"}, "esp_now_init")
      /\ Met({"esp_wifi_start"} \cup {"esp_now_init"}, "esp_now_set_pmk")
      /\ Met({"esp_wifi_start"} \cup {"esp_now_init", "esp_now_set_pmk"},
              "esp_now_add_peer")
      /\ Met({"esp_wifi_start"} \cup {"esp_now_init", "esp_now_set_pmk",
              "esp_now_add_peer"}, "esp_now_set_peer_rate_config")
  BY DEF Met, Start!Needs, Released
<1>2. \A c \in {"esp_now_init", "esp_now_set_pmk", "esp_now_add_peer",
                "esp_now_set_peer_rate_config"} : Apart(c, "checked")
  BY DEF Apart, Start!Fallible
<1>3. Good({"esp_wifi_start"}, Start!EspNow, {"esp_now_init", "esp_now_set_pmk",
           "esp_now_add_peer", "esp_now_set_peer_rate_config"})
  BY <1>1, <1>2, Four DEF Start!EspNow, Start!Checked
<1> QED BY <1>3, Narrow

(* the driver; *)
LEMMA DriverGood == Good({"nvs_flash_init"}, Start!Driver,
                  {"esp_event_loop_create_default", "esp_netif_init", "esp_wifi_init"})
<1>1. /\ Met({"nvs_flash_init"}, "esp_event_loop_create_default")
      /\ Met({"nvs_flash_init"} \cup {"esp_event_loop_create_default"}, "esp_netif_init")
      /\ Met({"nvs_flash_init"} \cup {"esp_event_loop_create_default", "esp_netif_init"},
              "esp_wifi_init")
      /\ Met({"nvs_flash_init"} \cup {"esp_event_loop_create_default", "esp_netif_init",
              "esp_wifi_init"}, "esp_wifi_set_mode")
      /\ Met({"nvs_flash_init"} \cup {"esp_event_loop_create_default", "esp_netif_init",
              "esp_wifi_init", "esp_wifi_set_mode"}, "esp_wifi_set_storage")
  BY DEF Met, Start!Needs, Released
<1>2. \A c \in {"esp_event_loop_create_default", "esp_netif_init", "esp_wifi_init",
                "esp_wifi_set_mode", "esp_wifi_set_storage"} : Apart(c, "checked")
  BY DEF Apart, Start!Fallible
<1>3. Good({"nvs_flash_init"}, Start!Driver, {"esp_event_loop_create_default",
           "esp_netif_init", "esp_wifi_init", "esp_wifi_set_mode",
           "esp_wifi_set_storage"})
  BY <1>1, <1>2, Five DEF Start!Driver, Start!Checked
<1> QED BY <1>3, Narrow

(* its start in both bands; *)
LEMMA DualGood == Good({"esp_wifi_init", "esp_event_loop_create_default"}, Start!Dual,
                  {"esp_wifi_start"})
<1> DEFINE p1 == Start!Checked(<<"esp_wifi_start">>)
           p2 == Start!Plain(<<"esp_wifi_set_band_mode">>)
           p3 == Start!Checked(<<"esp_wifi_set_protocols", "esp_wifi_set_bandwidths">>)
<1>1. Good({"esp_wifi_init", "esp_event_loop_create_default"}, p1, {"esp_wifi_start"})
  <2>1. /\ Met({"esp_wifi_init", "esp_event_loop_create_default"}, "esp_wifi_start")
        /\ Apart("esp_wifi_start", "checked")
    BY DEF Met, Start!Needs, Released, Apart, Start!Fallible
  <2> QED BY <2>1, One DEF Start!Checked
<1>2. Good({"esp_wifi_start"}, p2, {"esp_wifi_set_band_mode"})
  <2>1. /\ Met({"esp_wifi_start"}, "esp_wifi_set_band_mode")
        /\ Apart("esp_wifi_set_band_mode", "plain")
    BY DEF Met, Start!Needs, Released, Apart, Start!Fallible
  <2> QED BY <2>1, One DEF Start!Plain
<1>3. Good({}, p3, {"esp_wifi_set_protocols", "esp_wifi_set_bandwidths"})
  <2>1. /\ Met({}, "esp_wifi_set_protocols") /\ Apart("esp_wifi_set_protocols", "checked")
        /\ Met({}, "esp_wifi_set_bandwidths") /\ Apart("esp_wifi_set_bandwidths", "checked")
    BY DEF Met, Start!Needs, Released, Apart, Start!Fallible
  <2> QED BY <2>1, TwoAlike DEF Start!Checked
<1> HIDE DEF p1, p2, p3
<1>4. Good({"esp_wifi_init", "esp_event_loop_create_default"},
           p1 \o p2,
           {"esp_wifi_start"})
  BY <1>1, <1>2, FollowTo, Zenon
<1>5. Good({"esp_wifi_init", "esp_event_loop_create_default"},
           p1 \o p2 \o p3,
           {"esp_wifi_start"})
  BY <1>4, <1>3, FollowTo, Zenon
<1> QED BY <1>5 DEF p1, p2, p3, Start!Dual

(* its channel; *)
LEMMA TuneGood == Good({"esp_wifi_start"}, Start!Tune, {})
<1>1. /\ Met({"esp_wifi_start"}, "esp_wifi_set_ps") /\ Apart("esp_wifi_set_ps", "checked")
      /\ Met({"esp_wifi_start"}, "esp_wifi_set_channel")
      /\ Apart("esp_wifi_set_channel", "checked")
      /\ Met({"esp_wifi_start"}, "esp_wifi_set_mac") /\ Apart("esp_wifi_set_mac", "checked")
  BY DEF Met, Start!Needs, Released, Apart, Start!Fallible
<1>2. Good({"esp_wifi_start"}, Start!Tune, {"esp_wifi_set_ps", "esp_wifi_set_channel",
           "esp_wifi_set_mac"})
  BY <1>1, ThreeAlike DEF Start!Tune, Start!Checked
<1> QED BY <1>2, Narrow

(* CSI; *)
LEMMA CsiGood == Good({"esp_wifi_init"} \cup Released("esp_wifi_set_csi"), Start!Csi, {})
<1>1. /\ Met({"esp_wifi_init"} \cup Released("esp_wifi_set_csi"),
             "esp_wifi_set_csi_config")
      /\ Apart("esp_wifi_set_csi_config", "checked")
      /\ Met({"esp_wifi_init"} \cup Released("esp_wifi_set_csi"),
             "esp_wifi_set_csi_rx_cb")
      /\ Apart("esp_wifi_set_csi_rx_cb", "checked")
      /\ Met({"esp_wifi_init"} \cup Released("esp_wifi_set_csi"), "esp_wifi_set_csi")
      /\ Apart("esp_wifi_set_csi", "checked")
  BY DEF Met, Start!Needs, Released, Apart, Start!Fallible
<1>2. Good({"esp_wifi_init"} \cup Released("esp_wifi_set_csi"), Start!Csi,
           {"esp_wifi_set_csi_config", "esp_wifi_set_csi_rx_cb", "esp_wifi_set_csi"})
  BY <1>1, ThreeAlike DEF Start!Csi, Start!Checked
<1> QED BY <1>2, Narrow

(* the radio of esp-crab, started twice; *)
LEMMA CrabGood == Good({"nvs_flash_init"}, Start!CrabRadio, {"esp_wifi_init",
                  "esp_wifi_start"})
<1> DEFINE p3 == Start!Checked(<<"esp_wifi_start">>)
<1>1. Good({"esp_wifi_init", "esp_event_loop_create_default"}, p3, {"esp_wifi_start"})
  <2>1. /\ Met({"esp_wifi_init", "esp_event_loop_create_default"}, "esp_wifi_start")
        /\ Apart("esp_wifi_start", "checked")
    BY DEF Met, Start!Needs, Released, Apart, Start!Fallible
  <2> QED BY <2>1, One DEF Start!Checked
<1> HIDE DEF p3
<1>2. Good({"nvs_flash_init"},
           Start!Driver \o Start!Dual,
           {"esp_event_loop_create_default", "esp_wifi_init", "esp_wifi_start"})
  BY DriverGood, DualGood, FollowTo, Zenon
<1>3. Good({"nvs_flash_init"},
           Start!Driver \o Start!Dual \o p3,
           {"esp_wifi_init", "esp_wifi_start"})
  BY <1>2, <1>1, FollowTo, Zenon
<1>4. Good({"nvs_flash_init"},
           Start!Driver \o Start!Dual \o p3 \o Start!Tune,
           {"esp_wifi_init", "esp_wifi_start"})
  BY <1>3, TuneGood, FollowTo, Zenon
<1> QED BY <1>4 DEF p3, Start!CrabRadio

(* its sync line; *)
LEMMA GpioGood == Good({}, Start!Gpio, {})
<1>1. /\ Met({}, "gpio_config")
      /\ Met({} \cup {"gpio_config"}, "gpio_install_isr_service")
      /\ Met({} \cup {"gpio_config", "gpio_install_isr_service"}, "gpio_isr_handler_add")
  BY DEF Met, Start!Needs, Released
<1>2. \A c \in {"gpio_config", "gpio_install_isr_service",
                "gpio_isr_handler_add"} : Apart(c, "plain")
  BY DEF Apart, Start!Fallible
<1>3. Good({}, Start!Gpio, {"gpio_config", "gpio_install_isr_service",
           "gpio_isr_handler_add"})
  BY <1>1, <1>2, Three DEF Start!Gpio, Start!Plain
<1> QED BY <1>3, Narrow

(* its UART; *)
LEMMA UartGood == Good({}, Start!Uart, {"uart_driver_install"})
<1>1. /\ Met({}, "uart_driver_install")
      /\ Met({} \cup {"uart_driver_install"}, "uart_param_config")
      /\ Met({} \cup {"uart_driver_install", "uart_param_config"}, "uart_set_pin")
  BY DEF Met, Start!Needs, Released
<1>2. \A c \in {"uart_driver_install", "uart_param_config", "uart_set_pin"} : Apart(c,
                "checked")
  BY DEF Apart, Start!Fallible
<1>3. Good({}, Start!Uart, {"uart_driver_install", "uart_param_config", "uart_set_pin"})
  BY <1>1, <1>2, Three DEF Start!Uart, Start!Checked
<1> QED BY <1>3, Narrow

(* and its LED. *)
LEMMA LedGood == Good({}, Start!Led, {})
<1> DEFINE p1 == Start!Plain(<<"calloc led">>)
           p2 == Start!Checked(<<"led_strip_new_rmt_device">>)
           p3 == Start!Plain(<<"led_strip_clear", "led_strip_task">>)
<1>1. Good({}, p1, {"calloc led"})
  <2>1. Met({}, "calloc led") /\ Apart("calloc led", "plain")
    BY DEF Met, Start!Needs, Released, Apart, Start!Fallible
  <2> QED BY <2>1, One DEF Start!Plain
<1>2. Good({}, p2, {"led_strip_new_rmt_device"})
  <2>1. Met({}, "led_strip_new_rmt_device") /\ Apart("led_strip_new_rmt_device", "checked")
    BY DEF Met, Start!Needs, Released, Apart, Start!Fallible
  <2> QED BY <2>1, One DEF Start!Checked
<1>3. Good({"led_strip_new_rmt_device", "calloc led"}, p3, {"led_strip_clear",
           "led_strip_task"})
  <2>1. /\ Met({"led_strip_new_rmt_device", "calloc led"}, "led_strip_clear")
        /\ Apart("led_strip_clear", "plain")
        /\ Met({"led_strip_new_rmt_device", "calloc led"}, "led_strip_task")
        /\ Apart("led_strip_task", "plain")
    BY DEF Met, Start!Needs, Released, Apart, Start!Fallible
  <2> QED BY <2>1, TwoAlike DEF Start!Plain
<1> HIDE DEF p1, p2, p3
<1>4. Good({}, p1 \o p2, {"calloc led", "led_strip_new_rmt_device"})
  BY <1>1, <1>2, FollowTo, Zenon
<1>5. Good({}, p1 \o p2 \o p3, {})
  BY <1>4, <1>3, FollowTo, Zenon
<1> QED BY <1>5 DEF p1, p2, p3, Start!Led

(* get-started: the radio on every chip, *)
LEMMA SendRadioGood ==
  ASSUME NEW kit PROVE Good({"nvs_flash_init"}, Start!SendRadio(kit), {"esp_wifi_init", "esp_wifi_start"})
<1> DEFINE both == IF kit \in Start!NewRadio THEN Start!Dual
                   ELSE Start!Checked(<<"esp_wifi_set_bandwidth", "esp_wifi_start">>)
           rate == Start!If(kit = "S3", Start!Checked(<<"esp_wifi_config_espnow_rate">>))
<1>1. Good({"esp_wifi_init", "esp_event_loop_create_default"},
           Start!Checked(<<"esp_wifi_set_bandwidth", "esp_wifi_start">>),
           {"esp_wifi_set_bandwidth", "esp_wifi_start"})
  <2>1. /\ Met({"esp_wifi_init", "esp_event_loop_create_default"},
               "esp_wifi_set_bandwidth")
        /\ Apart("esp_wifi_set_bandwidth", "checked")
        /\ Met({"esp_wifi_init", "esp_event_loop_create_default"}, "esp_wifi_start")
        /\ Apart("esp_wifi_start", "checked")
    BY DEF Met, Start!Needs, Released, Apart, Start!Fallible
  <2> QED BY <2>1, TwoAlike DEF Start!Checked
<1>2. Good({"esp_wifi_init", "esp_event_loop_create_default"}, both, {"esp_wifi_start"})
  <2>1. CASE kit \in Start!NewRadio
    BY <2>1, DualGood
  <2>2. CASE kit \notin Start!NewRadio
    BY <1>1, <2>2, Narrow
  <2> QED BY <2>1, <2>2
<1>3. Good({"esp_wifi_start"}, Start!Checked(<<"esp_wifi_config_espnow_rate">>),
           {"esp_wifi_config_espnow_rate"})
  <2>1. /\ Met({"esp_wifi_start"}, "esp_wifi_config_espnow_rate")
        /\ Apart("esp_wifi_config_espnow_rate", "checked")
    BY DEF Met, Start!Needs, Released, Apart, Start!Fallible
  <2> QED BY <2>1, One DEF Start!Checked
<1>4. Good({"esp_wifi_start"}, rate, {})
  <2>1. CASE kit = "S3"
    BY <1>3, <2>1, Narrow DEF Start!If
  <2>2. CASE kit # "S3"
    BY <2>2, Nothing DEF Start!If
  <2> QED BY <2>1, <2>2
<1>5. Start!SendRadio(kit) = Start!Driver \o both \o rate \o Start!Tune
  BY DEF Start!SendRadio
<1> HIDE DEF both, rate
<1>6. Good({"nvs_flash_init"}, Start!Driver \o both, {"esp_wifi_init", "esp_wifi_start"})
  BY <1>2, DriverGood, FollowTo
<1>7. Good({"nvs_flash_init"}, Start!Driver \o both \o rate, {"esp_wifi_init", "esp_wifi_start"})
  <2>1. {"esp_wifi_start"} \subseteq {"nvs_flash_init"} \cup {"esp_wifi_init", "esp_wifi_start"}
        /\ {"esp_wifi_init", "esp_wifi_start"} \subseteq {"esp_wifi_init", "esp_wifi_start"} \cup {}
    BY Zenon
  <2> QED BY <1>4, <1>6, <2>1, FollowTo, Zenon
<1>8. Good({"nvs_flash_init"}, Start!Driver \o both \o rate \o Start!Tune,
           {"esp_wifi_init", "esp_wifi_start"})
  <2>1. {"esp_wifi_start"} \subseteq {"nvs_flash_init"} \cup {"esp_wifi_init", "esp_wifi_start"}
        /\ {"esp_wifi_init", "esp_wifi_start"} \subseteq {"esp_wifi_init", "esp_wifi_start"} \cup {}
    BY Zenon
  <2> QED BY <1>7, <2>1, TuneGood, FollowTo, Zenon
<1> QED BY <1>5, <1>8

(* ESP-NOW, without the rate on the older chips, *)
LEMMA SendEspNowGood ==
  ASSUME NEW kit PROVE Good({"esp_wifi_start"}, Start!SendEspNow(kit), {"esp_now_add_peer"})
<1> DEFINE s == SubSeq(Start!EspNow, 1, 3)
           t == Start!Checked(<<"esp_now_init", "esp_now_set_pmk", "esp_now_add_peer">>)
<1>1. Good({"esp_wifi_start"}, Start!Checked(<<"esp_now_init", "esp_now_set_pmk",
           "esp_now_add_peer">>), {"esp_now_init", "esp_now_set_pmk", "esp_now_add_peer"})
  <2>1. /\ Met({"esp_wifi_start"}, "esp_now_init")
        /\ Met({"esp_wifi_start"} \cup {"esp_now_init"}, "esp_now_set_pmk")
        /\ Met({"esp_wifi_start"} \cup {"esp_now_init", "esp_now_set_pmk"},
                "esp_now_add_peer")
    BY DEF Met, Start!Needs, Released
  <2>2. \A c \in {"esp_now_init", "esp_now_set_pmk", "esp_now_add_peer"} : Apart(c,
                  "checked")
    BY DEF Apart, Start!Fallible
  <2> QED BY <2>1, <2>2, Three DEF Start!Checked
<1>2. s = t
  <2>1. PICK S : Start!EspNow \in Seq(S)
    BY EspNowGood DEF Good
  <2>2. /\ Len(Start!EspNow) = 4
        /\ \A i \in 1 .. 3 : Start!EspNow[i] = t[i]
    BY DEF Start!EspNow, Start!Checked, Start!Calls
  <2>3. PICK T : t \in Seq(T)
    BY <1>1 DEF Good
  <2>4. Len(t) = 3
    BY DEF Start!Checked, Start!Calls
  <2> HIDE DEF t
  <2>5. /\ s \in Seq(S) /\ Len(s) = 3 /\ \A i \in 1 .. 3 : s[i] = Start!EspNow[i]
    <3> DEFINE p == Start!EspNow
    <3>1. p \in Seq(S) /\ Len(p) = 4
      BY <2>1, <2>2
    <3> HIDE DEF p
    <3>2. \A i \in 1 .. Len(p) : p[i] \in S
      BY <3>1, ElementOfSeq
    <3>3. /\ SubSeq(p, 1, 3) \in Seq(S) /\ Len(SubSeq(p, 1, 3)) = 3
          /\ \A i \in 1 .. 3 : SubSeq(p, 1, 3)[i] = p[i]
      BY <3>1, <3>2
    <3> QED BY <3>3 DEF p
  <2> HIDE DEF s
  <2>6. s \in Seq(S \cup T) /\ t \in Seq(S \cup T)
    BY <2>3, <2>5, SeqMonotonic
  <2> QED BY <2>2, <2>4, <2>5, <2>6, SeqEqual
<1>3. Good({"esp_wifi_start"}, t, {"esp_now_add_peer"})
  BY <1>1, Narrow
<1> HIDE DEF s, t
<1>4. Start!SendEspNow(kit) = Start!EspNow \/ Start!SendEspNow(kit) = s
  BY DEF Start!SendEspNow, s
<1> QED BY <1>2, <1>3, <1>4, EspNowGood, Zenon

(* and CSI. *)
LEMMA RecvCsiGood == Good({"esp_wifi_init"} \cup Released("esp_wifi_set_csi"),
                  Start!RecvCsi, {})
<1> DEFINE p1 == Start!Checked(<<"esp_wifi_set_promiscuous">>)
<1>1. Good({"esp_wifi_init"} \cup Released("esp_wifi_set_csi"), p1,
           {"esp_wifi_set_promiscuous"})
  <2>1. /\ Met({"esp_wifi_init"} \cup Released("esp_wifi_set_csi"),
               "esp_wifi_set_promiscuous")
        /\ Apart("esp_wifi_set_promiscuous", "checked")
    BY DEF Met, Start!Needs, Released, Apart, Start!Fallible
  <2> QED BY <2>1, One DEF Start!Checked
<1> HIDE DEF p1
<1>2. Good({"esp_wifi_init"} \cup Released("esp_wifi_set_csi"), p1 \o Start!Csi, {})
  BY <1>1, CsiGood, FollowTo, Zenon
<1> QED BY <1>2 DEF p1, Start!RecvCsi

-----------------------------------------------------------------------------
(* csi_send on every chip; *)
LEMMA CsiSendGood ==
  ASSUME NEW kit
  PROVE  Good({}, Start!CsiSend(kit), {})
<1> DEFINE p2 == Start!SendRadio(kit)
           p3 == Start!SendEspNow(kit)
           p4 == Start!Plain(<<"esp_now_send">>)
<1>1. Good({"nvs_flash_init"}, p2, {"esp_wifi_init", "esp_wifi_start"})
  BY SendRadioGood
<1>2. Good({"esp_wifi_start"}, p3, {"esp_now_add_peer"})
  BY SendEspNowGood
<1>3. Good({"esp_now_add_peer"}, p4, {"esp_now_send"})
  <2>1. Met({"esp_now_add_peer"}, "esp_now_send") /\ Apart("esp_now_send", "plain")
    BY DEF Met, Start!Needs, Released, Apart, Start!Fallible
  <2> QED BY <2>1, One DEF Start!Plain
<1> HIDE DEF p2, p3, p4
<1>4. Good({}, Start!NvsInit \o p2, {"esp_wifi_start"})
  <2>1. {"nvs_flash_init"} \subseteq {} \cup {"nvs_flash_init"}
    OBVIOUS
  <2>2. {"esp_wifi_start"}
       \subseteq {"nvs_flash_init"} \cup {"esp_wifi_init", "esp_wifi_start"}
    OBVIOUS
  <2> QED BY <2>1, <2>2, NvsGood, <1>1, FollowTo
<1>5. Good({}, Start!NvsInit \o p2 \o p3, {"esp_now_add_peer"})
  BY <1>4, <1>2, FollowTo, Zenon
<1>6. Good({}, Start!NvsInit \o p2 \o p3 \o p4, {})
  BY <1>5, <1>3, FollowTo, Zenon
<1> QED BY <1>6 DEF p2, p3, p4, Start!CsiSend

(* csi_recv; *)
LEMMA CsiRecvGood ==
  ASSUME NEW kit, app = "csi_recv"
  PROVE  Good({}, Start!CsiRecv(kit), {})
<1> DEFINE p2 == Start!SendRadio(kit)
           p3 == Start!RecvEspNow(kit)
<1>1. Good({"nvs_flash_init"}, p2, {"esp_wifi_init", "esp_wifi_start"})
  BY SendRadioGood
<1>2. Good({"esp_wifi_start"}, p3, {})
  <2>1. CASE kit = "C5"
    BY <2>1, EspNowGood, Narrow DEF Start!RecvEspNow, Start!If
  <2>2. CASE kit # "C5"
    <3>1. {} \subseteq {"esp_wifi_start"} /\ {} \subseteq {}
      OBVIOUS
    <3> QED BY <2>2, <3>1, Nothing, Less DEF Start!RecvEspNow, Start!If
  <2> QED BY <2>1, <2>2
<1>3. Good({"esp_wifi_init"}, Start!RecvCsi, {})
  <2>1. Released("esp_wifi_set_csi") \subseteq {}
    BY DEF Released
  <2>2. {"esp_wifi_init"} \cup Released("esp_wifi_set_csi") \subseteq {"esp_wifi_init"}
    BY <2>1, Zenon
  <2>3. {} \subseteq {}
    OBVIOUS
  <2> QED BY <2>2, <2>3, RecvCsiGood, Less, Zenon
<1> HIDE DEF p2, p3
<1>4. Good({}, Start!NvsInit \o p2, {"esp_wifi_init", "esp_wifi_start"})
  <2>1. {"nvs_flash_init"} \subseteq {} \cup {"nvs_flash_init"}
    OBVIOUS
  <2>2. {"esp_wifi_init", "esp_wifi_start"}
       \subseteq {"nvs_flash_init"} \cup {"esp_wifi_init", "esp_wifi_start"}
    OBVIOUS
  <2> QED BY <2>1, <2>2, NvsGood, <1>1, FollowTo
<1>5. Good({}, Start!NvsInit \o p2 \o p3, {"esp_wifi_init"})
  BY <1>4, <1>2, FollowTo, Zenon
<1>6. Good({}, Start!NvsInit \o p2 \o p3 \o Start!RecvCsi, {})
  BY <1>5, <1>3, FollowTo, Zenon
<1> QED BY <1>6 DEF p2, p3, Start!CsiRecv, Start!RecvRadio

(* A program that brings up a station. *)
LEMMA StationUp ==
  ASSUME NEW h, NEW p, NEW g, Good(h, p, g)
  PROVE  /\ "example_connect" \in g => Good(h, p, {"esp_wifi_init", "connected"})
         /\ "app_wifi_init" \in g => Good(h, p, g \cup {"esp_wifi_init"})
         /\ "app_wifi_start" \in g => Good(h, p, {"esp_wifi_start", "connected"})
<1> DEFINE Kinds == {"example_connect", "app_wifi_init", "app_wifi_start"}
<1>1. ASSUME NEW x \in Kinds, x \in g PROVE Good(h, p, g \cup Start!Gives(x))
  <2>1. x \notin {"esp_wifi_init", "esp_wifi_start", "connected"}
    OBVIOUS
  <2> QED BY <1>1, <2>1, GivesAll
<1>2. /\ Start!Gives("example_connect") =
           {"example_connect", "esp_wifi_init", "esp_wifi_start", "connected"}
      /\ Start!Gives("app_wifi_init") = {"app_wifi_init", "esp_wifi_init"}
      /\ Start!Gives("app_wifi_start") = {"app_wifi_start", "esp_wifi_start", "connected"}
  BY DEF Start!Gives
<1>3. ASSUME "example_connect" \in g PROVE Good(h, p, {"esp_wifi_init", "connected"})
  <2>1. Good(h, p, g \cup Start!Gives("example_connect"))
    BY <1>1, <1>3
  <2>2. {"esp_wifi_init", "connected"} \subseteq g \cup Start!Gives("example_connect")
    BY <1>2
  <2> QED BY <2>1, <2>2, Narrow
<1>4. ASSUME "app_wifi_init" \in g PROVE Good(h, p, g \cup {"esp_wifi_init"})
  <2>1. Good(h, p, g \cup Start!Gives("app_wifi_init"))
    BY <1>1, <1>4
  <2>2. g \cup {"esp_wifi_init"} \subseteq g \cup Start!Gives("app_wifi_init")
    BY <1>2
  <2> QED BY <2>1, <2>2, Narrow
<1>5. ASSUME "app_wifi_start" \in g PROVE Good(h, p, {"esp_wifi_start", "connected"})
  <2>1. Good(h, p, g \cup Start!Gives("app_wifi_start"))
    BY <1>1, <1>5
  <2>2. {"esp_wifi_start", "connected"} \subseteq g \cup Start!Gives("app_wifi_start")
    BY <1>2
  <2> QED BY <2>1, <2>2, Narrow
<1> QED BY <1>3, <1>4, <1>5

(* csi_recv_router; *)
LEMMA CsiRecvRouterGood ==
  ASSUME app = "csi_recv_router"
  PROVE  Good({}, Start!CsiRecvRouter, {})
<1> DEFINE p1 == Start!Checked(<<"nvs_flash_init", "esp_netif_init",
                    "esp_event_loop_create_default", "example_connect">>)
           p3 == Start!Plain(<<"esp_netif_get_ip_info", "esp_ping_new_session",
                    "esp_ping_start">>)
<1>1. Good({}, p1, {"esp_wifi_init", "connected"})
  <2>1. Good({}, p1, {"nvs_flash_init", "esp_netif_init",
             "esp_event_loop_create_default", "example_connect"})
    <3>1. /\ Met({}, "nvs_flash_init")
          /\ Met({} \cup {"nvs_flash_init"}, "esp_netif_init")
          /\ Met({} \cup {"nvs_flash_init", "esp_netif_init"},
                  "esp_event_loop_create_default")
          /\ Met({} \cup {"nvs_flash_init", "esp_netif_init",
                  "esp_event_loop_create_default"}, "example_connect")
      BY DEF Met, Start!Needs, Released
    <3>2. \A c \in {"nvs_flash_init", "esp_netif_init", "esp_event_loop_create_default",
                    "example_connect"} : Apart(c, "checked")
      BY DEF Apart, Start!Fallible
    <3> QED BY <3>1, <3>2, Four DEF Start!Checked
  <2> QED BY <2>1, StationUp
<1>2. Good({"connected", "esp_wifi_init"}, Start!RouterCsi, {})
  <2> DEFINE q == Start!Checked(<<"esp_wifi_sta_get_ap_info">>)
  <2>1. Good({"connected"}, q, {})
    <3>1. Met({"connected"}, "esp_wifi_sta_get_ap_info") /\ Apart("esp_wifi_sta_get_ap_info", "checked")
      BY DEF Met, Start!Needs, Released, Apart, Start!Fallible
    <3>2. Good({"connected"}, q, {"esp_wifi_sta_get_ap_info"})
      BY <3>1, One DEF Start!Checked
    <3> QED BY <3>2, Narrow
  <2>2. Good({"esp_wifi_init"}, Start!Csi, {})
    <3>1. {"esp_wifi_init"} \cup Released("esp_wifi_set_csi") = {"esp_wifi_init"}
      BY DEF Released
    <3> QED BY <3>1, CsiGood
  <2> HIDE DEF q
  <2>3. Good({"connected", "esp_wifi_init"}, q, {})
    BY <2>1, Less
  <2>4. Good({"connected", "esp_wifi_init"}, q \o Start!Csi, {})
    BY <2>2, <2>3, FollowTo, Zenon
  <2> QED BY <2>4 DEF q, Start!RouterCsi
<1>3. Good({"connected"}, p3, {"esp_netif_get_ip_info", "esp_ping_new_session",
           "esp_ping_start"})
  <2>1. /\ Met({"connected"}, "esp_netif_get_ip_info")
        /\ Met({"connected"} \cup {"esp_netif_get_ip_info"}, "esp_ping_new_session")
        /\ Met({"connected"} \cup {"esp_netif_get_ip_info", "esp_ping_new_session"},
                "esp_ping_start")
    BY DEF Met, Start!Needs, Released
  <2>2. \A c \in {"esp_netif_get_ip_info", "esp_ping_new_session",
                  "esp_ping_start"} : Apart(c, "plain")
    BY DEF Apart, Start!Fallible
  <2> QED BY <2>1, <2>2, Three DEF Start!Plain
<1> HIDE DEF p1, p3
<1>4. Good({}, p1 \o Start!RouterCsi, {"connected"})
  <2>1. {"connected", "esp_wifi_init"} \subseteq {} \cup {"esp_wifi_init", "connected"}
    OBVIOUS
  <2>2. {"connected"} \subseteq {"esp_wifi_init", "connected"} \cup {}
    OBVIOUS
  <2> QED BY <2>1, <2>2, <1>1, <1>2, FollowTo
<1>5. Good({}, p1 \o Start!RouterCsi \o p3, {})
  <2>1. {"connected"} \subseteq {} \cup {"connected"}
    OBVIOUS
  <2>2. {}
       \subseteq {"connected"} \cup {"esp_netif_get_ip_info", "esp_ping_new_session",
              "esp_ping_start"}
    OBVIOUS
  <2> QED BY <2>1, <2>2, <1>4, <1>3, FollowTo
<1> QED BY <1>5 DEF p1, p3, Start!CsiRecvRouter, Start!RouterCsi, Start!RouterPing

(* slave_send; *)
LEMMA SlaveSendGood == Good({}, Start!SlaveSend, {})
<1> DEFINE p4 == Start!Plain(<<"esp_now_send">>)
<1>1. Good({"nvs_flash_init"}, Start!SlaveSendRadio, {"esp_wifi_init", "esp_wifi_start"})
  BY CrabGood DEF Start!SlaveSendRadio
<1>2. Good({"esp_wifi_start"}, Start!SlaveSendEspNow, {"esp_now_add_peer"})
  BY EspNowGood DEF Start!SlaveSendEspNow
<1>3. Good({"esp_now_add_peer"}, p4, {"esp_now_send"})
  <2>1. Met({"esp_now_add_peer"}, "esp_now_send") /\ Apart("esp_now_send", "plain")
    BY DEF Met, Start!Needs, Released, Apart, Start!Fallible
  <2> QED BY <2>1, One DEF Start!Plain
<1> HIDE DEF p4
<1>4. Good({}, Start!NvsInit \o Start!SlaveSendRadio, {"esp_wifi_start"})
  <2>1. {"nvs_flash_init"} \subseteq {} \cup {"nvs_flash_init"}
    OBVIOUS
  <2>2. {"esp_wifi_start"}
       \subseteq {"nvs_flash_init"} \cup {"esp_wifi_init", "esp_wifi_start"}
    OBVIOUS
  <2> QED BY <2>1, <2>2, NvsGood, <1>1, FollowTo
<1>5. Good({},
           Start!NvsInit \o Start!SlaveSendRadio \o Start!SlaveSendEspNow,
           {"esp_now_add_peer"})
  BY <1>4, <1>2, FollowTo, Zenon
<1>6. Good({},
           Start!NvsInit \o Start!SlaveSendRadio \o Start!SlaveSendEspNow \o p4,
           {})
  BY <1>5, <1>3, FollowTo, Zenon
<1> QED BY <1>6 DEF p4, Start!SlaveSend

(* the reception of slave_recv, *)
LEMMA SlaveCsiGood ==
  ASSUME app = "slave_recv"
  PROVE  Good({"esp_wifi_init"}, Start!SlaveCsi, {"csi_send_queue"})
<1> DEFINE p1 == Start!Checked(<<"esp_wifi_set_promiscuous">>)
           p2 == Start!Plain(<<"csi_send_queue">>)
<1>1. Good({"esp_wifi_init"}, p1, {"esp_wifi_set_promiscuous"})
  <2>1. /\ Met({"esp_wifi_init"}, "esp_wifi_set_promiscuous")
        /\ Apart("esp_wifi_set_promiscuous", "checked")
    BY DEF Met, Start!Needs, Released, Apart, Start!Fallible
  <2> QED BY <2>1, One DEF Start!Checked
<1>2. Good({}, p2, {"csi_send_queue"})
  <2>1. Met({}, "csi_send_queue") /\ Apart("csi_send_queue", "plain")
    BY DEF Met, Start!Needs, Released, Apart, Start!Fallible
  <2> QED BY <2>1, One DEF Start!Plain
<1>3. Good({"esp_wifi_init", "csi_send_queue"}, Start!Csi, {})
  <2>1. Released("esp_wifi_set_csi") \subseteq {"csi_send_queue"}
    BY DEF Released
  <2>2. {"esp_wifi_init"} \cup Released("esp_wifi_set_csi") \subseteq {"esp_wifi_init", "csi_send_queue"}
    BY <2>1, Zenon
  <2>3. {} \subseteq {}
    OBVIOUS
  <2> QED BY <2>2, <2>3, CsiGood, Less, Zenon
<1> HIDE DEF p1, p2
<1>4. Good({"esp_wifi_init"}, p1 \o p2, {"csi_send_queue"})
  BY <1>1, <1>2, FollowTo, Zenon
<1>5. Good({"esp_wifi_init"}, p1 \o p2 \o Start!Csi, {"csi_send_queue"})
  BY <1>4, <1>3, FollowTo, Zenon
<1> QED BY <1>5 DEF p1, p2, Start!SlaveCsi

(* slave_recv itself; *)
LEMMA SlaveRecvGood ==
  ASSUME app = "slave_recv"
  PROVE  Good({}, Start!SlaveRecv, {})
<1> DEFINE p8 == Start!Plain(<<"uart_send_task">>)
<1>1. Good({"nvs_flash_init"}, Start!SlaveRadio, {"esp_wifi_init", "esp_wifi_start"})
  BY CrabGood DEF Start!SlaveRadio
<1>2. Good({"esp_wifi_start"}, Start!SlaveEspNow, {"esp_now_add_peer"})
  BY EspNowGood DEF Start!SlaveEspNow
<1>3. Good({}, Start!SlaveGpio, {})
  BY GpioGood DEF Start!SlaveGpio
<1>4. Good({}, Start!SlaveUart, {"uart_driver_install"})
  BY UartGood DEF Start!SlaveUart
<1>5. Good({"csi_send_queue", "uart_driver_install"}, p8, {"uart_send_task"})
  <2>1. /\ Met({"csi_send_queue", "uart_driver_install"}, "uart_send_task")
        /\ Apart("uart_send_task", "plain")
    BY DEF Met, Start!Needs, Released, Apart, Start!Fallible
  <2> QED BY <2>1, One DEF Start!Plain
<1> HIDE DEF p8
<1>6. Good({}, Start!NvsInit \o Start!SlaveRadio, {"esp_wifi_init", "esp_wifi_start"})
  <2>1. {"nvs_flash_init"} \subseteq {} \cup {"nvs_flash_init"}
    OBVIOUS
  <2>2. {"esp_wifi_init", "esp_wifi_start"}
       \subseteq {"nvs_flash_init"} \cup {"esp_wifi_init", "esp_wifi_start"}
    OBVIOUS
  <2> QED BY <2>1, <2>2, NvsGood, <1>1, FollowTo
<1>7. Good({},
           Start!NvsInit \o Start!SlaveRadio \o Start!SlaveEspNow,
           {"esp_wifi_init"})
  <2>1. {"esp_wifi_start"} \subseteq {} \cup {"esp_wifi_init", "esp_wifi_start"}
    OBVIOUS
  <2>2. {"esp_wifi_init"}
       \subseteq {"esp_wifi_init", "esp_wifi_start"} \cup {"esp_now_add_peer"}
    OBVIOUS
  <2> QED BY <2>1, <2>2, <1>6, <1>2, FollowTo
<1>8. Good({},
           Start!NvsInit \o Start!SlaveRadio \o Start!SlaveEspNow \o Start!SlaveGpio,
           {"esp_wifi_init"})
  BY <1>7, <1>3, FollowTo, Zenon
<1>9. Good({},
           Start!NvsInit \o Start!SlaveRadio \o Start!SlaveEspNow \o Start!SlaveGpio
           \o Start!SlaveUart,
           {"esp_wifi_init", "uart_driver_install"})
  BY <1>8, <1>4, FollowTo, Zenon
<1>10. Good({},
           Start!NvsInit \o Start!SlaveRadio \o Start!SlaveEspNow \o Start!SlaveGpio
           \o Start!SlaveUart \o Start!Led,
           {"esp_wifi_init", "uart_driver_install"})
  BY <1>9, LedGood, FollowTo, Zenon
<1>11. Good({},
           Start!NvsInit \o Start!SlaveRadio \o Start!SlaveEspNow \o Start!SlaveGpio
           \o Start!SlaveUart \o Start!Led \o Start!SlaveCsi,
           {"uart_driver_install", "csi_send_queue"})
  <2>1. {"esp_wifi_init"} \subseteq {} \cup {"esp_wifi_init", "uart_driver_install"}
    OBVIOUS
  <2>2. {"uart_driver_install", "csi_send_queue"}
       \subseteq {"esp_wifi_init", "uart_driver_install"} \cup {"csi_send_queue"}
    OBVIOUS
  <2> QED BY <2>1, <2>2, <1>10, SlaveCsiGood, FollowTo
<1>12. Good({},
           Start!NvsInit \o Start!SlaveRadio \o Start!SlaveEspNow \o Start!SlaveGpio
           \o Start!SlaveUart \o Start!Led \o Start!SlaveCsi \o p8,
           {})
  <2>1. {"csi_send_queue", "uart_driver_install"}
       \subseteq {} \cup {"uart_driver_install", "csi_send_queue"}
    OBVIOUS
  <2>2. {} \subseteq {"uart_driver_install", "csi_send_queue"} \cup {"uart_send_task"}
    OBVIOUS
  <2> QED BY <2>1, <2>2, <1>11, <1>5, FollowTo
<1> QED BY <1>12 DEF p8, Start!SlaveRecv

(* the display of master_recv: its light, *)
LEMMA BrightnessGood == Good({}, Start!Brightness, {"ledc_channel_config"})
<1>1. /\ Met({}, "ledc_timer_config") /\ Apart("ledc_timer_config", "checked")
      /\ Met({}, "ledc_channel_config") /\ Apart("ledc_channel_config", "checked")
  BY DEF Met, Start!Needs, Released, Apart, Start!Fallible
<1>2. Good({}, Start!Brightness, {"ledc_timer_config", "ledc_channel_config"})
  BY <1>1, TwoAlike DEF Start!Brightness, Start!Checked
<1> QED BY <1>2, Narrow

(* its bus, *)
LEMMA I2cGood == Good({}, Start!I2c, {"i2c_driver_install"})
<1>1. /\ Met({}, "i2c_param_config") /\ Apart("i2c_param_config", "checked")
      /\ Met({}, "i2c_driver_install") /\ Apart("i2c_driver_install", "checked")
  BY DEF Met, Start!Needs, Released, Apart, Start!Fallible
<1>2. Good({}, Start!I2c, {"i2c_param_config", "i2c_driver_install"})
  BY <1>1, TwoAlike DEF Start!I2c, Start!Checked
<1> QED BY <1>2, Narrow

(* its panel, *)
LEMMA PanelGood ==
  ASSUME app = "master_recv"
  PROVE  Good({}, Start!Panel, {"ledc_channel_config", "i2c_driver_install"})
<1> DEFINE p3 == Start!Checked(<<"spi_bus_initialize">>)
           p4 == Start!Plain(<<"esp_lcd_new_panel_io_spi">>)
           p5 == Start!Checked(<<"esp_lcd_new_panel_gc9a01">>)
           p6 == Start!Plain(<<"esp_lcd_panel_reset", "esp_lcd_panel_init",
                    "esp_lcd_panel_invert_color", "esp_lcd_panel_disp_on_off">>)
<1>1. Good({}, p3, {"spi_bus_initialize"})
  <2>1. Met({}, "spi_bus_initialize") /\ Apart("spi_bus_initialize", "checked")
    BY DEF Met, Start!Needs, Released, Apart, Start!Fallible
  <2> QED BY <2>1, One DEF Start!Checked
<1>2. Good({"spi_bus_initialize"}, p4, {"esp_lcd_new_panel_io_spi"})
  <2>1. /\ Met({"spi_bus_initialize"}, "esp_lcd_new_panel_io_spi")
        /\ Apart("esp_lcd_new_panel_io_spi", "plain")
    BY DEF Met, Start!Needs, Released, Apart, Start!Fallible
  <2> QED BY <2>1, One DEF Start!Plain
<1>3. Good({"esp_lcd_new_panel_io_spi"}, p5, {"esp_lcd_new_panel_gc9a01"})
  <2>1. /\ Met({"esp_lcd_new_panel_io_spi"}, "esp_lcd_new_panel_gc9a01")
        /\ Apart("esp_lcd_new_panel_gc9a01", "checked")
    BY DEF Met, Start!Needs, Released, Apart, Start!Fallible
  <2> QED BY <2>1, One DEF Start!Checked
<1>4. Good({}, p6, {"esp_lcd_panel_reset", "esp_lcd_panel_init",
           "esp_lcd_panel_invert_color", "esp_lcd_panel_disp_on_off"})
  <2>1. /\ Met({}, "esp_lcd_panel_reset") /\ Apart("esp_lcd_panel_reset", "plain")
        /\ Met({}, "esp_lcd_panel_init") /\ Apart("esp_lcd_panel_init", "plain")
        /\ Met({}, "esp_lcd_panel_invert_color")
        /\ Apart("esp_lcd_panel_invert_color", "plain")
        /\ Met({}, "esp_lcd_panel_disp_on_off")
        /\ Apart("esp_lcd_panel_disp_on_off", "plain")
    BY DEF Met, Start!Needs, Released, Apart, Start!Fallible
  <2> QED BY <2>1, FourAlike DEF Start!Plain
<1> HIDE DEF p3, p4, p5, p6
<1>5. Good({},
           Start!Brightness \o Start!I2c,
           {"ledc_channel_config", "i2c_driver_install"})
  BY BrightnessGood, I2cGood, FollowTo, Zenon
<1>6. Good({},
           Start!Brightness \o Start!I2c \o p3,
           {"ledc_channel_config", "i2c_driver_install", "spi_bus_initialize"})
  <2>1. {} \subseteq {} \cup {"ledc_channel_config", "i2c_driver_install"}
    OBVIOUS
  <2>2. {"ledc_channel_config", "i2c_driver_install", "spi_bus_initialize"}
       \subseteq {"ledc_channel_config", "i2c_driver_install"} \cup {"spi_bus_initialize"}
    OBVIOUS
  <2> QED BY <2>1, <2>2, <1>5, <1>1, FollowTo
<1>7. Good({},
           Start!Brightness \o Start!I2c \o p3 \o p4,
           {"ledc_channel_config", "i2c_driver_install", "esp_lcd_new_panel_io_spi"})
  <2>1. {"spi_bus_initialize"}
       \subseteq {} \cup {"ledc_channel_config", "i2c_driver_install",
              "spi_bus_initialize"}
    OBVIOUS
  <2>2. {"ledc_channel_config", "i2c_driver_install", "esp_lcd_new_panel_io_spi"}
       \subseteq {"ledc_channel_config", "i2c_driver_install",
              "spi_bus_initialize"} \cup {"esp_lcd_new_panel_io_spi"}
    OBVIOUS
  <2> QED BY <2>1, <2>2, <1>6, <1>2, FollowTo
<1>8. Good({},
           Start!Brightness \o Start!I2c \o p3 \o p4 \o p5,
           {"ledc_channel_config", "i2c_driver_install"})
  <2>1. {"esp_lcd_new_panel_io_spi"}
       \subseteq {} \cup {"ledc_channel_config", "i2c_driver_install",
              "esp_lcd_new_panel_io_spi"}
    OBVIOUS
  <2>2. {"ledc_channel_config", "i2c_driver_install"}
       \subseteq {"ledc_channel_config", "i2c_driver_install",
              "esp_lcd_new_panel_io_spi"} \cup {"esp_lcd_new_panel_gc9a01"}
    OBVIOUS
  <2> QED BY <2>1, <2>2, <1>7, <1>3, FollowTo
<1>9. Good({},
           Start!Brightness \o Start!I2c \o p3 \o p4 \o p5 \o p6,
           {"ledc_channel_config", "i2c_driver_install"})
  <2>1. {} \subseteq {} \cup {"ledc_channel_config", "i2c_driver_install"}
    OBVIOUS
  <2>2. {"ledc_channel_config", "i2c_driver_install"}
       \subseteq {"ledc_channel_config",
              "i2c_driver_install"} \cup {"esp_lcd_panel_reset", "esp_lcd_panel_init",
              "esp_lcd_panel_invert_color", "esp_lcd_panel_disp_on_off"}
    OBVIOUS
  <2> QED BY <2>1, <2>2, <1>8, <1>4, FollowTo
<1> QED BY <1>9 DEF p3, p4, p5, p6, Start!Panel

(* all of it; *)
LEMMA DisplayGood ==
  ASSUME app = "master_recv"
  PROVE  Good({}, Start!Display, {"lvgl_port_init", "lvgl_port_add_disp",
              "ledc_channel_config"})
<1> DEFINE p1 == Start!Checked(<<"lvgl_port_init">>)
<1>1. Good({}, p1, {"lvgl_port_init"})
  <2>1. Met({}, "lvgl_port_init") /\ Apart("lvgl_port_init", "checked")
    BY DEF Met, Start!Needs, Released, Apart, Start!Fallible
  <2> QED BY <2>1, One DEF Start!Checked
<1>2. Good({"lvgl_port_init"}, Start!Screen, {"lvgl_port_add_disp", "i2c_driver_install"})
  <2> DEFINE q == Start!Plain(<<"esp_lcd_panel_disp_on_off">>)
           r == Start!Checked(<<"lvgl_port_add_disp">>)
  <2>1. Good({}, q, {"esp_lcd_panel_disp_on_off"})
    <3>1. Met({}, "esp_lcd_panel_disp_on_off") /\ Apart("esp_lcd_panel_disp_on_off", "plain")
      BY DEF Met, Start!Needs, Released, Apart, Start!Fallible
    <3> QED BY <3>1, One DEF Start!Plain
  <2>2. Good({"lvgl_port_init"}, r, {"lvgl_port_add_disp"})
    <3>1. Met({"lvgl_port_init"}, "lvgl_port_add_disp") /\ Apart("lvgl_port_add_disp", "checked")
      BY DEF Met, Start!Needs, Released, Apart, Start!Fallible
    <3> QED BY <3>1, One DEF Start!Checked
  <2> HIDE DEF q, r
  <2>3. Good({}, Start!Panel \o q, {"i2c_driver_install"})
    BY <2>1, PanelGood, FollowTo, Zenon
  <2>4. Good({"lvgl_port_init"}, Start!Panel \o q, {"i2c_driver_install"})
    <3>1. {} \subseteq {"lvgl_port_init"} /\ {"i2c_driver_install"} \subseteq {"i2c_driver_install"}
      OBVIOUS
    <3> QED BY <2>3, <3>1, Less
  <2>5. Good({"lvgl_port_init"}, Start!Panel \o q \o r,
             {"lvgl_port_add_disp", "i2c_driver_install"})
    BY <2>2, <2>4, FollowTo, Zenon
  <2> QED BY <2>5 DEF q, r, Start!Screen
<1>3. Good({"i2c_driver_install"}, Start!Touch, {})
  <2>1. Good({"i2c_driver_install"}, Start!Touch,
             {"esp_lcd_new_panel_io_i2c", "esp_lcd_touch_new_i2c_cst816s", "lvgl_port_add_touch"})
    <3>1. /\ Met({"i2c_driver_install"}, "esp_lcd_new_panel_io_i2c")
          /\ Apart("esp_lcd_new_panel_io_i2c", "checked")
          /\ Met({"i2c_driver_install"}, "esp_lcd_touch_new_i2c_cst816s")
          /\ Apart("esp_lcd_touch_new_i2c_cst816s", "checked")
          /\ Met({"i2c_driver_install"}, "lvgl_port_add_touch")
          /\ Apart("lvgl_port_add_touch", "checked")
      BY DEF Met, Start!Needs, Released, Apart, Start!Fallible
    <3> QED BY <3>1, ThreeAlike DEF Start!Touch, Start!Checked
  <2> QED BY <2>1, Narrow
<1> HIDE DEF p1
<1>4. Good({}, p1 \o Start!Brightness, {"lvgl_port_init", "ledc_channel_config"})
  BY <1>1, BrightnessGood, FollowTo, Zenon
<1>5. Good({},
           p1 \o Start!Brightness \o Start!Screen,
           {"lvgl_port_init", "ledc_channel_config", "lvgl_port_add_disp",
               "i2c_driver_install"})
  <2>1. {"lvgl_port_init"} \subseteq {} \cup {"lvgl_port_init", "ledc_channel_config"}
    OBVIOUS
  <2>2. {"lvgl_port_init", "ledc_channel_config", "lvgl_port_add_disp",
              "i2c_driver_install"}
       \subseteq {"lvgl_port_init", "ledc_channel_config"} \cup {"lvgl_port_add_disp",
              "i2c_driver_install"}
    OBVIOUS
  <2> QED BY <2>1, <2>2, <1>4, <1>2, FollowTo
<1>6. Good({},
           p1 \o Start!Brightness \o Start!Screen \o Start!Touch,
           {"lvgl_port_init", "lvgl_port_add_disp", "ledc_channel_config"})
  <2>1. {"i2c_driver_install"}
       \subseteq {} \cup {"lvgl_port_init", "ledc_channel_config", "lvgl_port_add_disp",
              "i2c_driver_install"}
    OBVIOUS
  <2>2. {"lvgl_port_init", "lvgl_port_add_disp", "ledc_channel_config"}
       \subseteq {"lvgl_port_init", "ledc_channel_config", "lvgl_port_add_disp",
              "i2c_driver_install"} \cup {}
    OBVIOUS
  <2> QED BY <2>1, <2>2, <1>5, <1>3, FollowTo
<1> QED BY <1>6 DEF p1, Start!Display

(* its reception, *)
LEMMA MasterCsiGood ==
  ASSUME app = "master_recv"
  PROVE  Good({"esp_wifi_init"}, Start!MasterCsi, {"csi_recv_queue", "csi_display_queue"})
<1> DEFINE p1 == Start!Checked(<<"esp_wifi_set_promiscuous">>)
           p2 == Start!Plain(<<"csi_recv_queue", "csi_display_queue">>)
<1>1. Good({"esp_wifi_init"}, p1, {"esp_wifi_set_promiscuous"})
  <2>1. /\ Met({"esp_wifi_init"}, "esp_wifi_set_promiscuous")
        /\ Apart("esp_wifi_set_promiscuous", "checked")
    BY DEF Met, Start!Needs, Released, Apart, Start!Fallible
  <2> QED BY <2>1, One DEF Start!Checked
<1>2. Good({}, p2, {"csi_recv_queue", "csi_display_queue"})
  <2>1. /\ Met({}, "csi_recv_queue") /\ Apart("csi_recv_queue", "plain")
        /\ Met({}, "csi_display_queue") /\ Apart("csi_display_queue", "plain")
    BY DEF Met, Start!Needs, Released, Apart, Start!Fallible
  <2> QED BY <2>1, TwoAlike DEF Start!Plain
<1>3. Good({"esp_wifi_init", "csi_recv_queue"}, Start!Csi, {})
  <2>1. Released("esp_wifi_set_csi") \subseteq {"csi_recv_queue"}
    BY DEF Released
  <2>2. {"esp_wifi_init"} \cup Released("esp_wifi_set_csi") \subseteq {"esp_wifi_init", "csi_recv_queue"}
    BY <2>1, Zenon
  <2>3. {} \subseteq {}
    OBVIOUS
  <2> QED BY <2>2, <2>3, CsiGood, Less, Zenon
<1> HIDE DEF p1, p2
<1>4. Good({"esp_wifi_init"}, p1 \o p2, {"csi_recv_queue", "csi_display_queue"})
  <2>1. {} \subseteq {"esp_wifi_init"} \cup {"esp_wifi_set_promiscuous"}
    OBVIOUS
  <2>2. {"csi_recv_queue", "csi_display_queue"}
       \subseteq {"esp_wifi_set_promiscuous"} \cup {"csi_recv_queue", "csi_display_queue"}
    OBVIOUS
  <2> QED BY <2>1, <2>2, <1>1, <1>2, FollowTo
<1>5. Good({"esp_wifi_init"},
           p1 \o p2 \o Start!Csi,
           {"csi_recv_queue", "csi_display_queue"})
  <2>1. {"esp_wifi_init", "csi_recv_queue"}
       \subseteq {"esp_wifi_init"} \cup {"csi_recv_queue", "csi_display_queue"}
    OBVIOUS
  <2>2. {"csi_recv_queue", "csi_display_queue"}
       \subseteq {"csi_recv_queue", "csi_display_queue"} \cup {}
    OBVIOUS
  <2> QED BY <2>1, <2>2, <1>4, <1>3, FollowTo
<1> QED BY <1>5 DEF p1, p2, Start!MasterCsi

(* its link, *)
LEMMA MasterUartGood == Good({}, Start!MasterUart, {"uart_recv_queue"})
<1> DEFINE p2 == Start!Plain(<<"uart_recv_queue", "uart_event_task">>)
<1>1. Good({"uart_driver_install"}, p2, {"uart_recv_queue", "uart_event_task"})
  <2>1. /\ Met({"uart_driver_install"}, "uart_recv_queue")
        /\ Met({"uart_driver_install"} \cup {"uart_recv_queue"}, "uart_event_task")
    BY DEF Met, Start!Needs, Released
  <2>2. \A c \in {"uart_recv_queue", "uart_event_task"} : Apart(c, "plain")
    BY DEF Apart, Start!Fallible
  <2> QED BY <2>1, <2>2, Two DEF Start!Plain
<1> HIDE DEF p2
<1>2. Good({}, Start!Uart \o p2, {"uart_recv_queue"})
  <2>1. {"uart_driver_install"} \subseteq {} \cup {"uart_driver_install"}
    OBVIOUS
  <2>2. {"uart_recv_queue"}
       \subseteq {"uart_driver_install"} \cup {"uart_recv_queue", "uart_event_task"}
    OBVIOUS
  <2> QED BY <2>1, <2>2, UartGood, <1>1, FollowTo
<1> QED BY <1>2 DEF p2, Start!MasterUart

(* and master_recv itself; *)
LEMMA MasterRecvGood ==
  ASSUME app = "master_recv"
  PROVE  Good({}, Start!MasterRecv, {})
<1> DEFINE p2 == Start!Plain(<<"bsp_slave_reset">>)
           p4 == Start!Plain(<<"lvgl_port_lock", "ui_init", "lvgl_port_unlock",
                    "bsp_display_backlight_on">>)
           p11 == Start!Plain(<<"process_csi_data_task", "csi_data_display_task">>)
<1>1. Good({}, p2, {"bsp_slave_reset"})
  <2>1. Met({}, "bsp_slave_reset") /\ Apart("bsp_slave_reset", "plain")
    BY DEF Met, Start!Needs, Released, Apart, Start!Fallible
  <2> QED BY <2>1, One DEF Start!Plain
<1>2. Good({"lvgl_port_init", "lvgl_port_add_disp", "ledc_channel_config"}, p4,
           {"lvgl_port_lock", "ui_init", "lvgl_port_unlock", "bsp_display_backlight_on"})
  <2>1. /\ Met({"lvgl_port_init", "lvgl_port_add_disp", "ledc_channel_config"},
                "lvgl_port_lock")
        /\ Met({"lvgl_port_init", "lvgl_port_add_disp",
                "ledc_channel_config"} \cup {"lvgl_port_lock"}, "ui_init")
        /\ Met({"lvgl_port_init", "lvgl_port_add_disp",
                "ledc_channel_config"} \cup {"lvgl_port_lock", "ui_init"},
                "lvgl_port_unlock")
        /\ Met({"lvgl_port_init", "lvgl_port_add_disp",
                "ledc_channel_config"} \cup {"lvgl_port_lock", "ui_init",
                "lvgl_port_unlock"}, "bsp_display_backlight_on")
    BY DEF Met, Start!Needs, Released
  <2>2. \A c \in {"lvgl_port_lock", "ui_init", "lvgl_port_unlock",
                  "bsp_display_backlight_on"} : Apart(c, "plain")
    BY DEF Apart, Start!Fallible
  <2> QED BY <2>1, <2>2, Four DEF Start!Plain
<1>3. Good({"nvs_flash_init"}, Start!MasterRadio, {"esp_wifi_init", "esp_wifi_start"})
  BY CrabGood DEF Start!MasterRadio
<1>4. Good({"esp_wifi_start"}, Start!MasterEspNow, {"esp_now_add_peer"})
  BY EspNowGood DEF Start!MasterEspNow
<1>5. Good({}, Start!MasterGpio, {})
  BY GpioGood DEF Start!MasterGpio
<1>6. Good({"csi_recv_queue", "csi_display_queue", "uart_recv_queue", "ui_init"}, p11,
           {"process_csi_data_task", "csi_data_display_task"})
  <2>1. /\ Met({"csi_recv_queue", "csi_display_queue", "uart_recv_queue", "ui_init"},
               "process_csi_data_task")
        /\ Apart("process_csi_data_task", "plain")
        /\ Met({"csi_recv_queue", "csi_display_queue", "uart_recv_queue", "ui_init"},
               "csi_data_display_task")
        /\ Apart("csi_data_display_task", "plain")
    BY DEF Met, Start!Needs, Released, Apart, Start!Fallible
  <2> QED BY <2>1, TwoAlike DEF Start!Plain
<1> HIDE DEF p2, p4, p11
<1>7. Good({}, Start!NvsInit \o p2, {"nvs_flash_init"})
  BY NvsGood, <1>1, FollowTo, Zenon
<1>8. Good({},
           Start!NvsInit \o p2 \o Start!Display,
           {"nvs_flash_init", "lvgl_port_init", "lvgl_port_add_disp",
               "ledc_channel_config"})
  <2>1. {} \subseteq {} \cup {"nvs_flash_init"}
    OBVIOUS
  <2>2. {"nvs_flash_init", "lvgl_port_init", "lvgl_port_add_disp", "ledc_channel_config"}
       \subseteq {"nvs_flash_init"} \cup {"lvgl_port_init", "lvgl_port_add_disp",
              "ledc_channel_config"}
    OBVIOUS
  <2> QED BY <2>1, <2>2, <1>7, DisplayGood, FollowTo
<1>9. Good({},
           Start!NvsInit \o p2 \o Start!Display \o p4,
           {"nvs_flash_init", "ui_init"})
  <2>1. {"lvgl_port_init", "lvgl_port_add_disp", "ledc_channel_config"}
       \subseteq {} \cup {"nvs_flash_init", "lvgl_port_init", "lvgl_port_add_disp",
              "ledc_channel_config"}
    OBVIOUS
  <2>2. {"nvs_flash_init", "ui_init"}
       \subseteq {"nvs_flash_init", "lvgl_port_init", "lvgl_port_add_disp",
              "ledc_channel_config"} \cup {"lvgl_port_lock", "ui_init",
              "lvgl_port_unlock", "bsp_display_backlight_on"}
    OBVIOUS
  <2> QED BY <2>1, <2>2, <1>8, <1>2, FollowTo
<1>10. Good({},
           Start!NvsInit \o p2 \o Start!Display \o p4 \o Start!MasterRadio,
           {"ui_init", "esp_wifi_init", "esp_wifi_start"})
  <2>1. {"nvs_flash_init"} \subseteq {} \cup {"nvs_flash_init", "ui_init"}
    OBVIOUS
  <2>2. {"ui_init", "esp_wifi_init", "esp_wifi_start"}
       \subseteq {"nvs_flash_init", "ui_init"} \cup {"esp_wifi_init", "esp_wifi_start"}
    OBVIOUS
  <2> QED BY <2>1, <2>2, <1>9, <1>3, FollowTo
<1>11. Good({},
           Start!NvsInit \o p2 \o Start!Display \o p4 \o Start!MasterRadio
           \o Start!MasterEspNow,
           {"ui_init", "esp_wifi_init"})
  <2>1. {"esp_wifi_start"}
       \subseteq {} \cup {"ui_init", "esp_wifi_init", "esp_wifi_start"}
    OBVIOUS
  <2>2. {"ui_init", "esp_wifi_init"}
       \subseteq {"ui_init", "esp_wifi_init", "esp_wifi_start"} \cup {"esp_now_add_peer"}
    OBVIOUS
  <2> QED BY <2>1, <2>2, <1>10, <1>4, FollowTo
<1>12. Good({},
           Start!NvsInit \o p2 \o Start!Display \o p4 \o Start!MasterRadio
           \o Start!MasterEspNow \o Start!MasterGpio,
           {"ui_init", "esp_wifi_init"})
  BY <1>11, <1>5, FollowTo, Zenon
<1>13. Good({},
           Start!NvsInit \o p2 \o Start!Display \o p4 \o Start!MasterRadio
           \o Start!MasterEspNow \o Start!MasterGpio \o Start!MasterCsi,
           {"ui_init", "csi_recv_queue", "csi_display_queue"})
  <2>1. {"esp_wifi_init"} \subseteq {} \cup {"ui_init", "esp_wifi_init"}
    OBVIOUS
  <2>2. {"ui_init", "csi_recv_queue", "csi_display_queue"}
       \subseteq {"ui_init", "esp_wifi_init"} \cup {"csi_recv_queue", "csi_display_queue"}
    OBVIOUS
  <2> QED BY <2>1, <2>2, <1>12, MasterCsiGood, FollowTo
<1>14. Good({},
           Start!NvsInit \o p2 \o Start!Display \o p4 \o Start!MasterRadio
           \o Start!MasterEspNow \o Start!MasterGpio \o Start!MasterCsi
           \o Start!MasterUart,
           {"ui_init", "csi_recv_queue", "csi_display_queue", "uart_recv_queue"})
  <2>1. {} \subseteq {} \cup {"ui_init", "csi_recv_queue", "csi_display_queue"}
    OBVIOUS
  <2>2. {"ui_init", "csi_recv_queue", "csi_display_queue", "uart_recv_queue"}
       \subseteq {"ui_init", "csi_recv_queue",
              "csi_display_queue"} \cup {"uart_recv_queue"}
    OBVIOUS
  <2> QED BY <2>1, <2>2, <1>13, MasterUartGood, FollowTo
<1>15. Good({},
           Start!NvsInit \o p2 \o Start!Display \o p4 \o Start!MasterRadio
           \o Start!MasterEspNow \o Start!MasterGpio \o Start!MasterCsi
           \o Start!MasterUart \o Start!Led,
           {"ui_init", "csi_recv_queue", "csi_display_queue", "uart_recv_queue"})
  <2>1. {}
       \subseteq {} \cup {"ui_init", "csi_recv_queue", "csi_display_queue",
              "uart_recv_queue"}
    OBVIOUS
  <2>2. {"ui_init", "csi_recv_queue", "csi_display_queue", "uart_recv_queue"}
       \subseteq {"ui_init", "csi_recv_queue", "csi_display_queue",
              "uart_recv_queue"} \cup {}
    OBVIOUS
  <2> QED BY <2>1, <2>2, <1>14, LedGood, FollowTo
<1>16. Good({},
           Start!NvsInit \o p2 \o Start!Display \o p4 \o Start!MasterRadio
           \o Start!MasterEspNow \o Start!MasterGpio \o Start!MasterCsi
           \o Start!MasterUart \o Start!Led \o p11,
           {})
  <2>1. {"csi_recv_queue", "csi_display_queue", "uart_recv_queue", "ui_init"}
       \subseteq {} \cup {"ui_init", "csi_recv_queue", "csi_display_queue",
              "uart_recv_queue"}
    OBVIOUS
  <2>2. {}
       \subseteq {"ui_init", "csi_recv_queue", "csi_display_queue",
              "uart_recv_queue"} \cup {"process_csi_data_task", "csi_data_display_task"}
    OBVIOUS
  <2> QED BY <2>1, <2>2, <1>15, <1>6, FollowTo
<1> QED BY <1>16 DEF p2, p4, p11, Start!MasterRecv

(* the radio of console_test, *)
LEMMA ConsoleRadioGood == Good({}, Start!ConsoleRadio, {"esp_wifi_init",
                  "esp_wifi_start"})
<1> DEFINE p2 == Start!Checked(<<"esp_netif_init", "esp_wifi_init",
                    "esp_event_loop_create_default", "esp_wifi_set_storage",
                    "esp_wifi_set_mode", "esp_wifi_start">>)
           p3 == Start!Plain(<<"esp_netif_create_default_wifi_sta">>)
           p4 == Start!Checked(<<"esp_wifi_set_ps", "esp_wifi_set_protocol",
                    "esp_wifi_set_channel", "esp_wifi_set_promiscuous">>)
<1>1. Good({"nvs_flash_init"}, p2, {"esp_netif_init", "esp_wifi_init",
           "esp_event_loop_create_default", "esp_wifi_set_storage", "esp_wifi_set_mode",
           "esp_wifi_start"})
  <2>1. /\ Met({"nvs_flash_init"}, "esp_netif_init")
        /\ Met({"nvs_flash_init"} \cup {"esp_netif_init"}, "esp_wifi_init")
        /\ Met({"nvs_flash_init"} \cup {"esp_netif_init", "esp_wifi_init"},
                "esp_event_loop_create_default")
        /\ Met({"nvs_flash_init"} \cup {"esp_netif_init", "esp_wifi_init",
                "esp_event_loop_create_default"}, "esp_wifi_set_storage")
        /\ Met({"nvs_flash_init"} \cup {"esp_netif_init", "esp_wifi_init",
                "esp_event_loop_create_default", "esp_wifi_set_storage"},
                "esp_wifi_set_mode")
        /\ Met({"nvs_flash_init"} \cup {"esp_netif_init", "esp_wifi_init",
                "esp_event_loop_create_default", "esp_wifi_set_storage",
                "esp_wifi_set_mode"}, "esp_wifi_start")
    BY DEF Met, Start!Needs, Released
  <2>2. \A c \in {"esp_netif_init", "esp_wifi_init", "esp_event_loop_create_default",
                  "esp_wifi_set_storage", "esp_wifi_set_mode",
                  "esp_wifi_start"} : Apart(c, "checked")
    BY DEF Apart, Start!Fallible
  <2> QED BY <2>1, <2>2, Six DEF Start!Checked
<1>2. Good({"esp_netif_init", "esp_event_loop_create_default"}, p3,
           {"esp_netif_create_default_wifi_sta"})
  <2>1. /\ Met({"esp_netif_init", "esp_event_loop_create_default"},
               "esp_netif_create_default_wifi_sta")
        /\ Apart("esp_netif_create_default_wifi_sta", "plain")
    BY DEF Met, Start!Needs, Released, Apart, Start!Fallible
  <2> QED BY <2>1, One DEF Start!Plain
<1>3. Good({"esp_wifi_init", "esp_wifi_start"}, p4, {"esp_wifi_set_ps",
           "esp_wifi_set_protocol", "esp_wifi_set_channel", "esp_wifi_set_promiscuous"})
  <2>1. /\ Met({"esp_wifi_init", "esp_wifi_start"}, "esp_wifi_set_ps")
        /\ Apart("esp_wifi_set_ps", "checked")
        /\ Met({"esp_wifi_init", "esp_wifi_start"}, "esp_wifi_set_protocol")
        /\ Apart("esp_wifi_set_protocol", "checked")
        /\ Met({"esp_wifi_init", "esp_wifi_start"}, "esp_wifi_set_channel")
        /\ Apart("esp_wifi_set_channel", "checked")
        /\ Met({"esp_wifi_init", "esp_wifi_start"}, "esp_wifi_set_promiscuous")
        /\ Apart("esp_wifi_set_promiscuous", "checked")
    BY DEF Met, Start!Needs, Released, Apart, Start!Fallible
  <2> QED BY <2>1, FourAlike DEF Start!Checked
<1> HIDE DEF p2, p3, p4
<1>4. Good({},
           Start!NvsInit \o p2,
           {"esp_netif_init", "esp_wifi_init", "esp_event_loop_create_default",
               "esp_wifi_start"})
  <2>1. {"nvs_flash_init"} \subseteq {} \cup {"nvs_flash_init"}
    OBVIOUS
  <2>2. {"esp_netif_init", "esp_wifi_init", "esp_event_loop_create_default",
              "esp_wifi_start"}
       \subseteq {"nvs_flash_init"} \cup {"esp_netif_init", "esp_wifi_init",
              "esp_event_loop_create_default", "esp_wifi_set_storage",
              "esp_wifi_set_mode", "esp_wifi_start"}
    OBVIOUS
  <2> QED BY <2>1, <2>2, NvsGood, <1>1, FollowTo
<1>5. Good({}, Start!NvsInit \o p2 \o p3, {"esp_wifi_init", "esp_wifi_start"})
  <2>1. {"esp_netif_init", "esp_event_loop_create_default"}
       \subseteq {} \cup {"esp_netif_init", "esp_wifi_init",
              "esp_event_loop_create_default", "esp_wifi_start"}
    OBVIOUS
  <2>2. {"esp_wifi_init", "esp_wifi_start"}
       \subseteq {"esp_netif_init", "esp_wifi_init", "esp_event_loop_create_default",
              "esp_wifi_start"} \cup {"esp_netif_create_default_wifi_sta"}
    OBVIOUS
  <2> QED BY <2>1, <2>2, <1>4, <1>2, FollowTo
<1>6. Good({}, Start!NvsInit \o p2 \o p3 \o p4, {"esp_wifi_init", "esp_wifi_start"})
  <2>1. {"esp_wifi_init", "esp_wifi_start"}
       \subseteq {} \cup {"esp_wifi_init", "esp_wifi_start"}
    OBVIOUS
  <2>2. {"esp_wifi_init", "esp_wifi_start"}
       \subseteq {"esp_wifi_init", "esp_wifi_start"} \cup {"esp_wifi_set_ps",
              "esp_wifi_set_protocol", "esp_wifi_set_channel", "esp_wifi_set_promiscuous"}
    OBVIOUS
  <2> QED BY <2>1, <2>2, <1>5, <1>3, FollowTo
<1> QED BY <1>6 DEF p2, p3, p4, Start!ConsoleRadio

(* its commands, *)
LEMMA SystemCommandsGood == Good({}, Start!SystemCommands, {})
<1>1. /\ Met({}, "version") /\ Apart("version", "checked")
      /\ Met({}, "heap") /\ Apart("heap", "checked")
      /\ Met({}, "restart") /\ Apart("restart", "checked")
      /\ Met({}, "reset") /\ Apart("reset", "checked")
      /\ Met({}, "log") /\ Apart("log", "checked")
  BY DEF Met, Start!Needs, Released, Apart, Start!Fallible
<1>2. Good({}, Start!SystemCommands, {"version", "heap", "restart", "reset", "log"})
  BY <1>1, FiveAlike DEF Start!SystemCommands, Start!Checked
<1> QED BY <1>2, Narrow

(* and console_test itself; *)
LEMMA ConsoleTestGood == Good({}, Start!ConsoleTest, {})
<1> DEFINE p1 == Start!Plain(<<"ws2812_led_init", "ws2812_led_clear">>)
           p2 == Start!Checked(<<"esp_console_new_repl_uart">>)
           p4 == Start!Checked(<<"IP_EVENT handler", "WIFI_EVENT handler", "ping">>)
           p6 == Start!Checked(<<"wifi_config", "wifi_scan", "radar",
                    "esp_console_start_repl">>)
           p7 == Start!Plain(<<"esp_radar_init", "esp_radar_set_config",
                    "esp_radar_start", "g_csi_info_queue", "csi_data_print_task">>)
<1>1. Good({}, p1, {"ws2812_led_init", "ws2812_led_clear"})
  <2>1. /\ Met({}, "ws2812_led_init") /\ Apart("ws2812_led_init", "plain")
        /\ Met({}, "ws2812_led_clear") /\ Apart("ws2812_led_clear", "plain")
    BY DEF Met, Start!Needs, Released, Apart, Start!Fallible
  <2> QED BY <2>1, TwoAlike DEF Start!Plain
<1>2. Good({}, p2, {"esp_console_new_repl_uart"})
  <2>1. /\ Met({}, "esp_console_new_repl_uart")
        /\ Apart("esp_console_new_repl_uart", "checked")
    BY DEF Met, Start!Needs, Released, Apart, Start!Fallible
  <2> QED BY <2>1, One DEF Start!Checked
<1>3. Good({}, p4, {})
  <2>1. Good({}, p4, {"IP_EVENT handler", "WIFI_EVENT handler", "ping"})
    <3>1. /\ Met({}, "IP_EVENT handler") /\ Apart("IP_EVENT handler", "checked")
          /\ Met({}, "WIFI_EVENT handler") /\ Apart("WIFI_EVENT handler", "checked")
          /\ Met({}, "ping") /\ Apart("ping", "checked")
      BY DEF Met, Start!Needs, Released, Apart, Start!Fallible
    <3> QED BY <3>1, ThreeAlike DEF Start!Checked
  <2> QED BY <2>1, Narrow
<1>4. Good({"esp_console_new_repl_uart", "esp_wifi_start"}, p6, {"wifi_config",
           "wifi_scan", "radar", "esp_console_start_repl"})
  <2>1. /\ Met({"esp_console_new_repl_uart", "esp_wifi_start"}, "wifi_config")
        /\ Apart("wifi_config", "checked")
        /\ Met({"esp_console_new_repl_uart", "esp_wifi_start"}, "wifi_scan")
        /\ Apart("wifi_scan", "checked")
        /\ Met({"esp_console_new_repl_uart", "esp_wifi_start"}, "radar")
        /\ Apart("radar", "checked")
        /\ Met({"esp_console_new_repl_uart", "esp_wifi_start"}, "esp_console_start_repl")
        /\ Apart("esp_console_start_repl", "checked")
    BY DEF Met, Start!Needs, Released, Apart, Start!Fallible
  <2> QED BY <2>1, FourAlike DEF Start!Checked
<1>5. Good({"esp_wifi_init"}, p7, {"esp_radar_init", "esp_radar_set_config",
           "esp_radar_start", "g_csi_info_queue", "csi_data_print_task"})
  <2>1. /\ Met({"esp_wifi_init"}, "esp_radar_init")
        /\ Met({"esp_wifi_init"} \cup {"esp_radar_init"}, "esp_radar_set_config")
        /\ Met({"esp_wifi_init"} \cup {"esp_radar_init", "esp_radar_set_config"},
                "esp_radar_start")
        /\ Met({"esp_wifi_init"} \cup {"esp_radar_init", "esp_radar_set_config",
                "esp_radar_start"}, "g_csi_info_queue")
        /\ Met({"esp_wifi_init"} \cup {"esp_radar_init", "esp_radar_set_config",
                "esp_radar_start", "g_csi_info_queue"}, "csi_data_print_task")
    BY DEF Met, Start!Needs, Released
  <2>2. \A c \in {"esp_radar_init", "esp_radar_set_config", "esp_radar_start",
                  "g_csi_info_queue", "csi_data_print_task"} : Apart(c, "plain")
    BY DEF Apart, Start!Fallible
  <2> QED BY <2>1, <2>2, Five DEF Start!Plain
<1> HIDE DEF p1, p2, p4, p6, p7
<1>6. Good({}, p1 \o p2, {"esp_console_new_repl_uart"})
  BY <1>1, <1>2, FollowTo, Zenon
<1>7. Good({},
           p1 \o p2 \o Start!ConsoleRadio,
           {"esp_console_new_repl_uart", "esp_wifi_init", "esp_wifi_start"})
  <2>1. {} \subseteq {} \cup {"esp_console_new_repl_uart"}
    OBVIOUS
  <2>2. {"esp_console_new_repl_uart", "esp_wifi_init", "esp_wifi_start"}
       \subseteq {"esp_console_new_repl_uart"} \cup {"esp_wifi_init", "esp_wifi_start"}
    OBVIOUS
  <2> QED BY <2>1, <2>2, <1>6, ConsoleRadioGood, FollowTo
<1>8. Good({},
           p1 \o p2 \o Start!ConsoleRadio \o p4,
           {"esp_console_new_repl_uart", "esp_wifi_init", "esp_wifi_start"})
  <2>1. {}
       \subseteq {} \cup {"esp_console_new_repl_uart", "esp_wifi_init", "esp_wifi_start"}
    OBVIOUS
  <2>2. {"esp_console_new_repl_uart", "esp_wifi_init", "esp_wifi_start"}
       \subseteq {"esp_console_new_repl_uart", "esp_wifi_init", "esp_wifi_start"} \cup {}
    OBVIOUS
  <2> QED BY <2>1, <2>2, <1>7, <1>3, FollowTo
<1>9. Good({},
           p1 \o p2 \o Start!ConsoleRadio \o p4 \o Start!SystemCommands,
           {"esp_console_new_repl_uart", "esp_wifi_init", "esp_wifi_start"})
  <2>1. {}
       \subseteq {} \cup {"esp_console_new_repl_uart", "esp_wifi_init", "esp_wifi_start"}
    OBVIOUS
  <2>2. {"esp_console_new_repl_uart", "esp_wifi_init", "esp_wifi_start"}
       \subseteq {"esp_console_new_repl_uart", "esp_wifi_init", "esp_wifi_start"} \cup {}
    OBVIOUS
  <2> QED BY <2>1, <2>2, <1>8, SystemCommandsGood, FollowTo
<1>10. Good({},
           p1 \o p2 \o Start!ConsoleRadio \o p4 \o Start!SystemCommands \o p6,
           {"esp_wifi_init"})
  <2>1. {"esp_console_new_repl_uart", "esp_wifi_start"}
       \subseteq {} \cup {"esp_console_new_repl_uart", "esp_wifi_init", "esp_wifi_start"}
    OBVIOUS
  <2>2. {"esp_wifi_init"}
       \subseteq {"esp_console_new_repl_uart", "esp_wifi_init",
              "esp_wifi_start"} \cup {"wifi_config", "wifi_scan", "radar",
              "esp_console_start_repl"}
    OBVIOUS
  <2> QED BY <2>1, <2>2, <1>9, <1>4, FollowTo
<1>11. Good({},
           p1 \o p2 \o Start!ConsoleRadio \o p4 \o Start!SystemCommands \o p6 \o p7,
           {})
  <2>1. {"esp_wifi_init"} \subseteq {} \cup {"esp_wifi_init"}
    OBVIOUS
  <2>2. {}
       \subseteq {"esp_wifi_init"} \cup {"esp_radar_init", "esp_radar_set_config",
              "esp_radar_start", "g_csi_info_queue", "csi_data_print_task"}
    OBVIOUS
  <2> QED BY <2>1, <2>2, <1>10, <1>5, FollowTo
<1> QED BY <1>11 DEF p1, p2, p4, p6, p7, Start!ConsoleTest

(* connect_rainmaker: the radar, *)
LEMMA RadarStartGood == Good({"esp_wifi_init", "connected"}, Start!RadarStart, {})
<1>1. /\ Met({"esp_wifi_init", "connected"}, "esp_radar_init")
      /\ Met({"esp_wifi_init", "connected"} \cup {"esp_radar_init"},
              "esp_wifi_sta_get_ap_info")
      /\ Met({"esp_wifi_init", "connected"} \cup {"esp_radar_init",
              "esp_wifi_sta_get_ap_info"}, "esp_radar_set_config")
      /\ Met({"esp_wifi_init", "connected"} \cup {"esp_radar_init",
              "esp_wifi_sta_get_ap_info", "esp_radar_set_config"}, "esp_radar_start")
  BY DEF Met, Start!Needs, Released
<1>2. \A c \in {"esp_radar_init", "esp_wifi_sta_get_ap_info", "esp_radar_set_config",
                "esp_radar_start"} : Apart(c, "plain")
  BY DEF Apart, Start!Fallible
<1>3. Good({"esp_wifi_init", "connected"}, Start!RadarStart, {"esp_radar_init",
           "esp_wifi_sta_get_ap_info", "esp_radar_set_config", "esp_radar_start"})
  BY <1>1, <1>2, Four DEF Start!RadarStart, Start!Plain
<1> QED BY <1>3, Narrow

(* the ping, which fails if its session does, *)
LEMMA PingRouterGood ==
  ASSUME app = "connect_rainmaker" PROVE Good({"connected"}, Start!PingRouterStart, {})
<1>1. /\ Met({"connected"}, "esp_netif_get_ip_info")
      /\ Met({"connected"} \cup {"esp_netif_get_ip_info"}, "esp_ping_new_session")
      /\ Met({"connected"} \cup {"esp_netif_get_ip_info", "esp_ping_new_session"},
              "esp_ping_start")
  BY DEF Met, Start!Needs, Released
<1>2. \A c \in {"esp_netif_get_ip_info", "esp_ping_new_session",
                "esp_ping_start"} : Apart(c, "plain")
  BY DEF Apart, Start!Fallible
<1>3. Good({"connected"}, Start!PingRouterStart, {"esp_netif_get_ip_info",
           "esp_ping_new_session", "esp_ping_start"})
  BY <1>1, <1>2, Three DEF Start!PingRouterStart, Start!Plain
<1> QED BY <1>3, Narrow

(* and all of it. *)
LEMMA ConnectRainmakerGood ==
  ASSUME app = "connect_rainmaker"
  PROVE  Good({}, Start!ConnectRainmaker, {})
<1> DEFINE p1 == Start!Plain(<<"ws2812_led_init", "ws2812_led_clear",
                    "iot_button_create", "app_reset_button_register">>)
           p3 == Start!Plain(<<"nvs_open", "nvs_get_blob", "app_wifi_init">>)
           p4 == Start!Checked(<<"esp_rmaker_node_init">>)
           p5 == Start!Plain(<<"esp_rmaker_device_create">>)
           p6 == Start!Checked(<<"esp_rmaker_device_add_cb",
                    "esp_rmaker_device_add_param", "esp_rmaker_node_add_device",
                    "esp_rmaker_ota_enable_default">>)
           p7 == Start!Plain(<<"esp_rmaker_start">>)
           p8 == Start!Checked(<<"app_wifi_start">>)
<1>1. Good({}, p1, {"ws2812_led_init", "ws2812_led_clear", "iot_button_create",
           "app_reset_button_register"})
  <2>1. /\ Met({}, "ws2812_led_init") /\ Apart("ws2812_led_init", "plain")
        /\ Met({}, "ws2812_led_clear") /\ Apart("ws2812_led_clear", "plain")
        /\ Met({}, "iot_button_create") /\ Apart("iot_button_create", "plain")
        /\ Met({}, "app_reset_button_register")
        /\ Apart("app_reset_button_register", "plain")
    BY DEF Met, Start!Needs, Released, Apart, Start!Fallible
  <2> QED BY <2>1, FourAlike DEF Start!Plain
<1>2. Good({"nvs_flash_init"}, p3, {"app_wifi_init", "esp_wifi_init"})
  <2>1. Good({"nvs_flash_init"}, p3, {"nvs_open", "nvs_get_blob", "app_wifi_init"})
    <3>1. /\ Met({"nvs_flash_init"}, "nvs_open") /\ Apart("nvs_open", "plain")
          /\ Met({"nvs_flash_init"}, "nvs_get_blob") /\ Apart("nvs_get_blob", "plain")
          /\ Met({"nvs_flash_init"}, "app_wifi_init") /\ Apart("app_wifi_init", "plain")
      BY DEF Met, Start!Needs, Released, Apart, Start!Fallible
    <3> QED BY <3>1, ThreeAlike DEF Start!Plain
  <2>2. Good({"nvs_flash_init"}, p3, {"nvs_open", "nvs_get_blob",
             "app_wifi_init"} \cup {"esp_wifi_init"})
    BY <2>1, StationUp
  <2> QED BY <2>2, Narrow
<1>3. Good({"app_wifi_init"}, p4, {"esp_rmaker_node_init"})
  <2>1. /\ Met({"app_wifi_init"}, "esp_rmaker_node_init")
        /\ Apart("esp_rmaker_node_init", "checked")
    BY DEF Met, Start!Needs, Released, Apart, Start!Fallible
  <2> QED BY <2>1, One DEF Start!Checked
<1>4. Good({}, p5, {"esp_rmaker_device_create"})
  <2>1. Met({}, "esp_rmaker_device_create") /\ Apart("esp_rmaker_device_create", "plain")
    BY DEF Met, Start!Needs, Released, Apart, Start!Fallible
  <2> QED BY <2>1, One DEF Start!Plain
<1>5. Good({}, p6, {"esp_rmaker_device_add_cb", "esp_rmaker_device_add_param",
           "esp_rmaker_node_add_device", "esp_rmaker_ota_enable_default"})
  <2>1. /\ Met({}, "esp_rmaker_device_add_cb")
        /\ Apart("esp_rmaker_device_add_cb", "checked")
        /\ Met({}, "esp_rmaker_device_add_param")
        /\ Apart("esp_rmaker_device_add_param", "checked")
        /\ Met({}, "esp_rmaker_node_add_device")
        /\ Apart("esp_rmaker_node_add_device", "checked")
        /\ Met({}, "esp_rmaker_ota_enable_default")
        /\ Apart("esp_rmaker_ota_enable_default", "checked")
    BY DEF Met, Start!Needs, Released, Apart, Start!Fallible
  <2> QED BY <2>1, FourAlike DEF Start!Checked
<1>6. Good({}, p7, {"esp_rmaker_start"})
  <2>1. Met({}, "esp_rmaker_start") /\ Apart("esp_rmaker_start", "plain")
    BY DEF Met, Start!Needs, Released, Apart, Start!Fallible
  <2> QED BY <2>1, One DEF Start!Plain
<1>7. Good({"esp_rmaker_node_init"}, p8, {"esp_wifi_start", "connected"})
  <2>1. Good({"esp_rmaker_node_init"}, p8, {"app_wifi_start"})
    <3>1. /\ Met({"esp_rmaker_node_init"}, "app_wifi_start")
          /\ Apart("app_wifi_start", "checked")
      BY DEF Met, Start!Needs, Released, Apart, Start!Fallible
    <3> QED BY <3>1, One DEF Start!Checked
  <2> QED BY <2>1, StationUp
<1> HIDE DEF p1, p3, p4, p5, p6, p7, p8
<1>8. Good({}, p1 \o Start!NvsInit, {"nvs_flash_init"})
  <2>1. {}
       \subseteq {} \cup {"ws2812_led_init", "ws2812_led_clear", "iot_button_create",
              "app_reset_button_register"}
    OBVIOUS
  <2>2. {"nvs_flash_init"}
       \subseteq {"ws2812_led_init", "ws2812_led_clear", "iot_button_create",
              "app_reset_button_register"} \cup {"nvs_flash_init"}
    OBVIOUS
  <2> QED BY <2>1, <2>2, <1>1, NvsGood, FollowTo
<1>9. Good({}, p1 \o Start!NvsInit \o p3, {"app_wifi_init", "esp_wifi_init"})
  <2>1. {"nvs_flash_init"} \subseteq {} \cup {"nvs_flash_init"}
    OBVIOUS
  <2>2. {"app_wifi_init", "esp_wifi_init"}
       \subseteq {"nvs_flash_init"} \cup {"app_wifi_init", "esp_wifi_init"}
    OBVIOUS
  <2> QED BY <2>1, <2>2, <1>8, <1>2, FollowTo
<1>10. Good({},
           p1 \o Start!NvsInit \o p3 \o p4,
           {"esp_wifi_init", "esp_rmaker_node_init"})
  <2>1. {"app_wifi_init"} \subseteq {} \cup {"app_wifi_init", "esp_wifi_init"}
    OBVIOUS
  <2>2. {"esp_wifi_init", "esp_rmaker_node_init"}
       \subseteq {"app_wifi_init", "esp_wifi_init"} \cup {"esp_rmaker_node_init"}
    OBVIOUS
  <2> QED BY <2>1, <2>2, <1>9, <1>3, FollowTo
<1>11. Good({},
           p1 \o Start!NvsInit \o p3 \o p4 \o p5,
           {"esp_wifi_init", "esp_rmaker_node_init"})
  <2>1. {} \subseteq {} \cup {"esp_wifi_init", "esp_rmaker_node_init"}
    OBVIOUS
  <2>2. {"esp_wifi_init", "esp_rmaker_node_init"}
       \subseteq {"esp_wifi_init",
              "esp_rmaker_node_init"} \cup {"esp_rmaker_device_create"}
    OBVIOUS
  <2> QED BY <2>1, <2>2, <1>10, <1>4, FollowTo
<1>12. Good({},
           p1 \o Start!NvsInit \o p3 \o p4 \o p5 \o p6,
           {"esp_wifi_init", "esp_rmaker_node_init"})
  <2>1. {} \subseteq {} \cup {"esp_wifi_init", "esp_rmaker_node_init"}
    OBVIOUS
  <2>2. {"esp_wifi_init", "esp_rmaker_node_init"}
       \subseteq {"esp_wifi_init",
              "esp_rmaker_node_init"} \cup {"esp_rmaker_device_add_cb",
              "esp_rmaker_device_add_param", "esp_rmaker_node_add_device",
              "esp_rmaker_ota_enable_default"}
    OBVIOUS
  <2> QED BY <2>1, <2>2, <1>11, <1>5, FollowTo
<1>13. Good({},
           p1 \o Start!NvsInit \o p3 \o p4 \o p5 \o p6 \o p7,
           {"esp_wifi_init", "esp_rmaker_node_init"})
  <2>1. {} \subseteq {} \cup {"esp_wifi_init", "esp_rmaker_node_init"}
    OBVIOUS
  <2>2. {"esp_wifi_init", "esp_rmaker_node_init"}
       \subseteq {"esp_wifi_init", "esp_rmaker_node_init"} \cup {"esp_rmaker_start"}
    OBVIOUS
  <2> QED BY <2>1, <2>2, <1>12, <1>6, FollowTo
<1>14. Good({},
           p1 \o Start!NvsInit \o p3 \o p4 \o p5 \o p6 \o p7 \o p8,
           {"esp_wifi_init", "connected"})
  <2>1. {"esp_rmaker_node_init"}
       \subseteq {} \cup {"esp_wifi_init", "esp_rmaker_node_init"}
    OBVIOUS
  <2>2. {"esp_wifi_init", "connected"}
       \subseteq {"esp_wifi_init", "esp_rmaker_node_init"} \cup {"esp_wifi_start",
              "connected"}
    OBVIOUS
  <2> QED BY <2>1, <2>2, <1>13, <1>7, FollowTo
<1>15. Good({},
           p1 \o Start!NvsInit \o p3 \o p4 \o p5 \o p6 \o p7 \o p8
           \o Start!RadarStart,
           {"connected"})
  <2>1. {"esp_wifi_init", "connected"} \subseteq {} \cup {"esp_wifi_init", "connected"}
    OBVIOUS
  <2>2. {"connected"} \subseteq {"esp_wifi_init", "connected"} \cup {}
    OBVIOUS
  <2> QED BY <2>1, <2>2, <1>14, RadarStartGood, FollowTo
<1>16. Good({},
           p1 \o Start!NvsInit \o p3 \o p4 \o p5 \o p6 \o p7 \o p8
           \o Start!RadarStart \o Start!PingRouterStart,
           {})
  BY <1>15, PingRouterGood, FollowTo, Zenon
<1> QED BY <1>16 DEF p1, p3, p4, p5, p6, p7, p8, Start!ConnectRainmaker

-----------------------------------------------------------------------------
(* Every program finds what it needs, whatever is built for which chip. *)
LEMMA ProgramGood == Good({}, Start!Program, {})
<1>1. CASE app = "csi_send"
  BY <1>1, CsiSendGood DEF Start!Program
<1>2. CASE app = "csi_recv"
  BY <1>2, CsiRecvGood DEF Start!Program
<1>3. CASE app = "csi_recv_router"
  BY <1>3, CsiRecvRouterGood DEF Start!Program
<1>4. CASE app = "slave_send"
  BY <1>4, SlaveSendGood DEF Start!Program
<1>5. CASE app = "slave_recv"
  BY <1>5, SlaveRecvGood DEF Start!Program
<1>6. CASE app = "master_recv"
  BY <1>6, MasterRecvGood DEF Start!Program
<1>7. CASE app = "console_test"
  BY <1>7, ConsoleTestGood DEF Start!Program
<1>8. CASE app = "connect_rainmaker"
  BY <1>8, ConnectRainmakerGood DEF Start!Program
<1>9. CASE app \notin {"csi_send", "csi_recv", "csi_recv_router", "slave_send", "slave_recv",
                       "master_recv", "console_test", "connect_rainmaker"}
  <2>1. Start!Program = <<>>
    BY <1>9 DEF Start!Program
  <2> QED BY <2>1, Nothing
<1> QED BY <1>1, <1>2, <1>3, <1>4, <1>5, <1>6, <1>7, <1>8, <1>9, Zenon

(* Of what may be missing, only two calls need anything, *)
LEMMA NeedDoubtful ==
  ASSUME NEW c, NEW n \in Start!Needs(c), n \in Doubtful
  PROVE  c \in {"esp_lcd_new_panel_gc9a01", "esp_ping_start"}
BY ZenonT(30) DEF Start!Needs, Doubtful

(* and no actor that is not known to be early. *)
Orderly(a) ==
  \/ a.name \in KnownActors /\ a.name \in Start!KnownEarly
  \/ /\ a.needs \subseteq Released(a.from) \cup Start!Needs(a.from)
     /\ a.from \notin {"esp_wifi_init", "esp_wifi_start", "connected"}
     /\ \A n \in a.needs : n \notin Doubtful

(* An actor is what it is made of, *)
LEMMA OrderlyActor ==
  ASSUME NEW name, NEW from, NEW needs, NEW abrupt,
         \/ name \in KnownActors /\ name \in Start!KnownEarly
         \/ /\ needs \subseteq Released(from) \cup Start!Needs(from)
            /\ from \notin {"esp_wifi_init", "esp_wifi_start", "connected"}
            /\ \A n \in needs : n \notin Doubtful
  PROVE  Orderly(Start!Actor(name, from, needs, abrupt))
<1> DEFINE a == Start!Actor(name, from, needs, abrupt)
<1>1. a.name = name /\ a.from = from /\ a.needs = needs
  BY DEF Start!Actor
<1> HIDE DEF a
<1>2. Orderly(a)
  BY <1>1, Zenon DEF Orderly
<1> QED BY <1>2 DEF a

(* and all of them are orderly. *)
LEMMA ActorsOrderly == ASSUME NEW a \in Start!Actors PROVE Orderly(a)
<1>1. CASE app = "slave_recv"
  <2>1. a \in Start!SlaveActors
    BY <1>1 DEF Start!Actors
  <2>2. Orderly(Start!gpio_isr_handler("csi_send_queue"))
    <3>1. "gpio_isr_handler" \in KnownActors /\ "gpio_isr_handler" \in Start!KnownEarly
      BY <1>1 DEF KnownActors, Start!KnownEarly
    <3> QED BY <3>1, OrderlyActor DEF Start!gpio_isr_handler
  <2>3. Orderly(Start!LedTask)
    <3>1. {"calloc led", "led_strip_new_rmt_device"} \subseteq Start!Needs("led_strip_task")
      BY DEF Start!Needs
    <3>2. \A n \in {"calloc led", "led_strip_new_rmt_device"} : n \notin Doubtful
      BY DEF Doubtful
    <3> QED BY <3>1, <3>2, OrderlyActor DEF Start!LedTask
  <2>4. Orderly(Start!Actor("wifi_csi_rx_cb", "esp_wifi_set_csi", {"csi_send_queue"}, TRUE))
    <3>1. {"csi_send_queue"} \subseteq Released("esp_wifi_set_csi")
      BY <1>1 DEF Released
    <3>2. \A n \in {"csi_send_queue"} : n \notin Doubtful
      BY DEF Doubtful
    <3> QED BY <3>1, <3>2, OrderlyActor
  <2>5. Orderly(Start!Actor("uart_send_task", "uart_send_task",
                            {"csi_send_queue", "uart_driver_install"}, TRUE))
    <3>1. {"csi_send_queue", "uart_driver_install"} \subseteq Released("uart_send_task")
      BY DEF Released
    <3>2. \A n \in {"csi_send_queue", "uart_driver_install"} : n \notin Doubtful
      BY DEF Doubtful
    <3> QED BY <3>1, <3>2, OrderlyActor
  <2> QED BY <2>1, <2>2, <2>3, <2>4, <2>5, Zenon DEF Start!SlaveActors
<1>2. CASE app = "master_recv"
  <2>1. a \in Start!MasterActors
    BY <1>2 DEF Start!Actors
  <2>2. Orderly(Start!gpio_isr_handler("csi_recv_queue"))
    <3>1. "gpio_isr_handler" \in KnownActors /\ "gpio_isr_handler" \in Start!KnownEarly
      BY <1>2 DEF KnownActors, Start!KnownEarly
    <3> QED BY <3>1, OrderlyActor DEF Start!gpio_isr_handler
  <2>3. Orderly(Start!LedTask)
    <3>1. {"calloc led", "led_strip_new_rmt_device"} \subseteq Start!Needs("led_strip_task")
      BY DEF Start!Needs
    <3>2. \A n \in {"calloc led", "led_strip_new_rmt_device"} : n \notin Doubtful
      BY DEF Doubtful
    <3> QED BY <3>1, <3>2, OrderlyActor DEF Start!LedTask
  <2>4. Orderly(Start!Actor("wifi_csi_rx_cb", "esp_wifi_set_csi", {"csi_recv_queue"}, TRUE))
    <3>1. {"csi_recv_queue"} \subseteq Released("esp_wifi_set_csi")
      BY <1>2 DEF Released
    <3>2. \A n \in {"csi_recv_queue"} : n \notin Doubtful
      BY DEF Doubtful
    <3> QED BY <3>1, <3>2, OrderlyActor
  <2>5. Orderly(Start!Actor("uart_event_task", "uart_event_task",
                            {"uart_driver_install", "uart_recv_queue"}, TRUE))
    <3>1. {"uart_driver_install", "uart_recv_queue"} \subseteq Released("uart_event_task")
      BY DEF Released
    <3>2. \A n \in {"uart_driver_install", "uart_recv_queue"} : n \notin Doubtful
      BY DEF Doubtful
    <3> QED BY <3>1, <3>2, OrderlyActor
  <2>6. Orderly(Start!Actor("process_csi_data_task", "process_csi_data_task",
                            {"csi_recv_queue", "csi_display_queue"}, TRUE))
    <3>1. {"csi_recv_queue", "csi_display_queue"} \subseteq Released("process_csi_data_task")
      BY DEF Released
    <3>2. \A n \in {"csi_recv_queue", "csi_display_queue"} : n \notin Doubtful
      BY DEF Doubtful
    <3> QED BY <3>1, <3>2, OrderlyActor
  <2>7. Orderly(Start!Actor("csi_data_display_task", "csi_data_display_task",
                            {"uart_recv_queue", "ui_init"}, TRUE))
    <3>1. {"uart_recv_queue", "ui_init"} \subseteq Released("csi_data_display_task")
      BY DEF Released
    <3>2. \A n \in {"uart_recv_queue", "ui_init"} : n \notin Doubtful
      BY DEF Doubtful
    <3> QED BY <3>1, <3>2, OrderlyActor
  <2> QED BY <2>1, <2>2, <2>3, <2>4, <2>5, <2>6, <2>7, Zenon DEF Start!MasterActors
<1>3. CASE app = "console_test"
  <2>1. a \in Start!ConsoleActors
    BY <1>3 DEF Start!Actors
  <2>2. /\ "wifi_cmd_radar" \in KnownActors /\ "wifi_cmd_radar" \in Start!KnownEarly
        /\ "WIFI_EVENT_STA_START" \in KnownActors /\ "WIFI_EVENT_STA_START" \in Start!KnownEarly
    BY <1>3 DEF KnownActors, Start!KnownEarly
  <2>3. Orderly(Start!Actor("wifi_cmd_radar", "esp_console_start_repl", {"esp_radar_init"}, FALSE))
    BY <2>2, OrderlyActor
  <2>4. Orderly(Start!Actor("WIFI_EVENT_STA_START", "esp_wifi_start",
                            {"esp_netif_create_default_wifi_sta"}, FALSE))
    BY <2>2, OrderlyActor
  <2>5. Orderly(Start!Actor("wifi_config_func", "esp_console_start_repl", {"esp_wifi_start"}, FALSE))
    <3>1. {"esp_wifi_start"} \subseteq Released("esp_console_start_repl")
      BY DEF Released
    <3>2. \A n \in {"esp_wifi_start"} : n \notin Doubtful
      BY DEF Doubtful
    <3> QED BY <3>1, <3>2, OrderlyActor
  <2>6. Orderly(Start!Actor("wifi_csi_raw_cb", "esp_radar_start", {"esp_radar_set_config"}, FALSE))
    <3>1. {"esp_radar_set_config"} \subseteq Released("esp_radar_start")
      BY DEF Released
    <3>2. \A n \in {"esp_radar_set_config"} : n \notin Doubtful
      BY DEF Doubtful
    <3> QED BY <3>1, <3>2, OrderlyActor
  <2>7. Orderly(Start!Actor("csi_data_print_task", "csi_data_print_task", {"g_csi_info_queue"}, TRUE))
    <3>1. {"g_csi_info_queue"} \subseteq Released("csi_data_print_task")
      BY DEF Released
    <3>2. \A n \in {"g_csi_info_queue"} : n \notin Doubtful
      BY DEF Doubtful
    <3> QED BY <3>1, <3>2, OrderlyActor
  <2> QED BY <2>1, <2>3, <2>4, <2>5, <2>6, <2>7, Zenon DEF Start!ConsoleActors
<1>4. CASE app = "connect_rainmaker"
  <2>1. a \in Start!RainmakerActors
    BY <1>4 DEF Start!Actors
  <2>2. "write_cb" \in KnownActors /\ "write_cb" \in Start!KnownEarly
    BY <1>4 DEF KnownActors, Start!KnownEarly
  <2>3. Orderly(Start!Actor("write_cb", "app_wifi_start",
                            {"nvs_open", "esp_rmaker_start", "esp_radar_init"}, FALSE))
    BY <2>2, OrderlyActor
  <2>4. Orderly(Start!Actor("radar_cb", "esp_radar_start", {"esp_radar_set_config"}, FALSE))
    <3>1. {"esp_radar_set_config"} \subseteq Released("esp_radar_start")
      BY DEF Released
    <3>2. \A n \in {"esp_radar_set_config"} : n \notin Doubtful
      BY DEF Doubtful
    <3> QED BY <3>1, <3>2, OrderlyActor
  <2> QED BY <2>1, <2>3, <2>4, Zenon DEF Start!RainmakerActors
<1> QED BY <1>1, <1>2, <1>3, <1>4, Zenon DEF Start!Actors

-----------------------------------------------------------------------------
(* What was called and is not done failed by itself, or for a failure,     *)
(* where the code does not care.                                           *)
BootTyped == pc \in 0 .. Len(Start!Program) + 1 /\ faults \in Nat
Skipped(x) == faults > 0 /\ x \in Doubtful
BootInv ==
  /\ BootTyped
  /\ pc = 0 => done = {}
  /\ pc > 0 => done \subseteq Given(Start!Program, pc - 1)
  /\ \A k \in 1 .. Len(Start!Program) : k < pc =>
       \A x \in Start!Gives(Start!Program[k].call) : x \notin done => Skipped(x)
  /\ Start!NothingElseEarly

(* A program has an end, *)
LEMMA ProgramLen == Len(Start!Program) \in Nat
<1>1. PICK S : Start!Program \in Seq(S)
  BY ProgramGood DEF Good
<1> QED BY <1>1

(* What is given before a call, or an actor, is done or was skipped. *)
LEMMA GivenDone ==
  ASSUME BootInv, NEW k \in 1 .. Len(Start!Program), k <= pc,
         NEW x \in Given(Start!Program, k - 1), x \notin done
  PROVE  Skipped(x)
<1>1. PICK i \in 1 .. k - 1 : x \in Start!Gives(Start!Program[i].call)
  BY Zenon DEF Given
<1>2. i \in 1 .. Len(Start!Program) /\ i < pc
  BY ProgramLen DEF BootInv, BootTyped
<1> QED BY <1>1, <1>2 DEF BootInv

(* The known cases stay known as failures come. *)
LEMMA KnownStay ==
  ASSUME app' = app, faults \in Nat, faults' \in Nat, faults <= faults'
  PROVE  Start!KnownEarly \subseteq Start!KnownEarly'
BY DEF Start!KnownEarly

(* and it stays what it is while the application does. *)
LEMMA ProgramStays == ASSUME app' = app, chip' = chip PROVE Start!Program' = Start!Program
BY DEF Start!Program

(* A call that is made too early is one of the known cases, *)
LEMMA CallKnown ==
  ASSUME BootInv, Start!Booting, Start!TooEarly
  PROVE  /\ Start!Current.call \in Start!KnownEarly
         /\ Start!Current.kind = "plain" => \A x \in Start!Gives(Start!Current.call) : Skipped(x)
<1> DEFINE c == Start!Current
<1>1. pc \in 1 .. Len(Start!Program) /\ pc \in Nat
  BY ProgramLen DEF Start!Booting
<1>2. Met(Given(Start!Program, pc - 1), c.call) /\ Apart(c.call, c.kind)
  <2>1. Fine({}, Start!Program, pc)
    BY <1>1, ProgramGood, Zenon DEF Good
  <2> QED BY <2>1, Zenon DEF Fine, Start!Current, Met
<1>3. PICK n \in Start!Needs(c.call) : n \notin done
  BY Zenon DEF Start!TooEarly
<1>4. n \in Given(Start!Program, pc - 1)
  BY <1>2, Zenon DEF Met
<1>5. Skipped(n)
  <2>1. pc <= pc
    BY <1>1
  <2> QED BY <1>1, <1>3, <1>4, <2>1, GivenDone
<1>6. c.call \in {"esp_lcd_new_panel_gc9a01", "esp_ping_start"} /\ faults > 0
  BY <1>5, NeedDoubtful DEF Skipped
<1> HIDE DEF c
<1>7. CASE c.call = "esp_lcd_new_panel_gc9a01"
  <2>1. c.kind # "plain" /\ app = "master_recv"
    BY <1>2, <1>7 DEF Apart
  <2> QED BY <1>6, <1>7, <2>1 DEF Start!KnownEarly, c
<1>8. CASE c.call = "esp_ping_start"
  <2>1. app \in {"csi_recv_router", "connect_rainmaker"}
    BY <1>2, <1>8 DEF Apart
  <2>2. Start!Gives("esp_ping_start") = {"esp_ping_start"}
    BY DEF Start!Gives
  <2>3. \A x \in Start!Gives(c.call) : Skipped(x)
    BY <1>6, <1>8, <2>2 DEF Skipped, Doubtful
  <2>4. c.call \in Start!KnownEarly
    BY <1>6, <1>8, <2>1 DEF Start!KnownEarly
  <2> QED BY <2>3, <2>4 DEF c
<1> QED BY <1>6, <1>7, <1>8

(* and so is an actor. *)
LEMMA ActorKnown ==
  ASSUME BootInv, NEW a \in Start!Actors, a.from \in done, ~(a.needs \subseteq done)
  PROVE  a.name \in Start!KnownEarly
<1> SUFFICES ASSUME a.needs \subseteq Released(a.from) \cup Start!Needs(a.from),
                    a.from \notin {"esp_wifi_init", "esp_wifi_start", "connected"},
                    \A n \in a.needs : n \notin Doubtful
             PROVE  FALSE
  BY ActorsOrderly, Zenon DEF Orderly
<1>1. pc \in Nat /\ pc > 0
  BY ProgramLen DEF BootInv, BootTyped
<1>2. PICK k \in 1 .. pc - 1 : a.from \in Start!Gives(Start!Program[k].call)
  BY <1>1, Zenon DEF BootInv, Given
<1>3. Start!Program[k].call = a.from
  BY <1>2, GivesItself, Zenon
<1>4. k \in 1 .. Len(Start!Program) /\ k <= pc
  BY <1>1, ProgramLen DEF BootInv, BootTyped
<1>5. Fine({}, Start!Program, k)
  BY <1>4, ProgramGood, Zenon DEF Good
<1>6. a.needs \subseteq Given(Start!Program, k - 1)
  BY <1>3, <1>5, Zenon DEF Fine, Met
<1>7. PICK n \in a.needs : n \notin done
  BY Zenon
<1>8. Skipped(n)
  BY <1>4, <1>6, <1>7, GivenDone, Zenon
<1> QED BY <1>7, <1>8, Zenon DEF Skipped

(* A call is passed, successful or not; *)
LEMMA PassKeeps ==
  ASSUME BootInv, Start!Booting, pc' = pc + 1, app' = app, chip' = chip,
         faults' \in Nat, faults <= faults',
         done \subseteq done', done' \subseteq done \cup Start!Gives(Start!Current.call),
         \A x \in Start!Gives(Start!Current.call) : x \notin done' => faults' > 0 /\ x \in Doubtful,
         early' \subseteq Start!KnownEarly'
  PROVE  BootInv'
<1> DEFINE p == Start!Program
<1>1. /\ Start!Program' = p /\ Len(p) \in Nat /\ pc \in 1 .. Len(p) /\ pc \in Nat
      /\ faults \in Nat /\ pc + 1 - 1 = pc
  BY ProgramStays, ProgramLen DEF BootInv, BootTyped, Start!Booting
<1> HIDE DEF p
<1>2. BootTyped' /\ (pc = 0 => done = {})'
  BY <1>1 DEF BootTyped
<1>3. (pc > 0 => done \subseteq Given(Start!Program, pc - 1))'
  <2>1. done \subseteq Given(p, pc - 1)
    BY <1>1 DEF BootInv, p
  <2>2. 1 .. pc - 1 \subseteq 1 .. pc /\ pc \in 1 .. pc
    BY <1>1
  <2>3. Given(p, pc - 1) \subseteq Given(p, pc) /\ Start!Gives(p[pc].call) \subseteq Given(p, pc)
    BY <2>2, Zenon DEF Given
  <2>4. done' \subseteq Given(p, pc)
    BY <2>1, <2>3, Zenon DEF Start!Current, p
  <2>5. Given(p, pc) = Given(Start!Program, pc - 1)'
    <3>1. pc' - 1 = pc
      BY <1>1
    <3> QED BY <1>1, <3>1 DEF Given
  <2> QED BY <2>4, <2>5
<1>4. ASSUME NEW k \in 1 .. Len(p), k < pc + 1, NEW x \in Start!Gives(p[k].call), x \notin done'
      PROVE  faults' > 0 /\ x \in Doubtful
  <2>1. CASE k < pc
    <3>1. Skipped(x)
      BY <1>4, <2>1 DEF BootInv, p
    <3> QED BY <1>1, <3>1 DEF Skipped
  <2>2. CASE k = pc
    BY <1>4, <2>2 DEF p, Start!Current
  <2> QED BY <1>1, <1>4, <2>1, <2>2
<1>5. (\A k \in 1 .. Len(Start!Program) : k < pc =>
         \A x \in Start!Gives(Start!Program[k].call) : x \notin done => Skipped(x))'
  BY <1>1, <1>4 DEF Skipped
<1> QED BY <1>2, <1>3, <1>5 DEF BootInv, Start!NothingElseEarly

(* or the chip boots again. *)
LEMMA BootKeeps ==
  ASSUME pc' = 1, done' = {}, faults' \in Nat, early' \subseteq Start!KnownEarly'
  PROVE  BootInv'
<1>1. Len(Start!Program') \in Nat
  <2>1. (Len(Start!Program) \in Nat)'
    BY ProgramLen, PTL
  <2> QED BY <2>1
<1> QED BY <1>1 DEF BootInv, BootTyped, Start!NothingElseEarly

(* The steps of start-up keep the invariant: the power, *)
LEMMA PowerOnKeeps == ASSUME BootInv, Start!PowerOn, early = {} PROVE BootInv'
BY BootKeeps DEF BootInv, BootTyped, Start!PowerOn

(* a call, *)
LEMMA StepKeeps == ASSUME BootInv, Start!Step PROVE BootInv'
<1>1. /\ app' = app /\ chip' = chip /\ faults' = faults /\ faults \in Nat
      /\ Start!Booting
  BY DEF BootInv, BootTyped, Start!Step, Start!Call, Start!CallTooEarly, Start!Erase
<1>2. Start!KnownEarly' = Start!KnownEarly
  BY <1>1 DEF Start!KnownEarly
<1>3. early \subseteq Start!KnownEarly
  BY DEF BootInv, Start!NothingElseEarly
<1>4. CASE Start!Call
  <2>1. pc' = pc + 1 /\ done' = done \cup Start!Gives(Start!Current.call) /\ early' = early
    BY <1>4 DEF Start!Call
  <2> QED BY <1>1, <1>2, <1>3, <2>1, PassKeeps
<1>5. CASE Start!CallTooEarly
  <2>1. /\ Start!TooEarly /\ early' = early \cup {Start!Current.call}
        /\ IF Start!Current.kind = "plain" THEN Start!Pass ELSE Start!Boot
    BY <1>5 DEF Start!CallTooEarly
  <2>2. /\ Start!Current.call \in Start!KnownEarly
        /\ Start!Current.kind = "plain" =>
             \A x \in Start!Gives(Start!Current.call) : Skipped(x)
    BY <1>1, <2>1, CallKnown
  <2>3. early' \subseteq Start!KnownEarly'
    BY <1>2, <1>3, <2>1, <2>2, Zenon
  <2>4. CASE Start!Current.kind = "plain"
    <3>1. pc' = pc + 1 /\ done' = done
      BY <2>1, <2>4 DEF Start!Pass
    <3>2. \A x \in Start!Gives(Start!Current.call) : x \notin done' => faults' > 0 /\ x \in Doubtful
      BY <1>1, <2>2, <2>4 DEF Skipped
    <3>3. faults <= faults'
      BY <1>1
    <3> QED BY <1>1, <2>3, <3>1, <3>2, <3>3, PassKeeps
  <2>5. CASE Start!Current.kind # "plain"
    BY <1>1, <2>1, <2>3, <2>5, BootKeeps DEF Start!Boot
  <2> QED BY <2>4, <2>5
<1>6. CASE Start!Erase
  <2>1. CASE UNCHANGED <<pc, done>>
    <3>1. Start!Program' = Start!Program /\ early' = early
      BY <1>1, <1>6, ProgramStays DEF Start!Erase
    <3> QED BY <1>1, <1>2, <2>1, <3>1
            DEF BootInv, BootTyped, Given, Skipped, Start!NothingElseEarly
  <2>2. CASE Start!Boot
    BY <1>1, <1>2, <1>3, <1>6, <2>2, BootKeeps DEF Start!Boot, Start!Erase
  <2> QED BY <1>6, <2>1, <2>2 DEF Start!Erase
<1> QED BY <1>4, <1>5, <1>6 DEF Start!Step

(* a failure, *)
LEMMA CallFailsKeeps == ASSUME BootInv, Start!CallFails PROVE BootInv'
<1>1. /\ app' = app /\ chip' = chip /\ early' = early /\ faults' = faults + 1 /\ faults \in Nat
      /\ Start!Booting /\ Start!Current.call \in Start!Fallible
      /\ IF Start!Current.kind = "plain" THEN Start!Pass ELSE Start!Boot
  BY DEF BootInv, BootTyped, Start!CallFails
<1>2. early' \subseteq Start!KnownEarly'
  <2>1. Start!KnownEarly \subseteq Start!KnownEarly'
    BY <1>1, KnownStay
  <2> QED BY <1>1, <2>1 DEF BootInv, Start!NothingElseEarly
<1>3. CASE Start!Current.kind = "plain"
  <2> DEFINE c == Start!Current
  <2>1. Apart(c.call, c.kind)
    <3>1. pc \in 1 .. Len(Start!Program)
      BY <1>1 DEF Start!Booting
    <3>2. Fine({}, Start!Program, pc)
      BY <3>1, ProgramGood, Zenon DEF Good
    <3> QED BY <3>2, Zenon DEF Fine, Start!Current
  <2>2. c.call \in {"esp_lcd_new_panel_io_spi", "esp_ping_new_session"}
    BY <1>1, <1>3, <2>1, Zenon DEF Apart
  <2>3. \A x \in Start!Gives(c.call) : x \in Doubtful
    <3>1. /\ Start!Gives("esp_lcd_new_panel_io_spi") = {"esp_lcd_new_panel_io_spi"}
          /\ Start!Gives("esp_ping_new_session") = {"esp_ping_new_session"}
      BY DEF Start!Gives
    <3> QED BY <2>2, <3>1 DEF Doubtful
  <2>4. pc' = pc + 1 /\ done' = done /\ faults' > 0 /\ faults' \in Nat /\ faults <= faults'
    BY <1>1, <1>3 DEF Start!Pass
  <2> QED BY <1>1, <1>2, <2>3, <2>4, PassKeeps
<1>4. CASE Start!Current.kind # "plain"
  BY <1>1, <1>2, <1>4, BootKeeps DEF Start!Boot
<1> QED BY <1>3, <1>4

(* an actor, *)
LEMMA ActKeeps == ASSUME BootInv, Start!ActTooEarly PROVE BootInv'
<1>1. PICK a \in Start!Actors :
        /\ a.from \in done /\ ~(a.needs \subseteq done)
        /\ early' = early \cup {a.name}
        /\ \/ a.aborts /\ faults < MaxFaults /\ faults' = faults + 1 /\ Start!Boot
           \/ ~a.aborts /\ UNCHANGED <<pc, done, faults>>
  BY Zenon DEF Start!ActTooEarly
<1>2. app' = app /\ chip' = chip /\ faults \in Nat
  BY DEF BootInv, BootTyped, Start!ActTooEarly
<1>3. a.name \in Start!KnownEarly
  BY <1>1, ActorKnown
<1>4. faults' \in Nat /\ faults <= faults'
  BY <1>1, <1>2
<1>5. early' \subseteq Start!KnownEarly'
  <2>1. Start!KnownEarly \subseteq Start!KnownEarly' /\ early \subseteq Start!KnownEarly
    BY <1>2, <1>4, KnownStay DEF BootInv, Start!NothingElseEarly
  <2> QED BY <1>1, <1>3, <2>1, Zenon
<1>6. CASE Start!Boot
  BY <1>4, <1>5, <1>6, BootKeeps DEF Start!Boot
<1>7. CASE UNCHANGED <<pc, done, faults>>
  <2>1. Start!Program' = Start!Program
    BY <1>2, ProgramStays
  <2> QED BY <1>5, <1>7, <2>1 DEF BootInv, BootTyped, Given, Skipped, Start!NothingElseEarly
<1> QED BY <1>1, <1>6, <1>7

(* and the commands. *)
LEMMA RestartKeeps == ASSUME BootInv, NEW n, Start!Restart(n) PROVE BootInv'
<1>1. /\ app' = app /\ early' = early /\ faults' = faults /\ faults \in Nat
      /\ pc' = 1 /\ done' = {}
  BY DEF BootInv, BootTyped, Start!Restart, Start!Boot
<1>2. early' \subseteq Start!KnownEarly'
  BY <1>1 DEF BootInv, Start!NothingElseEarly, Start!KnownEarly
<1> QED BY <1>1, <1>2, BootKeeps

(* Nothing is early before the power is on. *)
Quiet == pc = 0 => early = {} /\ app = Start!Off

(* The invariant holds initially and is kept by every step, of any component. *)
LEMMA BootInvariant == Spec => [](BootInv /\ Quiet)
<1>1. Init => BootInv /\ Quiet
  <2> SUFFICES ASSUME Init PROVE BootInv /\ Quiet
    OBVIOUS
  <2>1. /\ app = "none" /\ pc = 0 /\ done = {} /\ early = {} /\ faults = 0
    BY DEF Init, Start!Init, Start!Off
  <2> QED BY <2>1, ProgramLen DEF BootInv, BootTyped, Quiet, Start!NothingElseEarly, Start!Off
<1>2. BootInv /\ Quiet /\ [Next]_vars => (BootInv /\ Quiet)'
  <2> SUFFICES ASSUME BootInv, Quiet, [Next]_vars PROVE BootInv' /\ Quiet'
    OBVIOUS
  <2>1. CASE StartStep
    <3>1. Start!PowerOn \/ Start!Step \/ Start!CallFails \/ Start!ActTooEarly
          \/ Start!restart_func \/ Start!reset_func
      BY <2>1 DEF StartStep, Start!Next
    <3>2. BootInv'
      <4>1. CASE Start!PowerOn
        BY <4>1, PowerOnKeeps DEF Start!PowerOn, Quiet
      <4>2. CASE Start!restart_func
        BY <4>2, RestartKeeps DEF Start!restart_func
      <4>3. CASE Start!reset_func
        BY <4>3, RestartKeeps DEF Start!reset_func
      <4> QED BY <3>1, <4>1, <4>2, <4>3, StepKeeps, CallFailsKeeps, ActKeeps
    <3>3. pc' # 0
      <4>1. pc \in Nat
        BY ProgramLen DEF BootInv, BootTyped
      <4>2. pc = 0 => done = {}
        BY DEF BootInv
      <4> QED BY <3>1, <4>1, <4>2
              DEF Start!PowerOn, Start!Step, Start!Call, Start!CallTooEarly, Start!Erase,
                  Start!CallFails, Start!ActTooEarly, Start!restart_func, Start!reset_func,
                  Start!Restart, Start!Boot, Start!Pass, Start!Booting
    <3> QED BY <3>2, <3>3 DEF Quiet
  <2>2. CASE UNCHANGED boot_vars
    <3>1. Start!Program' = Start!Program
      BY <2>2, ProgramStays DEF boot_vars
    <3> QED BY <2>2, <3>1 DEF boot_vars, BootInv, BootTyped, Quiet, Given, Skipped,
                              Start!NothingElseEarly, Start!KnownEarly
  <2> QED
    BY <2>1, <2>2 DEF Next, vars, EvalStep, PingStep, RadarStep, PresenceStep, TransformStep,
                      GainStep, HostStep
<1> QED
  BY <1>1, <1>2, PTL DEF Spec

(* However calls fail and actors run, nothing but the known cases comes    *)
(* before what it needs, in any application on any chip. At the end, the   *)
(* types of all components.                                                *)
THEOREM OnlyKnownEarly == Spec => []NothingElseEarly
<1>1. BootInv => NothingElseEarly
  BY DEF BootInv, NothingElseEarly
<1> QED
  BY <1>1, BootInvariant, PTL

-----------------------------------------------------------------------------
(* The types. What the other invariants do not say of the variables: of    *)
(* RadarPresence,                                                          *)
Seconds == [{"move", "someone"} -> 0 .. 2]
PresenceKinds ==
  /\ s_buff_count <= MaxValues
  /\ predict_move_threshold \in Thresholds /\ predict_buff_size \in BuffSizes
  /\ predict_outliers_number \in OutlierNumbers /\ train_start \in BOOLEAN
  /\ ages \in Seconds
  /\ led \in {"off", "yellow", "green", "white", "red"}
(* CsiGain,                                                                *)
GainKinds ==
  /\ s_count <= MaxPackets
  /\ agc_gain_sum \in 0 .. WORD - 1 /\ fft_gain_sum \in 0 .. WORD - 1
  /\ compensated.fft \in -(BYTE \div 2) .. BYTE \div 2 - 1
(* HostTool,                                                               *)
HostKinds ==
  /\ window \in {"open", "closing", "gone", "aborted"} /\ button \in {"start", "stop"}
  /\ queue_read \in Seq({"CSI_DATA", "RADAR_DADA", "FAIL_EVENT"})
  /\ Len(queue_write) <= QueueSize /\ Len(queue_read) <= QueueSize
  /\ serial \in {"loop", "folder", "open", "RADAR_DADA", "FAIL_EVENT", "exiting", "crashing",
                "ended", "crashed"}
  /\ folder \in {"none", "empty", "files"}
(* EvalServer                                                              *)
EvalKinds ==
  /\ server \in {"none", "setup", "accept", "recv", "scan", "closed", "ended"}
  /\ Len(rx_buffer) < RX_BUFFER_SIZE
  /\ ctx \in BOOLEAN /\ (Connected => ctx)
(* and Startup.                                                            *)
BootKinds ==
  /\ app \in Apps \cup {"none"} /\ nvs \in {"ready", "full"}
  /\ pc > 0 <=> app # "none"
  /\ faults <= MaxFaults /\ restarts \in 0 .. MaxRestarts

(* A pair of times. *)
LEMMA SecondsAre ==
  ASSUME NEW a \in 0 .. 2, NEW b \in 0 .. 2
  PROVE  [move |-> a, someone |-> b] \in Seconds
<1> DEFINE r == [x \in {"move", "someone"} |-> IF x = "move" THEN a ELSE b]
<1>1. r \in Seconds
  BY DEF Seconds
<1>2. r = [move |-> a, someone |-> b]
  OBVIOUS
<1> QED BY <1>1, <1>2

(* The kinds of RadarPresence: at first, *)
LEMMA PresenceKindsInit == ASSUME Presence!Init PROVE PresenceKinds
<1>1. 0 \in 0 .. 2 /\ MaxValues \in Nat
  BY ComponentsAssumption DEF ComponentsAssumption
<1>2. ages \in Seconds
  BY <1>1, SecondsAre DEF Presence!Init
<1>3. s_buff_count <= MaxValues
  BY <1>1 DEF Presence!Init
<1>4. /\ predict_move_threshold \in Thresholds /\ predict_buff_size \in BuffSizes
      /\ predict_outliers_number \in OutlierNumbers /\ train_start \in BOOLEAN
      /\ led \in {"off", "yellow", "green", "white", "red"}
  BY DEF Presence!Init
<1> QED BY <1>2, <1>3, <1>4 DEF PresenceKinds

(* and after each step. *)
LEMMA PresenceKindsKept ==
  ASSUME PresenceKinds, PresenceTyped, Presence!Next PROVE PresenceKinds'
<1>0. 0 \in 0 .. 2 /\ MaxValues \in Nat
  BY ComponentsAssumption DEF ComponentsAssumption
<1>1. CASE Presence!wifi_radar_cb
  <2>1. /\ s_buff_count' <= MaxValues
        /\ UNCHANGED <<predict_move_threshold, predict_buff_size, predict_outliers_number,
                       train_start>>
    BY <1>0, <1>1 DEF Presence!wifi_radar_cb, Presence!config, PresenceTyped
  <2> DEFINE moves(jitters, n) ==
               {i \in 0 .. predict_buff_size - 1 :
                  Presence!Outlier(jitters[Presence!Index(n, i)], Presence!median(jitters))}
  <2>2. PICK someone \in BOOLEAN :
          \/ UNCHANGED <<ages, led>>
          \/ Presence!Train
          \/ Presence!Report(someone /\ predict_buff_size >= 1,
                             Presence!Cardinality(moves(s_buff_jitter', s_buff_count'))
                               >= predict_outliers_number)
    BY <1>1 DEF Presence!wifi_radar_cb
  <2>3. CASE Presence!Train
    <3>1. ages' \in Seconds
      BY <1>0, <2>3, SecondsAre DEF Presence!Train
    <3> QED BY <2>1, <2>3, <3>1 DEF Presence!Train, PresenceKinds
  <2>4. CASE Presence!Report(someone /\ predict_buff_size >= 1,
                             Presence!Cardinality(moves(s_buff_jitter', s_buff_count'))
                               >= predict_outliers_number)
    <3> DEFINE many == Presence!Cardinality(moves(s_buff_jitter', s_buff_count'))
                         >= predict_outliers_number
               room == someone /\ predict_buff_size >= 1
    <3>1. ages.move \in 0 .. 2 /\ ages.someone \in 0 .. 2
      BY DEF PresenceTyped
    <3> HIDE DEF many, room
    <3>2. ages' \in Seconds
      BY <1>0, <2>4, <3>1, SecondsAre DEF Presence!Report, many, room
    <3>3. led' \in {"off", "yellow", "green", "white", "red"}
      BY <2>4 DEF Presence!Report, Presence!Lit, PresenceKinds
    <3> QED BY <2>1, <3>2, <3>3 DEF PresenceKinds
  <2> QED BY <2>1, <2>2, <2>3, <2>4 DEF PresenceKinds
<1>2. CASE Presence!TimePasses
  <2>1. ages' \in Seconds
    BY <1>2 DEF Presence!TimePasses, Presence!Older, Presence!Long, PresenceKinds, Seconds
  <2> QED BY <1>2, <2>1 DEF Presence!TimePasses, Presence!config, Presence!buff, PresenceKinds
<1>3. CASE Presence!wifi_cmd_radar
  BY <1>3 DEF Presence!wifi_cmd_radar, Presence!buff, PresenceKinds
<1> QED BY <1>1, <1>2, <1>3 DEF Presence!Next

(* The kinds of CsiGain: at first, *)
LEMMA GainKindsInit == ASSUME Gain!Init PROVE GainKinds
<1>1. /\ BYTE \in Nat \ {0} /\ WORD \in Nat \ {0} /\ BYTE % 2 = 0 /\ MaxPackets \in Nat
  BY ComponentsAssumption DEF ComponentsAssumption
<1>2. BYTE \div 2 >= 1
  BY <1>1
<1> QED BY <1>1, <1>2 DEF Gain!Init, GainKinds

(* and after each step. *)
LEMMA GainKindsKept == ASSUME GainKinds, GainTyped, Gain!Next PROVE GainKinds'
<1>1. /\ BYTE \in Nat \ {0} /\ WORD \in Nat \ {0} /\ BYTE % 2 = 0 /\ MaxPackets \in Nat
      /\ AgcGains \subseteq Nat /\ FftGains \subseteq Int
  BY ComponentsAssumption DEF ComponentsAssumption, FftGains
<1>2. CASE UNCHANGED <<s_count, agc_gain_sum, fft_gain_sum, compensated>>
  BY <1>2 DEF GainKinds
<1>3. ASSUME NEW info \in [data : BOOLEAN, mac : {"sender", "other"}, agc : AgcGains, fft : FftGains],
             s_count < MaxPackets, s_count' = s_count + 1,
             Gain!ForceGain(info) \/ Gain!RecordGain(info)
      PROVE  GainKinds'
  <2>1. s_count' <= MaxPackets
    BY <1>1, <1>3 DEF GainTyped
  <2>2. info.agc \in Nat /\ info.fft \in Int
    BY <1>1
  <2>3. Gain!Unsigned(info.fft) \in 0 .. BYTE - 1
    BY <1>1, <2>2 DEF Gain!Unsigned
  <2>4. CASE Gain!ForceGain(info)
    <3>1. ASSUME NEW s \in 0 .. WORD - 1, NEW g \in Nat PROVE Gain!Sum16(s, g) \in 0 .. WORD - 1
      BY <1>1 DEF Gain!Sum16
    <3> DEFINE a == Gain!Sum16(agc_gain_sum, info.agc)
               f == Gain!Sum16(fft_gain_sum, Gain!Unsigned(info.fft))
    <3>3. Gain!Unsigned(info.fft) \in Nat
      BY <1>1, <2>3
    <3>4. a \in 0 .. WORD - 1 /\ f \in 0 .. WORD - 1
      BY <2>2, <3>1, <3>3, Zenon DEF GainKinds
    <3>5. \/ agc_gain_sum' = a /\ fft_gain_sum' = f
          \/ agc_gain_sum' = agc_gain_sum /\ fft_gain_sum' = fft_gain_sum
      BY <2>4 DEF Gain!ForceGain, Gain!sums
    <3> HIDE DEF a, f
    <3>2. agc_gain_sum' \in 0 .. WORD - 1 /\ fft_gain_sum' \in 0 .. WORD - 1
      BY <3>4, <3>5 DEF GainKinds
    <3> QED BY <2>1, <2>4, <3>2 DEF Gain!ForceGain, GainKinds
  <2>5. CASE Gain!RecordGain(info)
    <3> DEFINE b == Gain!Unsigned(info.fft)
    <3>1. b \in 0 .. BYTE - 1
      BY <2>3
    <3> HIDE DEF b
    <3>2. Gain!Signed(b) \in -(BYTE \div 2) .. BYTE \div 2 - 1
      BY <1>1, <3>1 DEF Gain!Signed
    <3>3. compensated'.fft = Gain!Signed(b)
      BY <2>5 DEF Gain!RecordGain, b
    <3> QED BY <2>1, <2>5, <3>2, <3>3 DEF Gain!RecordGain, Gain!sums, GainKinds
  <2> QED BY <1>3, <2>4, <2>5
<1> QED
  BY <1>2, <1>3 DEF Gain!Next, Gain!wifi_csi_rx_cb, Gain!gain_vars, Gain!sums

(* The kinds of HostTool: at first, *)
LEMMA HostKindsInit == ASSUME Host!Init PROVE HostKinds
<1>1. QueueSize \in Nat
  BY ComponentsAssumption DEF ComponentsAssumption
<1> QED BY <1>1 DEF Host!Init, HostKinds

(* and after each step. *)
LEMMA HostKindsKept == ASSUME HostKinds, HostTyped, Host!Next PROVE HostKinds'
<1>0. QueueSize \in Nat /\ Len(queue_write) \in Nat /\ Len(queue_read) \in Nat
  <2>1. QueueSize \in Nat
    BY ComponentsAssumption DEF ComponentsAssumption
  <2>2. queue_write \in Seq(Commands)
    BY DEF HostTyped
  <2>3. queue_read \in Seq({"CSI_DATA", "RADAR_DADA", "FAIL_EVENT"})
    BY DEF HostKinds
  <2> QED BY <2>1, <2>2, <2>3, LenProperties
<1> DEFINE Q == {"CSI_DATA", "RADAR_DADA", "FAIL_EVENT"}
<1>1. CASE Host!Gui
  <2>1. /\ queue_read' = queue_read /\ serial' = serial
        /\ window' \in {"open", "closing", "gone", "aborted"} /\ button' \in {"start", "stop"}
        /\ folder' \in {"none", "empty", "files"}
    BY <1>1 DEF Host!Gui, Host!CollectHandler, Host!OtherHandler, Host!StartPressed,
                Host!DelayOver, Host!NumberTick, Host!StopPressed, Host!CleanPressed,
                Host!RemoveFolder, Host!Close, Host!Exit, Host!Put, Host!screen,
                Host!serial_vars, HostKinds
  <2>2. Len(queue_write') <= QueueSize
    <3>1. CASE queue_write' = queue_write
      BY <3>1 DEF HostKinds
    <3>2. CASE Host!Put
      <4>1. Len(queue_write) < QueueSize /\ queue_write' = Append(queue_write, outgoing)
        BY <3>2 DEF Host!Put
      <4>2. Len(queue_write') = Len(queue_write) + 1
        BY <4>1 DEF HostTyped
      <4> QED BY <1>0, <4>1, <4>2
    <3> QED
      BY <1>1, <3>1, <3>2 DEF Host!Gui, Host!CollectHandler, Host!OtherHandler,
                              Host!CleanPressed, Host!RemoveFolder, Host!Close, Host!Exit
  <2> QED BY <2>1, <2>2 DEF HostKinds
<1>2. CASE Host!DataHandleThread
  <2>1. queue_read' = Tail(queue_read) /\ queue_read # <<>>
    BY <1>2 DEF Host!DataHandleThread
  <2>2. Tail(queue_read) \in Seq(Q) /\ Len(Tail(queue_read)) <= Len(queue_read)
    BY <2>1, EmptySeq DEF HostKinds
  <2>3. Len(queue_read') <= QueueSize
    BY <1>0, <2>1, <2>2 DEF HostKinds
  <2>4. UNCHANGED <<window, button, queue_write, serial, folder>>
    BY <1>2 DEF Host!DataHandleThread, Host!gui_vars, Host!screen, Host!serial_vars
  <2> QED BY <2>1, <2>2, <2>3, <2>4 DEF HostKinds
<1>3. CASE Host!serial_handle
  <2>1. UNCHANGED <<window, button>>
    BY <1>3 DEF Host!serial_handle, Host!gui_vars, Host!screen
  <2>2. /\ serial' \in {"loop", "folder", "open", "RADAR_DADA", "FAIL_EVENT", "exiting", "crashing",
                        "ended", "crashed"}
        /\ folder' \in {"none", "empty", "files"}
    BY <1>3 DEF Host!serial_handle, Host!TakeCommand, Host!JoinFeeder, Host!ReadRow, Host!MakeFolder,
                Host!OpenFile, Host!ReadOther, Host!PutOther, Host!ExitTaken, HostKinds
  <2>3. Len(queue_write') <= QueueSize
    <3>1. CASE queue_write' = queue_write
      BY <3>1 DEF HostKinds
    <3>2. CASE queue_write # <<>> /\ queue_write' = Tail(queue_write)
      <4>1. Len(Tail(queue_write)) <= Len(queue_write)
        BY <3>2, EmptySeq DEF HostTyped
      <4> QED BY <1>0, <3>2, <4>1 DEF HostKinds
    <3> QED
      BY <1>3, <3>1, <3>2 DEF Host!serial_handle, Host!TakeCommand, Host!JoinFeeder, Host!ReadRow,
                              Host!MakeFolder, Host!OpenFile, Host!ReadOther, Host!PutOther
  <2>4. queue_read' \in Seq(Q) /\ Len(queue_read') <= QueueSize
    <3>1. CASE queue_read' = queue_read
      BY <3>1 DEF HostKinds
    <3>2. ASSUME NEW x \in Q, Len(queue_read) < QueueSize, queue_read' = Append(queue_read, x)
          PROVE  queue_read' \in Seq(Q) /\ Len(queue_read') <= QueueSize
      <4>1. Append(queue_read, x) \in Seq(Q) /\ Len(Append(queue_read, x)) = Len(queue_read) + 1
        BY DEF HostKinds
      <4> QED BY <1>0, <3>2, <4>1
    <3>3. CASE Host!PassOn("CSI_DATA")
      <4>1. Len(queue_read) = QueueSize \/ Len(queue_read) < QueueSize
        BY <1>0 DEF HostKinds
      <4> QED BY <3>1, <3>2, <3>3, <4>1 DEF Host!PassOn
    <3>4. CASE Host!PutOther
      BY <3>2, <3>4 DEF Host!PutOther
    <3> QED
      BY <1>3, <3>1, <3>3, <3>4 DEF Host!serial_handle, Host!TakeCommand, Host!JoinFeeder,
                                    Host!ReadRow, Host!MakeFolder, Host!OpenFile, Host!ReadOther
  <2> QED BY <2>1, <2>2, <2>3, <2>4 DEF HostKinds
<1>4. CASE Host!DeviceTick
  BY <1>4 DEF Host!DeviceTick, Host!gui_vars, Host!screen, Host!serial_vars, Host!queues, HostKinds
<1> QED BY <1>1, <1>2, <1>3, <1>4 DEF Host!Next

(* The kinds of EvalServer: at first, *)
LEMMA EvalKindsInit == ASSUME Eval!Init PROVE EvalKinds
<1>1. RX_BUFFER_SIZE \in Nat /\ RX_BUFFER_SIZE > 0
  BY ComponentsAssumption DEF ComponentsAssumption
<1> QED BY <1>1 DEF Eval!Init, EvalKinds, Connected

(* and after each step. *)
LEMMA EvalKindsKept == ASSUME EvalKinds, StreamTyped, Eval!Next PROVE EvalKinds'
<1>0. /\ RX_BUFFER_SIZE \in Nat /\ RX_BUFFER_SIZE > 0 /\ Len(<<>>) = 0
      /\ Len(rx_buffer) \in Nat /\ Len(unsent) \in Nat
  <2>1. RX_BUFFER_SIZE \in Nat /\ RX_BUFFER_SIZE > 0
    BY ComponentsAssumption DEF ComponentsAssumption
  <2>2. rx_buffer \in Seq(Eval!Chars) /\ unsent \in Seq(Eval!Chars)
    BY DEF StreamTyped
  <2> QED BY <2>1, <2>2, LenProperties
<1>1. CASE Eval!Receive
  <2>1. PICK n \in 1 .. Eval!Room :
          n <= Len(unsent) /\ rx_buffer' = rx_buffer \o SubSeq(unsent, 1, n)
    BY <1>1 DEF Eval!Receive
  <2>2. n \in Nat /\ n >= 1 /\ n <= RX_BUFFER_SIZE - Len(rx_buffer) - 1
    BY <1>0, <2>1 DEF Eval!Room
  <2>3. Len(SubSeq(unsent, 1, n)) = n /\ SubSeq(unsent, 1, n) \in Seq(Eval!Chars)
    BY <1>0, <2>1, <2>2 DEF StreamTyped
  <2>4. Len(rx_buffer') = Len(rx_buffer) + n
    BY <2>1, <2>3 DEF StreamTyped
  <2>5. Len(rx_buffer') < RX_BUFFER_SIZE
    BY <1>0, <2>2, <2>4
  <2> QED BY <1>1, <2>5 DEF Eval!Receive, EvalKinds, Connected
<1>2. CASE Eval!Scan
  <2>1. rx_buffer' = SubSeq(rx_buffer, Eval!end + 1, Len(rx_buffer)) /\ Eval!end > 0
    BY <1>2 DEF Eval!Scan, Eval!Drop
  <2>2. Eval!end \in 1 .. Len(rx_buffer)
    <3>1. FirstOf(rx_buffer, Eval!end, "newline")
      BY StrstrFinds DEF Eval!end
    <3> QED BY <1>0, <2>1, <3>1 DEF FirstOf
  <2>3. Len(rx_buffer') <= Len(rx_buffer)
    BY <1>0, <2>1, <2>2 DEF StreamTyped
  <2>4. Len(rx_buffer') \in Nat /\ Len(rx_buffer') < RX_BUFFER_SIZE
    BY <1>0, <2>1, <2>2, <2>3 DEF StreamTyped, EvalKinds
  <2> QED BY <1>2, <2>4 DEF Eval!Scan, EvalKinds, Connected
<1>3. CASE Eval!Accept
  BY <1>0, <1>3 DEF Eval!Accept, EvalKinds, Connected
<1>4. CASE Eval!Closed
  BY <1>0, <1>4 DEF Eval!Closed, EvalKinds, Connected
<1>5. CASE Eval!radar_evaluate_server \/ Eval!Setup \/ Eval!AcceptFails \/ Eval!Release
           \/ Eval!ScanDone \/ Eval!Spin
  BY <1>5 DEF Eval!radar_evaluate_server, Eval!Setup, Eval!AcceptFails, Eval!Release,
              Eval!ScanDone, Eval!Spin, Eval!Spins, Eval!vars, Eval!eval_vars, EvalKinds, Connected
<1> QED BY <1>1, <1>2, <1>3, <1>4, <1>5 DEF Eval!Next

(* The kinds of Startup: at first, *)
LEMMA BootKindsInit == ASSUME Start!Init PROVE BootKinds
BY ComponentsAssumption DEF ComponentsAssumption, Start!Init, Start!Off, BootKinds

(* and after each step. *)
LEMMA BootKindsKept == ASSUME BootKinds, BootInv, Start!Next PROVE BootKinds'
<1>0. MaxFaults \in Nat /\ MaxRestarts \in Nat /\ "none" \notin Apps /\ pc \in Nat /\ faults \in Nat
  BY ProgramLen, ComponentsAssumption DEF ComponentsAssumption, BootInv, BootTyped
<1>1. CASE Start!PowerOn
  BY <1>0, <1>1 DEF Start!PowerOn, BootKinds
<1>2. CASE Start!Step
  <2>1. pc > 0 /\ pc' \in {1, pc, pc + 1} /\ pc' > 0
    BY <1>0, <1>2, ProgramLen DEF Start!Step, Start!Call, Start!CallTooEarly, Start!Erase,
                                  Start!Boot, Start!Pass, Start!Booting
  <2>2. UNCHANGED <<app, faults, restarts>> /\ nvs' \in {"ready", nvs}
    BY <1>2 DEF Start!Step, Start!Call, Start!CallTooEarly, Start!Erase
  <2> QED BY <2>1, <2>2 DEF BootKinds
<1>3. CASE Start!CallFails
  <2>1. pc > 0 /\ pc' > 0
    BY <1>0, <1>3, ProgramLen DEF Start!CallFails, Start!Boot, Start!Pass, Start!Booting
  <2> QED BY <1>0, <1>3, <2>1 DEF Start!CallFails, BootKinds
<1>4. CASE Start!ActTooEarly
  <2>1. pc > 0 /\ pc' > 0
    BY <1>0, <1>4 DEF Start!ActTooEarly, Start!Boot, BootInv
  <2> QED BY <1>0, <1>4, <2>1 DEF Start!ActTooEarly, BootKinds
<1>5. ASSUME NEW n \in {"ready", "full"}, Start!Restart(n) PROVE BootKinds'
  <2>1. pc > 0 /\ pc' > 0
    BY <1>0, <1>5 DEF Start!Restart, Start!Boot, BootInv
  <2> QED BY <1>0, <1>5, <2>1 DEF Start!Restart, BootKinds
<1>6. nvs \in {"ready", "full"}
  BY DEF BootKinds
<1> QED
  BY <1>1, <1>2, <1>3, <1>4, <1>5, <1>6 DEF Start!Next, Start!restart_func, Start!reset_func

(* All of them, which with the invariants of the components are the types. *)
Kinds == PresenceKinds /\ GainKinds /\ HostKinds /\ EvalKinds /\ BootKinds
Invariants ==
  /\ RadarInv /\ HostInv /\ PingInv /\ GainInv /\ FftInv
  /\ PresenceInv /\ StreamInv /\ BootInv

(* Every step of any component keeps them. *)
LEMMA KindsKept == ASSUME Kinds, Invariants, [Next]_vars PROVE Kinds'
<1> USE DEF Kinds, Invariants
<1>1. PresenceKinds'
  <2>1. CASE PresenceStep
    BY <2>1, PresenceKindsKept DEF PresenceStep, PresenceInv
  <2>2. CASE UNCHANGED presence_vars
    BY <2>2 DEF presence_vars, PresenceKinds
  <2> QED
    BY <2>1, <2>2 DEF Next, vars, StartStep, PingStep, EvalStep, RadarStep, TransformStep,
                      GainStep, HostStep
<1>2. GainKinds'
  <2>1. CASE GainStep
    BY <2>1, GainKindsKept DEF GainStep, GainInv
  <2>2. CASE UNCHANGED gain_vars
    BY <2>2 DEF gain_vars, GainKinds
  <2> QED
    BY <2>1, <2>2 DEF Next, vars, StartStep, PingStep, EvalStep, RadarStep, PresenceStep,
                      TransformStep, HostStep
<1>3. HostKinds'
  <2>1. CASE HostStep
    BY <2>1, HostKindsKept DEF HostStep, HostInv
  <2>2. CASE UNCHANGED host_vars
    BY <2>2 DEF host_vars, HostKinds
  <2> QED
    BY <2>1, <2>2 DEF Next, vars, StartStep, PingStep, EvalStep, RadarStep, PresenceStep,
                      TransformStep, GainStep
<1>4. EvalKinds'
  <2>1. CASE EvalStep
    BY <2>1, EvalKindsKept DEF EvalStep, StreamInv
  <2>2. CASE UNCHANGED eval_vars
    BY <2>2 DEF eval_vars, EvalKinds, Connected
  <2> QED
    BY <2>1, <2>2 DEF Next, vars, StartStep, PingStep, RadarStep, PresenceStep, TransformStep,
                      GainStep, HostStep
<1>5. BootKinds'
  <2>1. CASE StartStep
    BY <2>1, BootKindsKept DEF StartStep
  <2>2. CASE UNCHANGED boot_vars
    BY <2>2 DEF boot_vars, BootKinds
  <2> QED
    BY <2>1, <2>2 DEF Next, vars, EvalStep, PingStep, RadarStep, PresenceStep, TransformStep,
                      GainStep, HostStep
<1> QED BY <1>1, <1>2, <1>3, <1>4, <1>5

(* The types of each component, from its invariant and its kinds. *)
LEMMA KindsAreTypes == ASSUME Kinds, Invariants PROVE TypeOK
<1>0. MaxFaults \in Nat /\ MaxPackets \in Nat /\ MaxValues \in Nat
  BY ComponentsAssumption DEF ComponentsAssumption
<1>1. Start!TypeOK
  BY <1>0 DEF Kinds, Invariants, BootInv, BootTyped, BootKinds, Start!TypeOK, Start!Off
<1>2. Ping!TypeOK
  BY DEF Invariants, PingInv, PingTyped, IsSession, Ping!TypeOK
<1>3. Eval!TypeOK
  BY DEF Kinds, Invariants, StreamInv, StreamTyped, EvalKinds, Connected, Eval!TypeOK
<1>4. Radar!TypeOK
  BY DEF Invariants, RadarInv, RadarTyped, IsTask, Radar!TypeOK
<1>5. Presence!TypeOK
  BY <1>0 DEF Kinds, Invariants, PresenceInv, PresenceTyped, PresenceKinds, Seconds,
              Presence!TypeOK, Presence!Ring, Presence!Long, Size
<1>6. Transform!TypeOK
  <2>1. Transform!Indices = 0 .. 63 /\ Transform!P = 193
    BY DEF Transform!Indices, Transform!N, Transform!P
  <2>2. Transform!P - 1 = 192
    BY <2>1
  <2>3. Transform!m2 = m \div 2 /\ m \in {1, 2, 4, 8, 16, 32, 64}
    BY DEF Transform!m2, Invariants, FftInv, FftTyped, Sizes
  <2> QED BY <2>1, <2>2, <2>3 DEF Invariants, FftInv, FftTyped, Transform!TypeOK
<1>7. Gain!TypeOK
  BY <1>0 DEF Kinds, Invariants, GainInv, GainTyped, GainKinds, Gain!TypeOK
<1>8. Host!TypeOK
  BY DEF Kinds, Invariants, HostInv, HostTyped, HostKinds, Host!TypeOK
<1> QED BY <1>1, <1>2, <1>3, <1>4, <1>5, <1>6, <1>7, <1>8 DEF TypeOK

(* The variables of every component keep to their types. *)
THEOREM TypesHold == Spec => []TypeOK
<1>1. Init => Kinds
  BY PresenceKindsInit, GainKindsInit, HostKindsInit, EvalKindsInit, BootKindsInit DEF Init, Kinds
<1>2. Kinds /\ Invariants /\ [Next]_vars => Kinds'
  BY KindsKept
<1>3. Kinds /\ Invariants => TypeOK
  BY KindsAreTypes
<1>4. Spec => []Invariants
  BY RadarInvariant, HostInvariant, PingInvariant, GainInvariant, FftInvariant,
     PresenceInvariant, StreamInvariant, BootInvariant, PTL DEF Invariants
<1> QED
  BY <1>1, <1>2, <1>3, <1>4, PTL DEF Spec
=============================================================================
