------------------------------ MODULE CsiGain ------------------------------
(***************************************************************************)
(* What every receiver does with the gains of the packets it accepts: the  *)
(* CSI callbacks of get-started/csi_recv and csi_recv_router add up those  *)
(* of the first 100 and then force the radio to the average; those of      *)
(* esp-crab/slave_recv and master_recv have the library record them, and   *)
(* pass each packet's gains on to the task that compensates for them.      *)
(*                                                                         *)
(* A gain is a byte, of which the FFT gain is signed (esp_radar.h, and the *)
(* esp-crab receivers) but read as an unsigned field by get-started.       *)
(***************************************************************************)
EXTENDS Integers, Sequences

CONSTANTS
  SAMPLES,             \* 100
  BYTE, WORD,          \* values of a uint8_t, of which the gains are, and a uint16_t
  AgcGains, FftGains,  \* gains that packets have
  MaxPackets           \* bound: packets accepted

VARIABLES
  receiver,     \* "get-started" or "esp-crab"
  s_count,      \* packets accepted
  agc_gain_sum, fft_gain_sum,
  forced,       \* the gains the radio was forced to, one pair per time
  recorded,     \* esp-crab: the gains the library has recorded
  baselines,    \* esp-crab: how many of them there were at each baseline
  compensated,  \* esp-crab: the gains the last packet is compensated for
  gains         \* history: agc and signed fft gain of the sender's packets

sums == <<agc_gain_sum, fft_gain_sum>>
gain_vars == <<receiver, s_count, sums, forced, recorded, baselines, compensated, gains>>

-----------------------------------------------------------------------------
Signed(byte) == IF byte < BYTE \div 2 THEN byte ELSE byte - BYTE
Unsigned(n) == n % BYTE

Init ==
  /\ receiver \in {"get-started", "esp-crab"} /\ s_count = 0
  /\ agc_gain_sum = 0 /\ fft_gain_sum = 0 /\ forced = <<>>
  /\ recorded = <<>> /\ baselines = <<>> /\ compensated = [agc |-> 0, fft |-> 0]
  /\ gains = <<>>

(* Packets without data, or not of the sender or access point, are left    *)
(* out: the callback returns at once.                                      *)
Accepted(info) == info.data /\ info.mac = "sender"

(* get-started: sums of 16 bits; the variant keeps them in bytes.          *)
ByteSum(sum, gain) == (sum + gain) % BYTE
Sum16(sum, gain) == (sum + gain) % WORD
ForceGain(info) ==
  /\ IF s_count < SAMPLES
     THEN /\ agc_gain_sum' = Sum16(agc_gain_sum, info.agc)
          /\ fft_gain_sum' = Sum16(fft_gain_sum, Unsigned(info.fft))
     ELSE UNCHANGED sums
  /\ forced' = IF s_count = SAMPLES
               THEN Append(forced, [agc |-> agc_gain_sum \div SAMPLES,
                                    fft |-> fft_gain_sum \div SAMPLES])
               ELSE forced
  /\ UNCHANGED <<recorded, baselines, compensated>>

(* esp-crab, which does not force the gains: its queue keeps the FFT gain  *)
(* in a uint8_t, and esp_radar_get_gain_compensation takes an int8_t.      *)
RecordGain(info) ==
  /\ recorded' = IF s_count < SAMPLES
                 THEN Append(recorded, [agc |-> info.agc, fft |-> info.fft]) ELSE recorded
  /\ baselines' = IF s_count = SAMPLES THEN Append(baselines, Len(recorded)) ELSE baselines
  /\ compensated' = [agc |-> info.agc, fft |-> Signed(Unsigned(info.fft))]
  /\ UNCHANGED <<sums, forced>>

wifi_csi_rx_cb ==
  \E info \in [data : BOOLEAN, mac : {"sender", "other"}, agc : AgcGains, fft : FftGains] :
    IF Accepted(info)
    THEN /\ s_count < MaxPackets
         /\ \/ receiver = "get-started" /\ ForceGain(info)
            \/ receiver = "esp-crab" /\ RecordGain(info)
         /\ s_count' = s_count + 1
         /\ gains' = Append(gains, [agc |-> info.agc, fft |-> info.fft])
         /\ UNCHANGED receiver
    ELSE UNCHANGED gain_vars

Next == wifi_csi_rx_cb

-----------------------------------------------------------------------------
TypeOK ==
  /\ s_count \in 0 .. MaxPackets /\ Len(gains) = s_count
  /\ agc_gain_sum \in 0 .. WORD - 1 /\ fft_gain_sum \in 0 .. WORD - 1
  /\ compensated.fft \in -(BYTE \div 2) .. BYTE \div 2 - 1

(* get-started forces the gains once, when packet SAMPLES + 1 is accepted: *)
(* the AGC to the average of the first SAMPLES gains, rounded down, and    *)
(* the FFT scale too as long as those gains have one sign (the average of  *)
(* the bytes of 1 and -1 is neither). esp-crab has the library record the  *)
(* same gains and takes one baseline of them; and a packet is compensated  *)
(* for the gains it came with.                                             *)
Average(gain(_)) ==
  LET total[n \in 0 .. SAMPLES] == IF n = 0 THEN 0 ELSE total[n - 1] + gain(n)
  IN total[SAMPLES] \div SAMPLES
First == [n \in 1 .. IF s_count < SAMPLES THEN s_count ELSE SAMPLES |-> gains[n]]
OneSign == \/ \A n \in DOMAIN First : gains[n].fft >= 0
           \/ \A n \in DOMAIN First : gains[n].fft < 0
GainIsAverage ==
  /\ receiver = "get-started" =>
       /\ Len(forced) = IF s_count > SAMPLES THEN 1 ELSE 0
       /\ \A f \in DOMAIN forced :
            /\ LET agc(n) == gains[n].agc IN forced[f].agc = Average(agc)
            /\ OneSign => LET fft(n) == gains[n].fft IN Signed(forced[f].fft) = Average(fft)
  /\ receiver = "esp-crab" =>
       /\ recorded = First
       /\ baselines = IF s_count > SAMPLES THEN <<SAMPLES>> ELSE <<>>
       /\ s_count > 0 => compensated = gains[s_count]
=============================================================================
