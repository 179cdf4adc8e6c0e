-------------------------------- MODULE Fft --------------------------------
(***************************************************************************)
(* The transform of both esp-crab receivers (main/app/app_ifft.c, the same *)
(* file in each): fft_iq turns the 64 subcarriers of a packet into an      *)
(* impulse response in place, and the receiver reports its first element.  *)
(* fft does the same to floats: only the permutation differs.              *)
(*                                                                         *)
(* The algorithm is linear and only adds, subtracts and multiplies by      *)
(* twiddle factors, so it is run on the numbers modulo the prime 193,      *)
(* which have 64th roots of unity as the complex numbers have, and on unit *)
(* vectors. Rounding is abstracted. The factor of a stage is external: the *)
(* fixed-point library divides the angle by m as a raw number and not as a *)
(* fixed-point one, so besides the right factors any others are tried.     *)
(***************************************************************************)
EXTENDS Integers, Sequences

CONSTANTS
  Inputs,       \* positions of the 1 in the inputs tried
  WrongFactors  \* twiddle factors tried instead of the right ones

VARIABLES
  callee,   \* "fft_iq" or "fft"
  X,        \* the array
  inverse,
  input,    \* history: the position of the 1
  factor,   \* 0 when the twiddle factors are right, a wrong one otherwise
  m, j, w,  \* size of the butterflies, which of them, and their factor
  stage     \* "called", "permuted" (between two loops), "scale" or "done"

fft_vars == <<callee, X, inverse, input, factor, m, j, w, stage>>

-----------------------------------------------------------------------------
P == 193
N == 64
log2N == 6
Root == 125     \* of order 64
Unscale == 190  \* 64 * 190 = 1 modulo 193
Indices == 0 .. N - 1
Times(a, b) == (a * b) % P
RootPower ==
  LET power[i \in Indices] == IF i = 0 THEN 1 ELSE Times(Root, power[i - 1]) IN power

(* The bits of x, of which there are log2n, in reverse. *)
bitReverse(x, log2n) ==
  LET r[i \in 0 .. log2n] ==
        IF i = 0 THEN [n |-> 0, x |-> x]
        ELSE [n |-> 2 * r[i - 1].n + (r[i - 1].x % 2), x |-> r[i - 1].x \div 2]
  IN r[log2n].n
bitReverseTable == <<
  0, 32, 16, 48, 8, 40, 24, 56, 4, 36, 20, 52, 12, 44, 28, 60,
  2, 34, 18, 50, 10, 42, 26, 58, 6, 38, 22, 54, 14, 46, 30, 62,
  1, 33, 17, 49, 9, 41, 25, 57, 5, 37, 21, 53, 13, 45, 29, 61,
  3, 35, 19, 51, 11, 43, 27, 59, 7, 39, 23, 55, 15, 47, 31, 63>>

Init ==
  /\ input \in Inputs /\ inverse \in BOOLEAN /\ factor \in {0} \union WrongFactors
  /\ callee \in {"fft_iq", "fft"} /\ (callee = "fft" => factor = 0)
  /\ X = [i \in Indices |-> IF i = input THEN 1 ELSE 0]
  /\ m = 1 /\ j = 0 /\ w = 1 /\ stage = "called"

-----------------------------------------------------------------------------
(* Bit-reversed addressing permutation. *)
Permute ==
  /\ stage = "called"
  /\ X' = [i \in Indices |->
             X[IF callee = "fft" THEN bitReverse(i, log2N) ELSE bitReverseTable[i + 1]]]
  /\ stage' = "permuted"
  /\ UNCHANGED <<callee, inverse, input, factor, m, j, w>>

(* exp(-2 pi i / size), or its conjugate. *)
Factor(size) ==
  IF factor # 0 THEN factor
  ELSE RootPower[(IF inverse THEN N \div size ELSE N - N \div size) % N]
wm == Factor(m)

(* A stage begins with the factor 1; the variant with its root. *)
WAtRoot(root) == root
FirstW(root) == 1
BeginStage ==
  /\ stage = "permuted" /\ m < N
  /\ m' = 2 * m /\ j' = 0 /\ w' = FirstW(Factor(2 * m))
  /\ stage' = "butterflies"
  /\ UNCHANGED <<callee, X, inverse, input, factor>>

(* All butterflies of one factor, for k from j in steps of m. *)
m2 == m \div 2
Butterflies ==
  /\ stage = "butterflies" /\ j < m2
  /\ X' = [i \in Indices |->
       CASE i % m = j -> (X[i] + Times(w, X[i + m2])) % P
         [] i % m = j + m2 -> (X[i - m2] - Times(w, X[i])) % P
         [] OTHER -> X[i]]
  /\ w' = Times(w, wm) /\ j' = j + 1
  /\ UNCHANGED <<callee, inverse, input, factor, m, stage>>

EndStage ==
  /\ stage = "butterflies" /\ j = m2
  /\ stage' = IF m < N THEN "permuted" ELSE "scale"
  /\ UNCHANGED <<callee, X, inverse, input, factor, m, j, w>>

Scale ==
  /\ stage = "scale"
  /\ X' = IF inverse THEN [i \in Indices |-> Times(Unscale, X[i])] ELSE X
  /\ stage' = "done"
  /\ UNCHANGED <<callee, inverse, input, factor, m, j, w>>

Next == Permute \/ BeginStage \/ Butterflies \/ EndStage \/ Scale

-----------------------------------------------------------------------------
TypeOK ==
  /\ X \in [Indices -> 0 .. P - 1] /\ w \in 0 .. P - 1
  /\ m \in {1, 2, 4, 8, 16, 32, 64} /\ j \in 0 .. m2
  /\ stage \in {"called", "permuted", "butterflies", "scale", "done"}

(* After the stage of size m each block of m elements is the transform of  *)
(* every (N/m)th element of the input: with the right factors all of it,   *)
(* and with any factors at all its first element. So fft and fft_iq end    *)
(* with the discrete Fourier transform, or the inverse one with its scale, *)
(* and the element that the receivers report is right, the mean of the     *)
(* input.                                                                  *)
Partial(i) ==
  IF i \div m # bitReverse(input, log2N) \div m THEN 0
  ELSE LET turns == (i % m) * (input \div (N \div m)) * (N \div m)
       IN RootPower[(IF inverse THEN turns ELSE N * N - turns) % N]
Transformed ==
  stage \in {"permuted", "scale", "done"} =>
    \A i \in Indices : factor = 0 \/ i % m = 0 =>
      X[i] = IF stage = "done" /\ inverse THEN Times(Unscale, Partial(i)) ELSE Partial(i)
=============================================================================
