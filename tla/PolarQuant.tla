------------------------------ MODULE PolarQuant ------------------------------
(***************************************************************************)
(* Polar quantization of a weight vector: its norm on a logarithmic scale in   *)
(* one byte, and one byte per angle; the bytes as written to a file, which may  *)
(* be cut short; and the way back.                                          *)
(*                                                                         *)
(* A vector is given by what the encoder measures: the logarithm of its norm   *)
(* and the angle acos yields for every component but the last, whose sign       *)
(* settles on which side the last angle lies.  Reals are integers in units of   *)
(* a fraction of a quantization step; the trigonometry is left out.           *)
(***************************************************************************)
EXTENDS Integers, Sequences, SequencesExt

CONSTANTS
  Levels,  \* values of a byte: 256
  Scale,   \* units per quantization step, even
  Logs,    \* logarithms of norms tried, in units
  Tilts,   \* angles tried, 0 .. half a turn, in units
  MaxDim   \* bound: dimension of a vector

ASSUME QuantAssumption ==
  /\ Levels \in Nat \ {0} /\ Levels % 2 = 0
  /\ Scale \in Nat \ {0} /\ Scale % 2 = 0
  /\ Logs \subseteq Int /\ (\A log \in Logs : log < 2 * Levels * Scale /\ log > -2 * Levels * Scale)
  /\ Tilts \subseteq 0..(Levels \div 2) * Scale
  /\ MaxDim \in Nat

VARIABLES
  vector,    \* what is quantized
  encoded,      \* the bytes of it
  restored   \* what is read back from them

quantVars == <<vector, encoded, restored>>

Turn == Levels * Scale
ZeroNorm == -2 * Turn     \* of weights whose squares vanish in f32
OverflownNorm == 2 * Turn \* of finite weights whose squares are too large for f32
NotRead == [kind |-> "nothing"]
Refused == [kind |-> "refused"]

(* A one-dimensional vector has a sign and no angles.  Divided by an infinite    *)
(* norm all weights are zero, and every angle measured is a right angle.        *)
Directions(dim) ==
  [log : Logs, tilts : [1..dim - 1 -> Tilts], negative : BOOLEAN]
    \cup [log : {ZeroNorm}, tilts : [1..dim - 1 -> {Turn \div 4}], negative : BOOLEAN]
    \cup [log : {OverflownNorm}, tilts : [1..dim - 1 -> {Turn \div 4}],
          negative : IF dim = 1 THEN BOOLEAN ELSE {FALSE}]
Vectors == UNION {Directions(dim) : dim \in 1..MaxDim}

QuantInit ==
  /\ vector \in Vectors
  /\ encoded = <<>>
  /\ restored = NotRead

----------------------------------------------------------------------------
RoundStep(units) == (units + Scale \div 2) \div Scale
Clamp(n) == IF n < 0 THEN 0 ELSE IF n > Levels - 1 THEN Levels - 1 ELSE n

(* A norm that is zero or not finite becomes the least norm.                   *)
QuantizeNorm(log) == IF log \in {ZeroNorm, OverflownNorm} THEN 0 ELSE Clamp(RoundStep(log) + Levels \div 2)
DequantizeNorm(q) == (q - Levels \div 2) * Scale

\* A fault: a full turn is clamped rather than wrapped.
QuantizeAngle_Fault(theta) == Clamp(RoundStep(theta % Turn))

(* rem_euclid brings the angle into one turn; the last half step rounds up to    *)
(* a full turn, which is zero again.                                          *)
QuantizeAngle(theta) == RoundStep(theta % Turn) % Levels
DequantizeAngle(q) == q * Scale

SignedTilt(v, i) == IF i = Len(v.tilts) /\ v.negative THEN Turn - v.tilts[i] ELSE v.tilts[i]

QuantizeVector(v) ==
  [dim    |-> Len(v.tilts) + 1,
   norm   |-> QuantizeNorm(v.log),
   angles |-> IF v.tilts = <<>> THEN <<IF v.negative THEN Levels \div 2 ELSE 0>>
              ELSE [i \in DOMAIN v.tilts |-> QuantizeAngle(SignedTilt(v, i))]]

(* to_bytes; the four bytes of the dimension are one number here.             *)
ToBytes(pq) == <<pq.dim, pq.norm>> \o pq.angles

Encode ==
  /\ encoded = <<>>
  /\ encoded' = ToBytes(QuantizeVector(vector))
  /\ UNCHANGED <<vector, restored>>

(* The file loses its end before it is read.                                 *)
LoseEnd(n) ==
  /\ restored = NotRead
  /\ n < Len(encoded)
  /\ encoded' = SubSeq(encoded, 1, n)
  /\ encoded' # <<>>
  /\ UNCHANGED <<vector, restored>>

ExpectedAngles(dim) == IF dim > 1 THEN dim - 1 ELSE 1

FromBytes(bytes) ==
  IF Len(bytes) < 2 \/ Len(bytes) < 2 + ExpectedAngles(bytes[1]) THEN Refused
  ELSE [kind |-> "quantized", dim |-> bytes[1], norm |-> bytes[2],
        angles |-> SubSeq(bytes, 3, 2 + ExpectedAngles(bytes[1]))]

DequantizeVector(pq) ==
  [kind |-> "vector", log |-> DequantizeNorm(pq.norm),
   angles |-> IF pq.dim = 1 THEN <<>> ELSE [i \in DOMAIN pq.angles |-> DequantizeAngle(pq.angles[i])],
   negative |-> pq.dim = 1 /\ pq.angles[1] >= Levels \div 2]

Decode ==
  /\ encoded # <<>> /\ restored = NotRead
  /\ restored' = IF FromBytes(encoded) = Refused THEN Refused ELSE DequantizeVector(FromBytes(encoded))
  /\ UNCHANGED <<vector, encoded>>

QuantNext == Encode \/ (\E n \in 1..MaxDim + 2 : LoseEnd(n)) \/ Decode
QuantSpec == QuantInit /\ [][QuantNext]_quantVars

----------------------------------------------------------------------------
QuantTypeOK ==
  /\ vector \in Vectors
  /\ \A i \in 2..Len(encoded) : encoded[i] \in 0..Levels - 1

AngleError(a, b) == LET gap == (a - b) % Turn IN IF gap < Turn - gap THEN gap ELSE Turn - gap
NormError(log, back) == IF log > back THEN log - back ELSE back - log
InRange(log) == log >= DequantizeNorm(0) /\ log <= DequantizeNorm(Levels - 1)

(* What is read back has the dimension of the vector; its norm is off by at most *)
(* half a step, or is the end of the scale that the norm lies beyond; each angle  *)
(* is off by at most half a step around the turn; a single weight keeps its      *)
(* sign.  Only a norm that overflows is restored as the least.  A file that was   *)
(* cut short is refused.                                                     *)
QuantRoundTrip ==
  /\ restored = Refused <=> restored # NotRead /\ Len(encoded) < 2 + ExpectedAngles(Len(vector.tilts) + 1)
  /\ restored \notin {NotRead, Refused} =>
       /\ Len(restored.angles) = Len(vector.tilts)
       /\ IF vector.log \in {ZeroNorm, OverflownNorm} THEN restored.log = DequantizeNorm(0)
          ELSE IF InRange(vector.log) THEN 2 * NormError(vector.log, restored.log) <= Scale
          ELSE restored.log \in {DequantizeNorm(0), DequantizeNorm(Levels - 1)}
                 /\ (restored.log > vector.log <=> vector.log < DequantizeNorm(0))
       /\ \A i \in DOMAIN vector.tilts :
            2 * AngleError(restored.angles[i], SignedTilt(vector, i)) <= Scale
       /\ vector.tilts = <<>> => restored.negative = vector.negative
=============================================================================
