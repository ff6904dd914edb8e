------------------------------- MODULE Signal -------------------------------
(***************************************************************************)
(* What happens to the samples of a measurement between two nodes and the  *)
(* time difference: node::getPacketData, the transform and interpolation   *)
(* in node::run, node::UpSampleSpectrum (node.cpp), fft::coolytukey and    *)
(* fft::invert (fft.cpp), and tdoa::correlate (tdoa.cpp).                  *)
(*                                                                         *)
(* All steps before the peak is looked for are linear, so impulses are the *)
(* signals: one, or two next to each other, which have nothing in the bin  *)
(* of the highest frequency.  Numbers are exact.                           *)
(***************************************************************************)
EXTENDS ExactComplex, SequencesExt, FiniteSetsExt

CONSTANTS Captured,     \* numbers of samples a node may deliver
          Delays,       \* flight times from the transmitter, in samples
          Rates,        \* sample rates, in units of a quarter of _minSampleRate
          Rotations     \* phase of the carrier after a delay of one sample

ASSUME SignalAssumption ==
  /\ Captured \subseteq 1..17    \* 16 are kept, four times as many fit Order
  /\ Delays \subseteq Nat
  /\ Rates \subseteq 1..4 /\ Rotations \subseteq Nat

Node == {"master", "slave"}
MinRate == 4
Decimation == 4
Loud == Order              \* height of the impulses
Unusable == 2147483647     \* numeric_limits<int32_t>::max()
SampleTime == 100          \* ns, of a capture that is not interpolated
Modes == {"test", "real"}
Pulses == {"one", "two"}

VARIABLES pc,       \* step of the measurement
          samples,  \* how many samples the nodes were asked for
          delay,    \* flight time to each node
          pulse,    \* what the transmitter sends
          iqData,   \* of each node's capture
          heard,    \* history: the samples the node decoded
          twiddle,  \* of the fft object of each node
          factor,   \* interpolation
          result    \* time difference of the slave in ns

vars == <<pc, samples, delay, pulse, iqData, heard, twiddle, factor, result>>

(* std::valarray::cshift *)
CShift(x, n) == SubSeq(x, n + 1, Len(x)) \o SubSeq(x, 1, n)

-----------------------------------------------------------------------------
(* fft.cpp *)

(* the constructor: two factors that nobody computes *)
NewTwiddle == <<Zero, Zero>>

(* Mutant of Twiddle: computed once for all. *)
TwiddleOnce(known, n) ==
  IF known = NewTwiddle
    THEN [k \in 1..n \div 2 |-> Root(-((k - 1) * (Order \div n)))]
    ELSE known

(* coolytukey: the factors after a transform of n samples *)
Twiddle(known, n) ==
  IF n \div 2 > Len(known)
    THEN [k \in 1..n \div 2 |-> Root(-((k - 1) * (Order \div n)))]
    ELSE known

(* coolytukey: the factor of the k-th of a half; i advances by step *)
Factor(factors, half, k) == LET step == Len(factors) \div half IN factors[(k - 1) * step + 1]

(* both halves put together *)
Combined(even, odd, factors) ==
  LET half == Len(even)
      turned == [k \in 1..half |-> Times(Factor(factors, half, k), odd[k])]
  IN  [k \in 1..half |-> Plus(even[k], turned[k])] \o [k \in 1..half |-> Minus(even[k], turned[k])]

RECURSIVE Transform(_, _)
Transform(x, factors) ==
  IF Len(x) <= 1 THEN x
  ELSE LET half == Len(x) \div 2
       IN  Combined(Transform([k \in 1..half |-> x[2 * k - 1]], factors),
                    Transform([k \in 1..half |-> x[2 * k]], factors),
                    factors)

Conjugated(x) == [i \in DOMAIN x |-> Conj(x[i])]

(* fft::invert *)
Invert(x, factors) ==
  LET y == Transform(Conjugated(x), factors)
  IN  [i \in DOMAIN y |-> Divided(Conj(y[i]), Len(y))]

(* the vectors of the other overloads grow to a power of two *)
PaddedSize(n) == Min({size \in {1, 2, 4, 8, 16} : size >= n})
Padded(x) == x \o [i \in 1..PaddedSize(Len(x)) - Len(x) |-> Zero]

(* transform and invert of vectors: as many results as are given *)
TransformVector(x, known) ==
  SubSeq(Transform(Padded(x), Twiddle(known, PaddedSize(Len(x)))), 1, Len(x))
InvertVector(x, known) ==
  SubSeq(Invert(Padded(x), Twiddle(known, PaddedSize(Len(x)))), 1, Len(x))

(* the definition of the transform, for reference *)
Dft(x) ==
  LET n == Len(x)
      Summand(k, i) == Times(Root(-((i - 1) * (k - 1) * (Order \div n))), x[i])
  IN  [k \in 1..n |-> FoldLeft(LAMBDA sum, i : Plus(sum, Summand(k, i)), Zero, [i \in 1..n |-> i])]

-----------------------------------------------------------------------------
(* getPacketData *)

(* the number of samples kept: the power of two below the number captured  *)
RECURSIVE Doubled(_, _)
Doubled(size, n) == IF size < n THEN Doubled(2 * size, n) ELSE size
Kept(n) == Doubled(1, n) \div 2

(* the impulses, of which the first comes at some time *)
Impulses(n, sent, time) ==
  [i \in 1..n |-> IF i - 1 = time \/ (sent = "two" /\ i - 2 = time) THEN Real(Loud) ELSE Zero]

(* the last samples are kept, the first ones may be warm up *)
LastKept(x) == SubSeq(x, Len(x) - Kept(Len(x)) + 1, Len(x))

(* The simulated data: modulation that is the same for every node, delayed *)
(* by its flight time in the frequency domain.                             *)
Delayed(x, late, rotation) ==
  LET n == Len(x)
      factors == Twiddle(NewTwiddle, n)
      centred == CShift(Transform(x, factors), n \div 2)
      Turn(i) == Root(-(late * (rotation + i - 1) * (Order \div n)))
      turned == [i \in 1..n |-> Times(Turn(i), centred[i])]
  IN  Invert(CShift(turned, n \div 2), factors)

-----------------------------------------------------------------------------
(* node::run: twice as many samples until the rate will do *)
RECURSIVE Interpolation(_)
Interpolation(rate) == IF rate < MinRate THEN 2 * Interpolation(2 * rate) ELSE 1

(* node::UpSampleSpectrum: zeros put into the middle.  The bin of the      *)
(* highest frequency is then found at the end of the zeros, the one that is*)
(* halved and copied at their beginning.                                   *)
UpSampled(x, by) ==
  LET shift == Len(x) \div 2
      wide == CShift(x, Len(x) - shift) \o [i \in 1..(by - 1) * Len(x) |-> Zero]
      back == CShift(wide, shift)
      half == Divided(back[shift + 1], 2)
      edged == [back EXCEPT ![shift + 1] = half, ![by * Len(x) - shift + 1] = half]
  IN  [i \in DOMAIN edged |-> Scaled(edged[i], by)]

-----------------------------------------------------------------------------
(* tdoa::correlate, after tdoa::process has conjugated the master *)

(* the absolute value: the largest real part it has in any of 16 phases,   *)
(* one of which is the phase the carrier leaves in these correlations      *)
Phases == {4 * k : k \in 0..Order \div 4 - 1}
Magnitude(z) == Max({RealPart(Times(Root(k), z)) : k \in Phases}) \div 100

Product(master, slave) == [i \in DOMAIN slave |-> Times(slave[i], Conj(master[i]))]

(* the absolute values, no delay in the middle *)
Correlation(master, slave) ==
  LET n == Len(slave)
      complex == Invert(Product(master, slave), Twiddle(NewTwiddle, n))
  IN  CShift([i \in 1..n |-> Magnitude(complex[i])], n \div 2)

Offset(peak, n) == peak - 1 - n \div 2

(* Mutant of SampleStep: node::run leaves the rate as it was. *)
SampleStepKept(by) == SampleTime

(* the time from one sample to the next in a capture interpolated by this   *)
(* factor, by which node::run has multiplied the rate _srtt                *)
SampleStep(by) == SampleTime \div by

Correlate(master, slave) ==
  LET correlation == Correlation(master, slave)
      n == Len(correlation)
      sum == FoldLeft(LAMBDA total, y : total + y, 0, correlation)
      peak == Min({i \in 1..n : \A j \in 1..n : correlation[j] <= correlation[i]})
  IN  IF correlation[peak] * n < 5 * sum
        THEN Unusable
        ELSE Offset(peak, n) * SampleStep(factor)

-----------------------------------------------------------------------------
Init ==
  /\ pc = "idle"
  /\ samples = 0 /\ delay = [n \in Node |-> 0] /\ pulse = "one"
  /\ iqData = [n \in Node |-> <<>>] /\ heard = iqData
  /\ twiddle = [n \in Node |-> NewTwiddle]
  /\ factor = 1 /\ result = Unusable

(* Both nodes measure, for real or simulating. *)
Measure(mode, n, late, sent, rotation) ==
  /\ pc = "idle" /\ pc' = "transform"
  /\ samples' = n /\ delay' = late /\ pulse' = sent
  /\ heard' = [m \in Node |->
       IF mode = "real"
         THEN LastKept(Impulses(n, sent, n - Kept(n) + late[m]))
         ELSE Delayed(Impulses(Kept(n), sent, 0), late[m], rotation)]
  /\ iqData' = heard'
  /\ UNCHANGED <<twiddle, factor, result>>

(* node::run with the fft object of the node, which is used for every      *)
(* capture of whatever size                                                *)
TransformBoth ==
  /\ pc = "transform" /\ pc' = "resample"
  /\ twiddle' = [m \in Node |-> Twiddle(twiddle[m], Len(iqData[m]))]
  /\ iqData' = [m \in Node |-> Transform(iqData[m], twiddle'[m])]
  /\ UNCHANGED <<samples, delay, pulse, heard, factor, result>>

Resample(rate) ==
  /\ pc = "resample" /\ pc' = "correlate"
  /\ factor' = Interpolation(rate)
  /\ iqData' = [m \in Node |-> UpSampled(iqData[m], factor')]
  /\ UNCHANGED <<samples, delay, pulse, heard, twiddle, result>>

Compare ==
  /\ pc = "correlate" /\ pc' = "done"
  /\ result' = Correlate(iqData["master"], iqData["slave"])
  /\ UNCHANGED <<samples, delay, pulse, iqData, heard, twiddle, factor>>

(* the captures are deleted, the nodes live on *)
Delete ==
  /\ pc = "done" /\ pc' = "idle"
  /\ samples' = 0 /\ delay' = [m \in Node |-> 0] /\ pulse' = "one"
  /\ iqData' = [m \in Node |-> <<>>] /\ heard' = [m \in Node |-> <<>>]
  /\ factor' = 1 /\ result' = Unusable
  /\ UNCHANGED twiddle

Next == \/ \E mode \in Modes, n \in Captured, late \in [Node -> Delays],
              sent \in Pulses, rotation \in Rotations :
             Measure(mode, n, late, sent, rotation)
        \/ TransformBoth
        \/ \E rate \in Rates : Resample(rate)
        \/ Compare
        \/ Delete

Spec == Init /\ [][Next]_vars

-----------------------------------------------------------------------------
(* Types: samples are exact complex numbers, as many as were interpolated. *)
TypeOK ==
  /\ pc \in {"idle", "transform", "resample", "correlate", "done"}
  /\ samples \in Captured \cup {0} /\ delay \in [Node -> Delays \cup {0}] /\ pulse \in Pulses
  /\ \A m \in Node : \A x \in {iqData[m], heard[m], twiddle[m]} :
       \A i \in DOMAIN x : x[i] \in Number
  /\ \A m \in Node : Len(iqData[m]) = factor * Len(heard[m])
  /\ factor \in {1, 2, 4} /\ result \in Int

Grown(m) == twiddle[m] # NewTwiddle

(* A node's fft object computes the transform, whatever the sizes of the   *)
(* captures before were, once its factors have been computed at all: they  *)
(* are not for a first capture of less than eight samples.                 *)
SpectrumIsDft ==
  pc = "resample" => \A m \in Node : Grown(m) => iqData[m] = Dft(heard[m])

(* Whatever the object has transformed before, a vector whose length is a  *)
(* power of two comes back from transform and invert; of another the       *)
(* transform is the beginning of that of the vector with zeros behind it.  *)
VectorsComeBack ==
  pc = "resample" =>
    \A m \in Node, n \in {3, 4, 8} : Grown(m) /\ n <= Len(heard[m]) =>
      LET x == SubSeq(heard[m], 1, n)
          y == TransformVector(x, twiddle[m])
      IN  IF n = 3 THEN y = SubSeq(Dft(Padded(x)), 1, n)
          ELSE y = Dft(x) /\ InvertVector(y, twiddle[m]) = x

(* Interpolation keeps the samples of a signal that has nothing in the bin *)
(* of the highest frequency, as an inverse of eight or more samples shows. *)
InterpolationKeepsSamples ==
  pc = "correlate" /\ pulse = "two" =>
    \A m \in Node : Grown(m) /\ Len(iqData[m]) >= 8 =>
      LET wide == Invert(iqData[m], Twiddle(NewTwiddle, Len(iqData[m])))
      IN  \A i \in DOMAIN heard[m] : wide[factor * (i - 1) + 1] = heard[m][i]

(* What the nodes make of their samples before they are compared is exact. *)
SpectraAreExact == SpectrumIsDft /\ VectorsComeBack /\ InterpolationKeepsSamples

(* The time difference is the difference of the flight times, the slave's  *)
(* less the master's, as long as it is within half of the capture: for     *)
(* simulated and real data, and for captures of 16 samples without         *)
(* interpolation and with two or four times as many.  Eight samples are    *)
(* never enough: their peak is less than five times the mean.              *)
TimeDifferenceFound ==
  pc = "done" /\ Kept(samples) >= 8 =>
    LET n == Kept(samples)
        difference == ((delay["slave"] - delay["master"] + n \div 2) % n) - n \div 2
    IN  result = IF n < 16 THEN Unusable ELSE difference * SampleTime
=============================================================================
