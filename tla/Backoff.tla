------------------------------- MODULE Backoff -------------------------------
(***************************************************************************)
(* The delay that backoff (pkg/fluent/watcher.go) computes from the number *)
(* of restarts, in the arithmetic it uses: a float64 power converted to an *)
(* int64 and multiplied, modulo 2^64, by the nanoseconds of a second.      *)
(* A 64-bit integer is the sequence of its four 16-bit limbs, the lowest   *)
(* first: TLC's own integers have 32 bits.                                 *)
(***************************************************************************)
EXTENDS Integers, Sequences

CONSTANTS
  MaxRestarts,   \* bound: restarts in a row without a reset
  Saturates      \* a float64 out of range becomes 2^63-1 (arm64) or -2^63 (amd64)

ASSUME BackoffAssumption == MaxRestarts \in Nat /\ Saturates \in BOOLEAN

VARIABLES
  restartTimes,  \* Config.restartTimes
  delayTime      \* the delay of the last timer.Reset of backoff

vars == <<restartTimes, delayTime>>

Limb   == 65536
Zero   == <<0, 0, 0, 0>>
Second == <<51712, 15258, 0, 0>>           \* 10^9 nanoseconds
MinusSecond == <<13824, 50277, 65535, 65535>>

(* The operators named Bug... are faulty variants of the definition that   *)
(* follows them: each property is checked to fail for one of them.         *)

\* The highest limb is not cut off.
BugTimesWide(x, k) ==
  LET carry[i \in 0..4] == IF i = 0 THEN 0 ELSE (x[i] * k + carry[i - 1]) \div Limb
  IN  [i \in 1..4 |-> IF i = 4 THEN x[i] * k + carry[i - 1] ELSE (x[i] * k + carry[i - 1]) % Limb]

\* x * k modulo 2^64, for 0 <= k < 2^15; carry[i] is what limb i leaves over.
Times(x, k) ==
  LET carry[i \in 0..4] == IF i = 0 THEN 0 ELSE (x[i] * k + carry[i - 1]) \div Limb
  IN  [i \in 1..4 |-> (x[i] * k + carry[i - 1]) % Limb]

Negative(x) == x[4] >= Limb \div 2

\* x >= y as integers without a sign.
BugUnsigned(x, y) == x = y \/ \E i \in 1..4 : x[i] > y[i] /\ \A j \in (i + 1)..4 : x[j] = y[j]

\* x >= y as signed integers, for y >= 0
AtLeast(x, y) ==
  /\ ~Negative(x)
  /\ x = y \/ \E i \in 1..4 : x[i] > y[i] /\ \A j \in (i + 1)..4 : x[j] = y[j]

maxDelayTime == Times(Second, 300)

\* time.Duration(math.Pow(2, n)) * time.Second
Shifted[n \in 0..63] == IF n = 0 THEN Second ELSE Times(Shifted[n - 1], 2)
Product(n) ==
  IF n < 63 THEN Shifted[n] ELSE IF Saturates THEN MinusSecond ELSE Shifted[63]

Delay(n) == IF AtLeast(Product(n), maxDelayTime) THEN maxDelayTime ELSE Product(n)

Init == restartTimes = 0 /\ delayTime = Zero

\* The restart is counted before the delay is computed.
BugCountFirst ==
  /\ restartTimes < MaxRestarts
  /\ delayTime' = Delay(restartTimes + 1)
  /\ restartTimes' = restartTimes + 1

\* The process has ended once more.
backoff ==
  /\ restartTimes < MaxRestarts
  /\ delayTime' = Delay(restartTimes)
  /\ restartTimes' = restartTimes + 1

\* It had run for ten minutes (Wait), or a file has changed (resetTimer).
Reset == restartTimes' = 0 /\ UNCHANGED delayTime

Next == backoff \/ Reset

Spec == Init /\ [][Next]_vars

-----------------------------------------------------------------------------
(* Properties.                                                             *)

\* The documented delay, with no arithmetic to overflow: 1 s, 2 s, 4 s, ...,
\* capped at five minutes.
Documented(n) == IF n < 9 THEN Times(Second, 2^n) ELSE Times(Second, 300)

\* Type invariant: a delay is four 16-bit limbs.
TypeOK == restartTimes \in 0..MaxRestarts /\ delayTime \in [1..4 -> 0..(Limb - 1)]

\* For the first 34 restarts in a row the delay is the documented one (backoff).
DocumentedAtFirst ==
  [][restartTimes' > restartTimes /\ restartTimes < 34 =>
       delayTime' = Documented(restartTimes)]_vars

\* From the 55th restart in a row on there is no delay at all, on either processor:
\* nothing is left of the product but its sign, and a timer that is reset to nothing,
\* or to less, fires at once (backoff).
NoDelayAtLast ==
  [][restartTimes' > restartTimes /\ restartTimes >= 54 =>
       delayTime' = Zero \/ Negative(delayTime')]_vars

\* It is the documented one for every restart ("exponential back-off delay (1s,
\* 2s, 4s, ...), that is capped at five minutes", addFluentBitWatcher).
DelayIsDocumented ==
  [][restartTimes' > restartTimes => delayTime' = Documented(restartTimes)]_vars
=============================================================================
