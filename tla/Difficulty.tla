----------------------------- MODULE Difficulty -----------------------------
(***************************************************************************)
(* computeDifficulty of src/src/server/blockchain.cpp: how far the mining  *)
(* difficulty moves when the last DIFFICULTY_LOOKBACK blocks took          *)
(* `elapsed' seconds where `expected' were wanted.  One step of difficulty *)
(* is a factor two of work: after n steps the loop looks at elapsed / 2^n  *)
(* (slower than wanted) or at elapsed * 2^n (faster) and goes on while     *)
(* that does not get farther from the expected time.                       *)
(***************************************************************************)
EXTENDS Integers

CONSTANTS
  MinDifficulty,   \* MIN_DIFFICULTY
  MaxRetarget      \* the largest difficulty the loop climbs to, 254 in the code

ASSUME DifficultyAssumption ==
  MinDifficulty \in Nat /\ MaxRetarget \in Nat /\ MinDifficulty <= MaxRetarget

Distance(a, b) == IF a >= b THEN a - b ELSE b - a

\* k after n turns of the loop, which doubles it.
PowerOf2[n \in Nat] == IF n = 0 THEN 1 ELSE 2 * PowerOf2[n - 1]

\* The time the blocks would have taken at a difficulty n steps away.
TimeAfter(elapsed, expected, n) ==
  IF elapsed > expected THEN elapsed \div PowerOf2[n]
  ELSE IF elapsed = 0 THEN 0
  ELSE elapsed * PowerOf2[n]

\* The loop breaks rather than take step n + 1 away from the expected time.
Breaks(elapsed, expected, n) ==
  Distance(TimeAfter(elapsed, expected, n + 1), expected)
    > Distance(TimeAfter(elapsed, expected, n), expected)

\* The number of steps taken when the loop's condition allows `room' of them.
Steps(elapsed, expected, room) ==
  CHOOSE n \in 0 .. room :
    /\ n = room \/ Breaks(elapsed, expected, n)
    /\ \A m \in 0 .. (n - 1) : ~Breaks(elapsed, expected, m)

ComputeDifficulty(current, elapsed, expected) ==
  IF elapsed > expected
  THEN IF current <= MinDifficulty THEN current
       ELSE current - Steps(elapsed, expected, current - MinDifficulty)
  ELSE IF current >= MaxRetarget THEN current
       ELSE current + Steps(elapsed, expected, MaxRetarget - current)
=============================================================================
