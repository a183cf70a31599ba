--------------------------- MODULE DifficultyLoop ---------------------------
(***************************************************************************)
(* computeDifficulty as the code runs it, one turn of its while loop per   *)
(* step, against the operator ComputeDifficulty the chain's model uses.    *)
(* The turn compares the times at k and lastK, the powers of two of this   *)
(* turn and the one before, and the loop ends at MinDifficulty going down  *)
(* and at MaxRetarget going up.                                            *)
(***************************************************************************)
EXTENDS Difficulty

CONSTANTS
  Difficulties, Times, Targets   \* the arguments computeDifficulty is called with

LoopAssumption ==
  /\ MinDifficulty \in Nat /\ MaxRetarget \in Nat
  /\ Difficulties \subseteq Nat /\ Times \subseteq Int /\ Targets \subseteq Nat

VARIABLES
  current, elapsed, expected,    \* the arguments
  newDifficulty, k, lastK,       \* the locals
  done                           \* the function has returned

args == <<current, elapsed, expected>>
vars == <<args, newDifficulty, k, lastK, done>>

Init ==
  /\ current \in Difficulties /\ elapsed \in Times /\ expected \in Targets
  /\ newDifficulty = current
  /\ k = 2 /\ lastK = 1
  /\ done = FALSE

Slow == elapsed > expected

\* elapsedTime/k on the way down, elapsedTime*k on the way up.
TimeAt(m) == IF Slow THEN elapsed \div m ELSE elapsed * m

\* (Mutant: the loop ends a difficulty too soon.)
HasRoomForTwo ==
  IF Slow THEN newDifficulty > MinDifficulty + 1 ELSE newDifficulty < MaxRetarget - 1

HasRoom == IF Slow THEN newDifficulty > MinDifficulty ELSE newDifficulty < MaxRetarget

Farther == Distance(TimeAt(k), expected) > Distance(TimeAt(lastK), expected)

\* (Mutant: lastK is left behind.)
TurnForgetsLastK ==
  /\ ~done /\ HasRoom /\ ~Farther
  /\ newDifficulty' = IF Slow THEN newDifficulty - 1 ELSE newDifficulty + 1
  /\ k' = k * 2
  /\ UNCHANGED <<args, lastK, done>>

Turn ==
  /\ ~done /\ HasRoom /\ ~Farther
  /\ newDifficulty' = IF Slow THEN newDifficulty - 1 ELSE newDifficulty + 1
  /\ lastK' = k
  /\ k' = k * 2
  /\ UNCHANGED <<args, done>>

Leave ==
  /\ ~done /\ (HasRoom => Farther)
  /\ done' = TRUE
  /\ UNCHANGED <<args, newDifficulty, k, lastK>>

Next == Turn \/ Leave

Spec == Init /\ [][Next]_vars

\* The operator the model of the chain uses is what the loop computes.
LoopComputes == done => newDifficulty = ComputeDifficulty(current, elapsed, expected)

\* The answer is the best there is: no other difficulty on the same side, down
\* to MIN_DIFFICULTY or up to 254, brings the time of the blocks closer to what
\* was wanted.
Candidates ==
  IF Slow THEN MinDifficulty .. current ELSE current .. MaxRetarget

IdealTime(d) == TimeAt(PowerOf2[Distance(d, current)])

ClosestDifficulty ==
  done /\ current \in MinDifficulty .. MaxRetarget =>
    /\ newDifficulty \in Candidates
    /\ \A d \in Candidates :
         Distance(IdealTime(newDifficulty), expected) <= Distance(IdealTime(d), expected)
=============================================================================
