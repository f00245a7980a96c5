---------------------------- MODULE BeaconFinality ----------------------------
(***************************************************************************)
(* The beacon node as the two scanning processes see it: the epoch it      *)
(* reports as finalized, which only grows, and which epochs epochReporter  *)
(* agrees to scan because of it.                                           *)
(***************************************************************************)
EXTENDS Integers, Sequences, FiniteSetsExt, Functions

CONSTANT MaxEpoch           \* bound: the last epoch that is finalized

ASSUME MaxEpochAssumption == MaxEpoch \in Nat

VARIABLE finalized

\* Mutant of previousFinalisedEpoch: one epoch more is held back.
HeldBackThree == IF finalized = 0 THEN 0 ELSE finalized - 3

previousFinalisedEpoch == IF finalized = 0 THEN 0 ELSE finalized - 2

Accepted(epoch) == epoch <= previousFinalisedEpoch
===============================================================================
