------------------------------- MODULE Noise --------------------------------
(***************************************************************************)
(* privacy::NoisyCounters: how a counter is published.  The draw for a     *)
(* metric and an epoch is fixed by the seed, so it is a constant function; *)
(* it counts halves, the finest step that llround() tells apart here.      *)
(***************************************************************************)
EXTENDS Integers

CONSTANTS
    NoiseEnabled,   \* PrivacyConfig::enabled
    EpochLength,    \* PrivacyConfig::epoch
    Rounding,       \* PrivacyConfig::rounding; zero is taken for one
    Threshold,      \* PrivacyConfig::suppression_threshold
    Draw            \* <<metric, epoch index>> -> the Laplace sample, in halves

\* The constructor's throws.
ASSUME NoiseAssumption == EpochLength > 0 /\ Rounding \in Nat /\ Threshold \in Nat

EpochIndex(now) == (IF now < 0 THEN 0 ELSE now) \div EpochLength

\* Mutant: the generator is seeded with the instant instead of the epoch.
NoiseForInstant(metric, now) == Draw[<<metric, now % 2>>]

NoiseFor(metric, now) == Draw[<<metric, EpochIndex(now)>>]

\* std::llround of max(0, x), x given in halves.
RoundHalves(x) == IF x < 0 THEN 0 ELSE (x + 1) \div 2

RoundToMultiple(n) ==
    IF Rounding <= 1 THEN n ELSE ((n + Rounding \div 2) \div Rounding) * Rounding

\* Mutant: a value at the threshold is let through.
PublishAtThreshold(metric, exact, now) ==
    LET rounded == RoundToMultiple(RoundHalves(2 * exact + NoiseFor(metric, now)))
    IN  IF ~NoiseEnabled THEN exact
        ELSE IF rounded < Threshold THEN 0
        ELSE rounded

Publish(metric, exact, now) ==
    LET rounded == RoundToMultiple(RoundHalves(2 * exact + NoiseFor(metric, now)))
    IN  IF ~NoiseEnabled THEN exact
        ELSE IF rounded <= Threshold THEN 0
        ELSE rounded
=============================================================================
