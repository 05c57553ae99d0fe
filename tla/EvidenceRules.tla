--------------------------- MODULE EvidenceRules ---------------------------
(***************************************************************************)
(* What a verdict is computed from and how: price events, exact cells,     *)
(* rulesets, and the pure functions of internal/engine over a set of       *)
(* evidence.  Prices stay abstract: of the statistics only the evidence    *)
(* that the trim keeps (which fixes the range) and the dispersion test are *)
(* seen.  Module Engine models the arithmetic behind both.                 *)
(***************************************************************************)
EXTENDS Integers, Sequences, FiniteSets

CONSTANTS
  Event,        \* price events that sources and curators can bring
  Cell,         \* exact watch configurations (engine.CellKey)
  Ruleset,      \* rulesets that can be deployed (engine.Ruleset)
  cellOf,       \* [Event -> Cell]
  sourceOf,     \* the source an event came from
  observedAt,   \* [Event -> Int], when the event happened
  Realised,     \* events with kind 'auction_realised' and a price in USD
  Corrupt,      \* events whose price_usd does not parse
  Kept(_),      \* the evidence that trimTypicalBand leaves
  Dispersed(_)  \* whether p75/p25 of the kept evidence reaches MaxIQRRatio

ASSUME EventAssumption ==
  /\ IsFiniteSet(Event)
  /\ Realised \subseteq Event
  /\ Corrupt \subseteq Event
  /\ cellOf \in [Event -> Cell]
  /\ observedAt \in [Event -> Int]

ASSUME RulesetAssumption ==
  Ruleset \subseteq [version    : Nat, minSamples : Nat, minVolume : Nat,
                     minSources : Nat, maxAge     : Nat]

ASSUME TrimAssumption == \A S \in SUBSET Event : Kept(S) \subseteq S

\* The rows that a compute run works from: the realised tier, readable.
Readable(R) == {e \in R : e \in Realised /\ e \notin Corrupt}

InCell(c, R) == {e \in R : cellOf[e] = c}

\* The rows of a ledger after its first n appends.
Prefix(l, n) == {l[i] : i \in 1..n}

\* The evidence for cell c after the first n appends.
Evidence(c, l, n) == InCell(c, Readable(Prefix(l, n)))

Gate == {"volume", "sources", "freshness", "dispersion"}

\* EvaluateGates at time t: counts and ages look at the whole evidence,
\* dispersion at what the trim kept of it.
FailingGates(S, r, t) ==
  {g \in Gate :
     \/ g = "volume"     /\ Cardinality(S) < r.minVolume
     \/ g = "sources"    /\ Cardinality({sourceOf[e] : e \in S}) < r.minSources
     \/ g = "freshness"  /\ \A e \in S : t - observedAt[e] >= r.maxAge
     \/ g = "dispersion" /\ Dispersed(Kept(S))}

\* ComputeVerdict answers nil below MinSamples, before or after the trim.
Computable(S, r) ==
  Cardinality(S) >= r.minSamples /\ Cardinality(Kept(S)) >= r.minSamples
=============================================================================
