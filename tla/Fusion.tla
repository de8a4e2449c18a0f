------------------------------- MODULE Fusion -------------------------------
(***************************************************************************)
(* How rules, the local model and the evidence of one run become a risk    *)
(* band.  Log-odds are counted in units of 0.05, of which every weight of  *)
(* the code is a multiple; thresholds on the probability become the first  *)
(* unit that reaches them.  No state: the pipeline applies these operators.*)
(***************************************************************************)
EXTENDS Integers, FiniteSets

\* Families of evidence a complete enriched decision reports.
PageFamilies == {"dns", "rdap", "tls", "redirect", "static_html"}
ExpectedFamilies == PageFamilies \cup {"reputation"}

\* "network" stands for the whole answer of the fetcher when there is none.
Families == ExpectedFamilies \cup {"network"}

MissingStates == {"SKIPPED_POLICY", "UNAVAILABLE", "TIMED_OUT", "REJECTED_SAFETY", "STALE"}
UsableStates == {"OBSERVED", "NO_MATCH", "NOT_APPLICABLE"}
EvidenceStates == MissingStates \cup UsableStates

Observation(family, state) == [family |-> family, state |-> state]

Bands == {"LOW", "MEDIUM", "HIGH", "INCONCLUSIVE"}
Severity == [LOW |-> 0, MEDIUM |-> 1, HIGH |-> 2]

\* What the local stage knows of a URL: the units of the rules that matched, and
\* the model's log-odds when an approved model is loaded.
LocalStage(mode, model, rules) == [mode |-> mode, model |-> model, rules |-> rules]
LocalStages == [mode : {"RULE_ONLY", "HYBRID"}, model : Int, rules : Nat]

MaxEnrichment == 40
ReputationWeight == 20
CorroboratingModel == 5

Lesser(m, n) == IF m <= n THEN m ELSE n

\* Rule-only odds are counted from the declared baseline of 0.12.
Baseline(local) == IF local.mode = "HYBRID" THEN local.model ELSE 0
HighFrom(local) == IF local.mode = "HYBRID" THEN 19 ELSE 44
MediumFrom(local) == IF local.mode = "HYBRID" THEN -9 ELSE 13

\* Weights are positive: there is a hit exactly if the sum is not zero.
Corroborated(local) ==
    local.rules > 0 \/ (local.mode = "HYBRID" /\ local.model >= CorroboratingModel)

Matched(evidence) == Observation("reputation", "OBSERVED") \in evidence

\* Variant: a match counts without a local signal.
TrustingOdds(local, trusted, evidence) ==
    Baseline(local) + local.rules + Lesser(MaxEnrichment, trusted)
        + (IF Matched(evidence) THEN ReputationWeight ELSE 0)

Odds(local, trusted, evidence) ==
    Baseline(local) + local.rules + Lesser(MaxEnrichment, trusted)
        + (IF Matched(evidence) /\ Corroborated(local) THEN ReputationWeight ELSE 0)

ScoreBand(local, odds) ==
    CASE odds >= HighFrom(local) -> "HIGH"
      [] odds < HighFrom(local) /\ odds >= MediumFrom(local) -> "MEDIUM"
      [] odds < HighFrom(local) /\ odds < MediumFrom(local) -> "LOW"

LocalBand(local) == ScoreBand(local, Baseline(local) + local.rules)

Reported(evidence) == {item.family : item \in evidence}

\* Variant: what policy has skipped is not missing.
MissingIfTried(evidence) ==
    {item.family : item \in {i \in evidence : i.state \in MissingStates \ {"SKIPPED_POLICY"}}}
        \cup (ExpectedFamilies \ Reported(evidence))

\* Families without a usable state, and expected ones nobody reported.
MissingEvidence(evidence) ==
    {item.family : item \in {i \in evidence : i.state \in MissingStates}}
        \cup (ExpectedFamilies \ Reported(evidence))

Usable(evidence) ==
    \E item \in evidence : item.family \in ExpectedFamilies /\ item.state \in UsableStates

\* Variant: without usable evidence the result is open, whatever the score.
CautiousVerdict(local, trusted, evidence) ==
    [band |-> IF Usable(evidence) THEN ScoreBand(local, Odds(local, trusted, evidence))
              ELSE "INCONCLUSIVE",
     completion |-> IF MissingEvidence(evidence) = {} THEN "COMPLETE" ELSE "PARTIAL"]

\* The decision of scope ENRICHED, which the worker stores as FINAL.
Verdict(local, trusted, evidence) ==
    LET scored == ScoreBand(local, Odds(local, trusted, evidence))
    IN [band |-> IF Usable(evidence) \/ scored = "HIGH" THEN scored ELSE "INCONCLUSIVE",
        completion |-> IF MissingEvidence(evidence) = {} THEN "COMPLETE" ELSE "PARTIAL"]

----------------------------------------------------------------------------
(* What the hits on an observed value may add, family by family.           *)

\* A domain younger than 30 days.
RdapWeights == {0, 13}

\* A certificate that expires between handshake and observation: the fetcher's TLS
\* context lets through no other expired one, no obsolete version, no other name.
TlsWeights == {0, 11}

\* Another host in the chain, or else two or three redirects.
RedirectWeights(hops) ==
    IF hops = 0 THEN {0} ELSE IF hops = 1 THEN {0, 9} ELSE {4, 9}

\* A password input, a form that posts to another host.
HtmlWeights == {0, 11, 15, 26}

Observed(evidence, family) == Observation(family, "OBSERVED") \in evidence
WeightsIf(observed, weights) == IF observed THEN weights ELSE {0}

\* What evaluate_enrichment_rules may return for this evidence.
TrustedWeights(evidence, hops) ==
    {r + t + d + h :
        r \in WeightsIf(Observed(evidence, "rdap"), RdapWeights),
        t \in WeightsIf(Observed(evidence, "tls"), TlsWeights),
        d \in WeightsIf(Observed(evidence, "redirect"), RedirectWeights(hops)),
        h \in WeightsIf(Observed(evidence, "static_html"), HtmlWeights)}
=============================================================================
