---------------------------- MODULE FusionProofs ----------------------------
(***************************************************************************)
(* What fusion does, for every local stage, weight and set of evidence.    *)
(***************************************************************************)
EXTENDS Fusion, TLAPS

\* Of a local stage only its fields and their types are used.
LEMMA LocalTypes ==
    ASSUME NEW local \in LocalStages
    PROVE  /\ local.mode \in {"RULE_ONLY", "HYBRID"} /\ local.model \in Int /\ local.rules \in Nat
           /\ Baseline(local) \in Int /\ HighFrom(local) \in Int /\ MediumFrom(local) \in Int
           /\ MediumFrom(local) < HighFrom(local)
BY DEF LocalStages, Baseline, HighFrom, MediumFrom

\* The band of a score, without CASE.
LEMMA BandOfScore ==
    ASSUME NEW local \in LocalStages, NEW odds \in Int
    PROVE  /\ odds >= HighFrom(local) => ScoreBand(local, odds) = "HIGH"
           /\ odds < HighFrom(local) /\ odds >= MediumFrom(local) => ScoreBand(local, odds) = "MEDIUM"
           /\ odds < MediumFrom(local) => ScoreBand(local, odds) = "LOW"
           /\ ScoreBand(local, odds) \in {"LOW", "MEDIUM", "HIGH"}
<1>1. HighFrom(local) \in Int /\ MediumFrom(local) \in Int /\ MediumFrom(local) < HighFrom(local)
  BY LocalTypes
<1> DEFINE H == HighFrom(local)
           M == MediumFrom(local)
<1>2. ScoreBand(local, odds) =
          CASE odds >= H -> "HIGH"
            [] odds < H /\ odds >= M -> "MEDIUM"
            [] odds < H /\ odds < M -> "LOW"
  BY DEF ScoreBand
<1>3. H \in Int /\ M \in Int /\ M < H
  BY <1>1
<1> HIDE DEF H, M
<1>4. CASE odds >= H
  BY <1>2, <1>3, <1>4 DEF H, M
<1>5. CASE odds < H /\ odds >= M
  BY <1>2, <1>3, <1>5 DEF H, M
<1>6. CASE odds < M
  BY <1>2, <1>3, <1>6 DEF H, M
<1> QED
  BY <1>3, <1>4, <1>5, <1>6

\* A higher score never has a lower band.
LEMMA BandsGrow ==
    ASSUME NEW local \in LocalStages, NEW low \in Int, NEW high \in Int, low <= high
    PROVE  Severity[ScoreBand(local, low)] <= Severity[ScoreBand(local, high)]
<1> DEFINE H == HighFrom(local)
           M == MediumFrom(local)
<1>1. H \in Int /\ M \in Int /\ M < H
  BY LocalTypes
<1>2. /\ high >= H => ScoreBand(local, high) = "HIGH"
      /\ high < H /\ high >= M => ScoreBand(local, high) = "MEDIUM"
      /\ high < M => ScoreBand(local, high) = "LOW"
  BY BandOfScore
<1>3. /\ low >= H => ScoreBand(local, low) = "HIGH"
      /\ low < H /\ low >= M => ScoreBand(local, low) = "MEDIUM"
      /\ low < M => ScoreBand(local, low) = "LOW"
  BY BandOfScore
<1>4. Severity.LOW = 0 /\ Severity.MEDIUM = 1 /\ Severity.HIGH = 2
  BY DEF Severity
<1>5. Severity["LOW"] = 0 /\ Severity["MEDIUM"] = 1 /\ Severity["HIGH"] = 2
  BY <1>4
<1> HIDE DEF H, M
<1>6. CASE high >= H
  <2>1. Severity[ScoreBand(local, high)] = 2
    BY <1>2, <1>5, <1>6
  <2>2. Severity[ScoreBand(local, low)] \in {0, 1, 2}
    BY <1>1, <1>3, <1>5
  <2> QED
    BY <2>1, <2>2
<1>7. CASE high < H /\ high >= M
  <2>1. Severity[ScoreBand(local, high)] = 1
    BY <1>2, <1>5, <1>7
  <2>2. Severity[ScoreBand(local, low)] \in {0, 1}
    BY <1>1, <1>3, <1>5, <1>7
  <2> QED
    BY <2>1, <2>2
<1>8. CASE high < M
  <2>1. ScoreBand(local, low) = "LOW" /\ ScoreBand(local, high) = "LOW"
    BY <1>1, <1>2, <1>3, <1>8
  <2> QED
    BY <2>1, <1>5
<1> QED
  BY <1>1, <1>6, <1>7, <1>8

\* Evidence and its rules only ever add to the score of the local stage.
LEMMA OddsAtLeastLocal ==
    ASSUME NEW local \in LocalStages, NEW trusted \in Nat, NEW evidence
    PROVE  /\ Odds(local, trusted, evidence) \in Int
           /\ Baseline(local) + local.rules \in Int
           /\ Baseline(local) + local.rules <= Odds(local, trusted, evidence)
<1>1. Baseline(local) \in Int /\ local.rules \in Nat
  BY LocalTypes
<1>2. Lesser(MaxEnrichment, trusted) \in Nat
  BY DEF Lesser, MaxEnrichment
<1>3. (IF Matched(evidence) /\ Corroborated(local) THEN ReputationWeight ELSE 0) \in Nat
  BY DEF ReputationWeight
<1> QED
  BY <1>1, <1>2, <1>3 DEF Odds

\* Whatever the evidence, a verdict is at least as severe as the local stage alone would
\* be, or open; and it is open only if the local stage is short of HIGH.
THEOREM VerdictNeverLowers ==
    ASSUME NEW local \in LocalStages, NEW trusted \in Nat, NEW evidence,
           NEW band, band = Verdict(local, trusted, evidence).band
    PROVE  /\ band \in Bands
           /\ \/ band = "INCONCLUSIVE" /\ LocalBand(local) # "HIGH"
              \/ /\ band # "INCONCLUSIVE"
                 /\ Severity[band] >= Severity[LocalBand(local)]
<1> DEFINE odds == Odds(local, trusted, evidence)
           base == Baseline(local) + local.rules
<1>1. odds \in Int /\ base \in Int /\ base <= odds
  BY OddsAtLeastLocal
<1>2. band = IF Usable(evidence) \/ ScoreBand(local, odds) = "HIGH"
             THEN ScoreBand(local, odds) ELSE "INCONCLUSIVE"
  BY DEF Verdict
<1>3. LocalBand(local) = ScoreBand(local, base)
  BY DEF LocalBand
<1> HIDE DEF odds, base
<1>4. ScoreBand(local, odds) \in {"LOW", "MEDIUM", "HIGH"}
  BY <1>1, BandOfScore
<1>5. Severity[ScoreBand(local, base)] <= Severity[ScoreBand(local, odds)]
  BY <1>1, BandsGrow
<1>6. ScoreBand(local, odds) # "HIGH" => ScoreBand(local, base) # "HIGH"
  <2>1. HighFrom(local) \in Int
    BY LocalTypes
  <2>2. odds >= HighFrom(local) => ScoreBand(local, odds) = "HIGH"
    BY <1>1, BandOfScore
  <2>3. MediumFrom(local) \in Int /\ MediumFrom(local) < HighFrom(local)
    BY LocalTypes
  <2>4. base < HighFrom(local) => ScoreBand(local, base) \in {"MEDIUM", "LOW"}
    BY <1>1, <2>1, <2>3, BandOfScore
  <2> QED
    BY <1>1, <2>1, <2>2, <2>4
<1>7. \A b \in {"LOW", "MEDIUM", "HIGH"} : Severity[b] \in {0, 1, 2}
  BY DEF Severity
<1>8. ScoreBand(local, base) \in {"LOW", "MEDIUM", "HIGH"}
  BY <1>1, BandOfScore
<1>9. Severity[ScoreBand(local, odds)] >= Severity[ScoreBand(local, base)]
  BY <1>4, <1>5, <1>7, <1>8
<1> QED
  BY <1>2, <1>3, <1>4, <1>6, <1>9 DEF Bands

\* What rules on evidence may add is a number, and zero if no family was observed.
LEMMA WeightsAreNaturals ==
    ASSUME NEW evidence, NEW hops
    PROVE  TrustedWeights(evidence, hops) \subseteq Nat
BY DEF TrustedWeights, WeightsIf, RdapWeights, TlsWeights, RedirectWeights, HtmlWeights

LEMMA NothingObservedAddsNothing ==
    ASSUME NEW evidence, NEW hops,
           \A family \in PageFamilies : ~Observed(evidence, family)
    PROVE  TrustedWeights(evidence, hops) = {0}
<1>1. /\ ~Observed(evidence, "rdap") /\ ~Observed(evidence, "tls")
      /\ ~Observed(evidence, "redirect") /\ ~Observed(evidence, "static_html")
  BY DEF PageFamilies
<1>2. /\ WeightsIf(Observed(evidence, "rdap"), RdapWeights) = {0}
      /\ WeightsIf(Observed(evidence, "tls"), TlsWeights) = {0}
      /\ WeightsIf(Observed(evidence, "redirect"), RedirectWeights(hops)) = {0}
      /\ WeightsIf(Observed(evidence, "static_html"), HtmlWeights) = {0}
  BY <1>1 DEF WeightsIf
<1>3. \A w \in TrustedWeights(evidence, hops) : w = 0
  BY <1>2 DEF TrustedWeights
<1>4. 0 \in TrustedWeights(evidence, hops)
  BY <1>2 DEF TrustedWeights
<1> QED
  BY <1>3, <1>4

\* Without a local signal a match adds nothing to the score: it only lets the local
\* band stand where the result would be open.
THEOREM MatchAlone ==
    ASSUME NEW local \in LocalStages, NEW evidence, NEW hops,
           NEW trusted \in TrustedWeights(evidence, hops),
           NEW all, all = evidence \cup {Observation("reputation", "OBSERVED")},
           NEW rest, rest = all \ {Observation("reputation", "OBSERVED")},
           ~Corroborated(local)
    PROVE  LET without == Verdict(local, trusted, rest)
           IN Verdict(local, trusted, all).band =
                  IF without.band = "INCONCLUSIVE" THEN LocalBand(local) ELSE without.band
<1> DEFINE match == Observation("reputation", "OBSERVED")
           score == Baseline(local) + local.rules + Lesser(MaxEnrichment, trusted) + 0
           band == ScoreBand(local, score)
<1>1. Odds(local, trusted, all) = score /\ Odds(local, trusted, rest) = score
  BY DEF Odds
<1>2. Usable(all)
  <2>1. match \in all /\ match.family \in ExpectedFamilies /\ match.state \in UsableStates
    BY DEF Observation, ExpectedFamilies, UsableStates
  <2> QED
    BY <2>1 DEF Usable
<1>3. Verdict(local, trusted, all).band = band
  BY <1>1, <1>2 DEF Verdict
<1>4. Verdict(local, trusted, rest).band =
          IF Usable(rest) \/ band = "HIGH" THEN band ELSE "INCONCLUSIVE"
  BY <1>1 DEF Verdict
<1>5. trusted \in Nat /\ Baseline(local) \in Int /\ local.rules \in Nat
  BY WeightsAreNaturals, LocalTypes
<1>6. score \in Int
  BY <1>5 DEF Lesser, MaxEnrichment
<1>7. band \in {"LOW", "MEDIUM", "HIGH"}
  <2> HIDE DEF score
  <2> QED
    BY <1>6, BandOfScore
<1>8. CASE Usable(rest) \/ band = "HIGH"
  BY <1>3, <1>4, <1>7, <1>8
<1>9. CASE ~Usable(rest) /\ band # "HIGH"
  <2>1. \A family \in PageFamilies : ~Observed(evidence, family)
    <3> SUFFICES ASSUME NEW family \in PageFamilies, Observed(evidence, family)
                 PROVE  FALSE
      OBVIOUS
    <3>1. Observation(family, "OBSERVED") \in evidence /\ family # "reputation"
      BY DEF Observed, PageFamilies
    <3>2. Observation(family, "OBSERVED") \in rest
      BY <3>1 DEF Observation
    <3>3. /\ Observation(family, "OBSERVED").family \in ExpectedFamilies
          /\ Observation(family, "OBSERVED").state \in UsableStates
      BY DEF Observation, ExpectedFamilies, UsableStates
    <3> QED
      BY <1>9, <3>2, <3>3 DEF Usable
  <2>2. trusted = 0
    BY <2>1, NothingObservedAddsNothing
  <2>3. score = Baseline(local) + local.rules
    BY <1>5, <2>2 DEF Lesser, MaxEnrichment
  <2>4. band = LocalBand(local)
    BY <2>3 DEF LocalBand
  <2> QED
    BY <1>3, <1>4, <1>9, <2>4
<1> QED
  BY <1>8, <1>9

\* What the evidence of an enriched decision can add is bounded, less without a local signal.
LEMMA OddsAtMost ==
    ASSUME NEW local \in LocalStages, NEW trusted \in Nat, NEW evidence
    PROVE  Odds(local, trusted, evidence) <=
               Baseline(local) + local.rules + MaxEnrichment
                   + (IF Corroborated(local) THEN ReputationWeight ELSE 0)
<1>1. Baseline(local) \in Int /\ local.rules \in Nat
  BY LocalTypes
<1>2. Lesser(MaxEnrichment, trusted) \in Nat /\ Lesser(MaxEnrichment, trusted) <= MaxEnrichment
  BY DEF Lesser, MaxEnrichment
<1> QED
  BY <1>1, <1>2 DEF Odds, ReputationWeight, MaxEnrichment

\* HIGH takes a local stage that is within reach of it: by no more than the bound on
\* enrichment rules, and a match besides if there is a local signal.  Without a model, no
\* evidence makes a URL HIGH that no rule has matched (fusion.py 55-60, 82-87, 101-113).
THEOREM HighNeedsLocalStage ==
    ASSUME NEW local \in LocalStages, NEW trusted \in Nat, NEW evidence,
           Verdict(local, trusted, evidence).band = "HIGH"
    PROVE  /\ HighFrom(local) <=
                  Baseline(local) + local.rules + MaxEnrichment
                      + (IF Corroborated(local) THEN ReputationWeight ELSE 0)
           /\ local.mode = "RULE_ONLY" => local.rules > 0
<1> DEFINE odds == Odds(local, trusted, evidence)
           most == Baseline(local) + local.rules + MaxEnrichment
                       + (IF Corroborated(local) THEN ReputationWeight ELSE 0)
<1>1. odds \in Int /\ odds <= most
  BY OddsAtLeastLocal, OddsAtMost
<1>2. most \in Int /\ HighFrom(local) \in Int /\ MediumFrom(local) \in Int
      /\ MediumFrom(local) < HighFrom(local)
  BY LocalTypes DEF MaxEnrichment, ReputationWeight
<1>3. ScoreBand(local, odds) = "HIGH"
  BY DEF Verdict
<1>4. HighFrom(local) <= most
  <2> HIDE DEF odds, most
  <2>1. odds < HighFrom(local) => ScoreBand(local, odds) \in {"MEDIUM", "LOW"}
    BY <1>1, <1>2, BandOfScore
  <2> QED
    BY <1>1, <1>2, <1>3, <2>1
<1>5. ASSUME local.mode = "RULE_ONLY", local.rules = 0 PROVE FALSE
  <2>1. HighFrom(local) = 44 /\ Baseline(local) = 0 /\ ~Corroborated(local)
    BY <1>5 DEF HighFrom, Baseline, Corroborated
  <2>2. most = 40
    BY <1>5, <2>1 DEF MaxEnrichment
  <2> QED
    BY <1>4, <2>1, <2>2
<1>6. local.rules \in Nat
  BY LocalTypes
<1> QED
  BY <1>4, <1>5, <1>6

\* More rules that match, more that the evidence adds, more evidence: none of it lowers a
\* verdict or leaves a result open that was not (fusion.py 55-115; ADR-0006).
THEOREM MoreSignalsNeverLower ==
    ASSUME NEW local \in LocalStages, NEW more \in LocalStages,
           more.mode = local.mode, more.model = local.model, local.rules <= more.rules,
           NEW trusted \in Nat, NEW further \in Nat, trusted <= further,
           NEW evidence, NEW richer, evidence \subseteq richer,
           NEW low, low = Verdict(local, trusted, evidence).band,
           NEW high, high = Verdict(more, further, richer).band,
           low # "INCONCLUSIVE"
    PROVE  high # "INCONCLUSIVE" /\ Severity[low] <= Severity[high]
<1> DEFINE lowOdds == Odds(local, trusted, evidence)
           highOdds == Odds(more, further, richer)
<1>1. lowOdds \in Int /\ highOdds \in Int
  BY OddsAtLeastLocal
<1>2. lowOdds <= highOdds
  <2>1. Baseline(local) \in Int /\ local.rules \in Nat /\ more.rules \in Nat
        /\ Baseline(more) = Baseline(local)
    BY LocalTypes DEF Baseline
  <2>2. /\ Lesser(MaxEnrichment, trusted) \in Nat /\ Lesser(MaxEnrichment, further) \in Nat
        /\ Lesser(MaxEnrichment, trusted) <= Lesser(MaxEnrichment, further)
    BY DEF Lesser, MaxEnrichment
  <2>3. Matched(evidence) => Matched(richer)
    BY DEF Matched
  <2>4. Corroborated(local) => Corroborated(more)
    BY <2>1 DEF Corroborated
  <2> QED
    BY <2>1, <2>2, <2>3, <2>4 DEF Odds, ReputationWeight
<1> HIDE DEF lowOdds, highOdds
<1>3. \A odds : ScoreBand(more, odds) = ScoreBand(local, odds)
  <2>1. HighFrom(more) = HighFrom(local) /\ MediumFrom(more) = MediumFrom(local)
    BY DEF HighFrom, MediumFrom
  <2> QED
    BY <2>1 DEF ScoreBand
<1>4. /\ low = ScoreBand(local, lowOdds) /\ low \in {"LOW", "MEDIUM", "HIGH"}
      /\ Usable(evidence) \/ low = "HIGH"
  BY <1>1, BandOfScore DEF Verdict, lowOdds
<1>5. high = IF Usable(richer) \/ ScoreBand(local, highOdds) = "HIGH"
             THEN ScoreBand(local, highOdds) ELSE "INCONCLUSIVE"
  BY <1>3 DEF Verdict, highOdds
<1>6. Usable(evidence) => Usable(richer)
  BY DEF Usable
<1>7. /\ ScoreBand(local, highOdds) \in {"LOW", "MEDIUM", "HIGH"}
      /\ Severity[low] <= Severity[ScoreBand(local, highOdds)]
  BY <1>1, <1>2, <1>4, BandOfScore, BandsGrow
<1>8. low = "HIGH" => ScoreBand(local, highOdds) = "HIGH"
  <2>1. Severity["LOW"] = 0 /\ Severity["MEDIUM"] = 1 /\ Severity["HIGH"] = 2
    BY DEF Severity
  <2> QED
    BY <1>7, <2>1
<1> QED
  BY <1>4, <1>5, <1>6, <1>7, <1>8

\* A verdict is COMPLETE only if each expected family has an item with a usable state.
THEOREM CompleteHasAll ==
    ASSUME NEW local, NEW trusted, NEW evidence,
           \A item \in evidence : item.state \in EvidenceStates,
           Verdict(local, trusted, evidence).completion = "COMPLETE"
    PROVE  \A family \in ExpectedFamilies :
               \E item \in evidence : item.family = family /\ item.state \in UsableStates
<1>1. MissingEvidence(evidence) = {}
  BY DEF Verdict
<1> SUFFICES ASSUME NEW family \in ExpectedFamilies
             PROVE  \E item \in evidence : item.family = family /\ item.state \in UsableStates
  OBVIOUS
<1>2. family \in Reported(evidence)
  BY <1>1 DEF MissingEvidence
<1>3. PICK item \in evidence : item.family = family
  BY <1>2 DEF Reported
<1>4. item.state \notin MissingStates
  BY <1>1 DEF MissingEvidence
<1> QED
  BY <1>3, <1>4 DEF EvidenceStates
=============================================================================
