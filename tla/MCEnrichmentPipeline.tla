------------------------ MODULE MCEnrichmentPipeline ------------------------
(* Small instances of EnrichmentPipeline for TLC.                          *)
EXTENDS EnrichmentPipeline

\* Sums of rule weights at both sides of the thresholds, and a model's log-odds likewise.
RuleSums == {0, 12, 13, 42, 45}
MCLocalStageOf ==
    [mode : {"RULE_ONLY"}, model : {0}, rules : RuleSums]
        \cup [mode : {"HYBRID"}, model : {-30, -9, 5, 18}, rules : {0}]
=============================================================================
