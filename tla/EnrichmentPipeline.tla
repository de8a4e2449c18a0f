------------------------- MODULE EnrichmentPipeline -------------------------
(***************************************************************************)
(* The outbound work of one worker session, from the quota to the verdict: *)
(* the Web Risk client and the client of the fetcher run side by side, the *)
(* fetcher serves the second, and fusion turns what both return into the   *)
(* FINAL decision.  Jobs follow one another; EnrichmentQueue says when.    *)
(*                                                                         *)
(* The fetcher's variables are those of the request of the latest call.  A *)
(* call that its session has left behind, and requests of other sessions,  *)
(* go on beside it and share nothing with it but the loop's time.          *)
(***************************************************************************)
EXTENDS Fetcher

CONSTANTS
    LocalStageOf,   \* local stages the URLs of the jobs may have
    ClientTimeout,  \* time the client waits for the fetcher
    Quota           \* lookups allowed in a minute

ASSUME LocalStagesAreStages == LocalStageOf \subseteq LocalStages
ASSUME TimeoutIsPositive == ClientTimeout \in Nat \ {0}
ASSUME QuotaIsPositive == Quota \in Nat \ {0}

VARIABLES
    session,    \* where the worker session is
    reputation, \* state of the reputation evidence; "asking" while it is looked up
    tries,      \* requests of the present lookup
    call,       \* the client's call of the fetcher
    waited,     \* time since the call
    evidence,   \* what the calls have returned
    verdict,    \* the FINAL decision and what it was made from
    spent       \* lookups counted in the present minute

sessionVars == <<session, reputation, tries, call, waited, evidence, verdict>>
vars == <<fetchVars, sessionVars, spent>>

Attempts == 3

Sessions == {"idle", "calling", "decided"}
CallStates == {"none", "open", "answered", "failed", "timed_out"}
Ruling(band, completion, local, trusted) ==
    [band |-> band, completion |-> completion, local |-> local, trusted |-> trusted]
Rulings == [band : Bands, completion : {"COMPLETE", "PARTIAL"}, local : LocalStages, trusted : Nat]
NoVerdict == Ruling("none", "none", LocalStage("RULE_ONLY", 0, 0), 0)

TypeOK ==
    /\ FetchTypeOK
    /\ session \in Sessions
    /\ reputation \in EvidenceStates \cup {"none", "asking"}
    /\ tries \in 0..Attempts
    /\ call \in CallStates
    /\ waited \in 0..ClientTimeout
    /\ evidence \subseteq Observations
    /\ verdict \in Rulings \cup {NoVerdict}
    /\ spent \in 0..Quota

Init ==
    /\ FetchInit
    /\ session = "idle" /\ reputation = "none" /\ tries = 0 /\ call = "none" /\ waited = 0
    /\ evidence = {} /\ verdict = NoVerdict
    /\ spent = 0

----------------------------------------------------------------------------
(* The session begins: quota first, then both calls at once.               *)

\* A disabled provider, an exhausted quota; a quota nobody can read or write.
WithoutLookup ==
    /\ \/ reputation' = "SKIPPED_POLICY"
       \/ reputation' = "UNAVAILABLE"
    /\ UNCHANGED spent

\* One unit for a lookup, whatever requests it takes.
ConsumeQuota ==
    /\ spent < Quota
    /\ spent' = spent + 1
    /\ reputation' = "asking"

\* A call that an earlier session has left behind may still be under way, and the
\* fetcher at work for it: nobody waits for either, and they are followed no further.
StartCalls ==
    /\ session = "idle"
    /\ WithoutLookup \/ ConsumeQuota
    /\ Sent
    /\ session' = "calling" /\ call' = "open" /\ waited' = 0 /\ tries' = 0
    /\ UNCHANGED <<evidence, verdict>>

----------------------------------------------------------------------------
(* Web Risk.                                                               *)

\* Every request either settles the lookup or, busy, is repeated up to the limit.
\* That a request ends at all is an assumption about Web Risk: its client bounds the
\* wait for each read, not their number.
Request ==
    /\ reputation = "asking" /\ tries < Attempts
    /\ tries' = tries + 1
    /\ \/ reputation' \in {"OBSERVED", "NO_MATCH", "TIMED_OUT", "UNAVAILABLE"}
       \/ tries' < Attempts /\ UNCHANGED reputation
    /\ UNCHANGED <<fetchVars, session, call, waited, evidence, verdict, spent>>

\* No key is configured: the unit is spent and no request is sent.
NotConfigured ==
    /\ reputation = "asking" /\ tries = 0
    /\ reputation' = "UNAVAILABLE"
    /\ UNCHANGED <<fetchVars, session, tries, call, waited, evidence, verdict, spent>>

\* JSON that is no object is no error the client expects: gather raises, the
\* session's handler gives the job back, and the other call goes on alone.
LookupRaises ==
    /\ session = "calling" /\ reputation = "asking" /\ tries < Attempts
    /\ session' = "idle" /\ reputation' = "none" /\ tries' = 0 /\ evidence' = {}
    /\ UNCHANGED <<fetchVars, call, waited, verdict, spent>>

MinutePasses ==
    /\ spent' = 0
    /\ UNCHANGED <<fetchVars, sessionVars>>

----------------------------------------------------------------------------
(* The client of the fetcher.                                              *)

Returned == {answer[i] : i \in 1..Len(answer)}

\* The schema admits no family twice, and only so many addresses of a name: how many
\* there are is not modelled, so an answer with a DNS observation may be refused.
WellFormed == \A i, j \in 1..Len(answer) : answer[i].family = answer[j].family => i = j
MayBeRefused == ~WellFormed \/ Observation("dns", "OBSERVED") \in Returned

\* What the client returns is lost when the session has given the job back.
Returns(outcome, observations) ==
    /\ call' = (IF session = "calling" THEN outcome ELSE "none") /\ waited' = 0
    /\ evidence' = IF session = "calling" THEN observations ELSE {}
    /\ UNCHANGED <<session, reputation, tries, verdict, spent>>

NetworkMissing(state) == {Observation("network", state)}

\* The server is done with the request; of its answer the redirects still count.
Serverless ==
    /\ at' = "idle" /\ peer' = NoPeer /\ pinned' = {} /\ answer' = <<>> /\ clock' = 0
    /\ UNCHANGED hop

AnswerArrives ==
    /\ call = "open" /\ at = "answered"
    /\ Serverless
    /\ \/ WellFormed /\ Returns("answered", Returned)
       \/ MayBeRefused /\ Returns("failed", NetworkMissing("UNAVAILABLE"))

\* The server answers 500.
ServerError ==
    /\ call = "open" /\ at = "broken"
    /\ Serverless
    /\ Returns("failed", NetworkMissing("UNAVAILABLE"))

\* The server dies with all it was doing, or was not there.
FetcherDies ==
    /\ Serverless
    /\ \/ call = "open" /\ Returns("failed", NetworkMissing("UNAVAILABLE"))
       \/ call # "open" /\ at # "idle" /\ UNCHANGED <<sessionVars, spent>>

\* Lost on the way, and the client still waits; or the client waits no longer.
AnswerLost ==
    /\ at \in {"answered", "broken"}
    /\ Serverless
    /\ UNCHANGED <<sessionVars, spent>>

\* Variant: the client waits for ever.
ClientWaits == FALSE

\* The server does not learn of it and goes on.
ClientTimesOut ==
    /\ call = "open" /\ waited = ClientTimeout
    /\ Returns("timed_out", NetworkMissing("TIMED_OUT"))
    /\ UNCHANGED fetchVars

FetchProceeds == FetchStep /\ UNCHANGED <<sessionVars, spent>>

\* Time passes for the client and, once it has begun, for the server: as far as their
\* timers measure it, and past a timer that is due but has not been called yet.
ClientMeasures == call = "open" /\ waited < ClientTimeout
ServerMeasures == at \in Awaiting /\ clock < Budget

Tick ==
    /\ ClientMeasures \/ ServerMeasures
    /\ waited' = IF ClientMeasures THEN waited + 1 ELSE waited
    /\ clock' = IF ServerMeasures THEN clock + 1 ELSE clock
    /\ UNCHANGED <<at, hop, pinned, peer, answer, session, reputation, tries, call, evidence,
                   verdict, spent>>

----------------------------------------------------------------------------
(* The decision.                                                           *)

BothReturned == reputation # "asking" /\ call # "open"

\* What the calls brought is stored and decided on.
Decide ==
    /\ session = "calling" /\ BothReturned
    /\ session' = "decided"
    /\ evidence' = evidence \cup {Observation("reputation", reputation)}
    /\ \E local \in LocalStageOf, trusted \in TrustedWeights(evidence, hop) :
           LET ruling == Verdict(local, trusted, evidence')
           IN verdict' = Ruling(ruling.band, ruling.completion, local, trusted)
    /\ reputation' = "none" /\ tries' = 0 /\ call' = "none"
    /\ UNCHANGED <<fetchVars, waited, spent>>

NextJob ==
    /\ session = "decided"
    /\ session' = "idle" /\ evidence' = {} /\ verdict' = NoVerdict
    /\ UNCHANGED <<fetchVars, reputation, tries, call, waited, spent>>

Looks == Request \/ NotConfigured \/ LookupRaises
Client == AnswerArrives \/ ServerError \/ ClientTimesOut

\* What goes on by itself: no step of it can be repeated for ever within one session.
Progress == Tick \/ FetchProceeds \/ Looks \/ Client

Next ==
    \/ StartCalls \/ MinutePasses \/ FetcherDies \/ AnswerLost \/ Decide \/ NextJob
    \/ Progress

Spec == Init /\ [][Next]_vars

\* The worker's event loop runs, its clients are called when their timer is due or their
\* answer there, and time passes.  Nothing is asked of the fetcher.
Fairness == WF_vars(Tick \/ Looks \/ Client)

FairSpec == Spec /\ Fairness

----------------------------------------------------------------------------
(* Checked properties.                                                     *)

\* fetch.py 163-186, 320-349, policy.py 164-172: whatever names resolve to from one hop to the
\* next, a connection is open only to an address checked with all others of its name.
OnlyCheckedPeers == peer # NoPeer => peer \in pinned /\ pinned \subseteq Public

\* fetch.py 84-150, 361-396: every answer has each of the five families exactly once.
AnswerIsWhole ==
    at = "answered" => /\ Len(answer) = Cardinality(PageFamilies)
                       /\ {item.family : item \in Returned} = PageFamilies

\* fetch.py 135-149: an answer given after the page was read has all the page has shown,
\* and the registration data or why there is none, even if the query used up the time.
PageEvidenceKept ==
    [][at' = "answered" /\ at \in OnRdap \cup {"page_done"} =>
           \E state \in EvidenceStates : answer' = Append(answer, Observation("rdap", state))]_vars

\* fusion.py 48-115: evidence never lowers the band the local stage alone would give,
\* missing evidence least of all; short of HIGH it may leave the result open.
RiskNeverLowered ==
    session = "decided" =>
        \/ verdict.band = "INCONCLUSIVE" /\ LocalBand(verdict.local) # "HIGH"
        \/ /\ verdict.band # "INCONCLUSIVE"
           /\ Severity[verdict.band] >= Severity[LocalBand(verdict.local)]

\* fusion.py 84-87: without a local signal a reputation match adds nothing to the score;
\* all it can do is to let the local band stand where the result would be open.
MatchNeedsLocalSignal ==
    session = "decided" /\ Matched(evidence) /\ ~Corroborated(verdict.local) =>
        LET without == Verdict(verdict.local, verdict.trusted,
                               evidence \ {Observation("reputation", "OBSERVED")})
        IN verdict.band = IF without.band = "INCONCLUSIVE" THEN LocalBand(verdict.local)
                          ELSE without.band

\* fusion.py 68-95: a decision is COMPLETE only if the reputation was answered and the
\* fetcher's answer arrived with a usable state for each of its families.
CompleteIsWhole ==
    session = "decided" /\ verdict.completion = "COMPLETE" =>
        \A family \in ExpectedFamilies :
            \E item \in evidence : item.family = family /\ item.state \in UsableStates

\* Steps the fetcher has left within a hop, counted from its answer's way back.
StepsLeft ==
    [ queued |-> 10, idle |-> 0, answered |-> 1, broken |-> 1,
      rdap_reading |-> 2, rdap_connecting |-> 3, rdap_resolving |-> 4,
      page_done |-> 5, reading |-> 6, receiving |-> 7, connecting |-> 8, resolving |-> 9 ]

\* What is left of the lookup, of the fetcher's request and of the client's call, with all
\* retries, redirects and the time of both.
LookWork == IF reputation = "asking" THEN 1 + (Attempts - tries) ELSE 0
FetchWork == StepsLeft[at] + 3 * (MaxRedirects - hop)
ServerTime == IF at \in {"idle", "answered", "broken"} THEN 0 ELSE Budget - clock
CallWork == IF call = "open" THEN 1 + (ClientTimeout - waited) ELSE 0
Work == LookWork + FetchWork + ServerTime + CallWork

\* fetch.py 159-193, providers.py 180-197, worker.py 173-183: whatever the services answer,
\* each step leaves less to do, be it a redirect, a busy lookup, a late timer, a lost
\* answer, a crash, a client that gives up or an error in the other call.
WorkDecreases ==
    [][Progress \/ FetcherDies \/ AnswerLost => Work' < Work]_vars

\* worker.py 173-183: the calls of a session end, even if the fetcher never answers.
CallsEnd == (session = "calling") ~> (session # "calling" \/ BothReturned)
=============================================================================
