---------------------- MODULE EnrichmentPipelineProofs ----------------------
(***************************************************************************)
(* Proofs about EnrichmentPipeline, for any addresses, limits, timeouts    *)
(* and local stages its assumptions admit.                                 *)
(***************************************************************************)
EXTENDS EnrichmentPipeline, FusionProofs, FiniteSetTheorems, SequenceTheorems

USE DEF OnPage, OnRdap, Awaiting, FetchPoints, Sessions, CallStates

----------------------------------------------------------------------------
(* Answers of the fetcher.                                                 *)

\* The five families, each once, whatever the states.
Whole(observations) ==
    /\ Len(observations) = 5
    /\ {observations[i].family : i \in 1..Len(observations)} = PageFamilies

LEMMA ObservationTypes ==
    ASSUME NEW family \in Families, NEW state \in EvidenceStates
    PROVE  /\ Observation(family, state) \in Observations
           /\ Observation(family, state).family = family
           /\ Observation(family, state).state = state
BY DEF Observation, Observations

LEMMA FamiliesAreFamilies == PageFamilies \subseteq Families /\ ExpectedFamilies \subseteq Families
                             /\ "reputation" \in Families /\ "network" \in Families
BY DEF PageFamilies, ExpectedFamilies, Families

LEMMA StatesAreStates ==
    /\ MissingStates \subseteq EvidenceStates /\ UsableStates \subseteq EvidenceStates
    /\ DnsFailures \subseteq EvidenceStates
    /\ {"OBSERVED", "NO_MATCH", "NOT_APPLICABLE", "SKIPPED_POLICY", "UNAVAILABLE", "TIMED_OUT",
        "REJECTED_SAFETY"} \subseteq EvidenceStates
BY DEF MissingStates, UsableStates, EvidenceStates, DnsFailures

\* Five observations of the families in some order are a whole answer.
LEMMA FiveAreWhole ==
    ASSUME NEW a \in Observations, NEW b \in Observations, NEW c \in Observations,
           NEW d \in Observations, NEW e \in Observations,
           {a.family, b.family, c.family, d.family, e.family} = PageFamilies
    PROVE  <<a, b, c, d, e>> \in Seq(Observations) /\ Whole(<<a, b, c, d, e>>)
<1> DEFINE s == <<a, b, c, d, e>>
<1>1. s \in Seq(Observations) /\ Len(s) = 5
  OBVIOUS
<1>2. s[1] = a /\ s[2] = b /\ s[3] = c /\ s[4] = d /\ s[5] = e
  OBVIOUS
<1> HIDE DEF s
<1>3. 1..Len(s) = {1, 2, 3, 4, 5}
  BY <1>1
<1>4. {s[i].family : i \in 1..Len(s)} = {a.family, b.family, c.family, d.family, e.family}
  BY <1>2, <1>3
<1> QED
  BY <1>1, <1>4 DEF Whole, s

\* Four elements and a fifth.
LEMMA AppendFifth ==
    ASSUME NEW S, NEW s \in Seq(S), NEW e \in S, NEW r \in Seq(S)
    PROVE  Len(s) = 4 /\ Len(r) = 5 /\ (\A i \in 1..4 : r[i] = s[i]) /\ r[5] = e
               => Append(s, e) = r
<1> DEFINE q == Append(s, e)
<1>1. /\ q \in Seq(S) /\ Len(q) = Len(s) + 1
      /\ \A i \in 1..Len(s) : q[i] = s[i]
      /\ q[Len(s) + 1] = e
  OBVIOUS
<1> HIDE DEF q
<1>2. Len(s) = 4 /\ Len(r) = 5 /\ (\A i \in 1..4 : r[i] = s[i]) /\ r[5] = e => q = r
  BY <1>1, SeqEqual
<1> QED
  BY <1>2 DEF q

LEMMA FailuresAreWhole ==
    ASSUME NEW state \in EvidenceStates
    PROVE  /\ FailureObservations(state) \in Seq(Observations)
           /\ Whole(FailureObservations(state))
           /\ DnsFailureObservations(state) \in Seq(Observations)
           /\ Whole(DnsFailureObservations(state))
<1>1. \A f \in PageFamilies, s \in EvidenceStates :
          Observation(f, s) \in Observations /\ Observation(f, s).family = f
  BY ObservationTypes, FamiliesAreFamilies
<1>2. "SKIPPED_POLICY" \in EvidenceStates
  BY StatesAreStates
<1>3. PageFamilies = {"dns", "rdap", "tls", "redirect", "static_html"}
  BY DEF PageFamilies
<1>4. FailureObservations(state) \in Seq(Observations) /\ Whole(FailureObservations(state))
  BY <1>1, <1>3, FiveAreWhole DEF FailureObservations
<1>5. DnsFailureObservations(state) \in Seq(Observations) /\ Whole(DnsFailureObservations(state))
  BY <1>1, <1>2, <1>3, FiveAreWhole DEF DnsFailureObservations
<1> QED
  BY <1>4, <1>5

\* What the page has shown, and the registration data after it, are a whole answer.
LEMMA PageIsWhole ==
    ASSUME NEW tls \in BOOLEAN, NEW html \in BOOLEAN, NEW state \in EvidenceStates
    PROVE  /\ PageObservations(tls, html) \in Seq(Observations)
           /\ Append(PageObservations(tls, html), Observation("rdap", state)) \in Seq(Observations)
           /\ Whole(Append(PageObservations(tls, html), Observation("rdap", state)))
<1> DEFINE a == Observation("dns", "OBSERVED")
           b == Observation("redirect", "OBSERVED")
           c == Observation("tls", IF tls THEN "OBSERVED" ELSE "NOT_APPLICABLE")
           d == Observation("static_html", IF html THEN "OBSERVED" ELSE "NOT_APPLICABLE")
           e == Observation("rdap", state)
<1>1. /\ a \in Observations /\ a.family = "dns" /\ b \in Observations /\ b.family = "redirect"
      /\ c \in Observations /\ c.family = "tls" /\ d \in Observations /\ d.family = "static_html"
      /\ e \in Observations /\ e.family = "rdap"
  <2>1. {"dns", "redirect", "tls", "static_html", "rdap"} \subseteq Families
    BY DEF PageFamilies, ExpectedFamilies, Families
  <2>2. {"OBSERVED", "NOT_APPLICABLE"} \subseteq EvidenceStates
    BY StatesAreStates
  <2> QED
    BY <2>1, <2>2, ObservationTypes
<1>2. PageObservations(tls, html) = <<a, b, c, d>>
  BY DEF PageObservations
<1> HIDE DEF a, b, c, d, e
<1>3. <<a, b, c, d>> \in Seq(Observations) /\ Append(<<a, b, c, d>>, e) = <<a, b, c, d, e>>
  <2>1. <<a, b, c, d>> \in Seq(Observations) /\ <<a, b, c, d, e>> \in Seq(Observations)
    BY <1>1
  <2> QED
    <3> DEFINE s == <<a, b, c, d>>
               r == <<a, b, c, d, e>>
    <3>1. Len(s) = 4 /\ Len(r) = 5 /\ (\A i \in 1..4 : r[i] = s[i]) /\ r[5] = e
      OBVIOUS
    <3> HIDE DEF s, r
    <3>2. s \in Seq(Observations) /\ r \in Seq(Observations) /\ e \in Observations
      BY <1>1, <2>1 DEF s, r
    <3>3. Append(s, e) = r
      BY <3>1, <3>2, AppendFifth
    <3> QED
      BY <2>1, <3>3 DEF s, r
<1>4. {a.family, b.family, c.family, d.family, e.family} = PageFamilies
  BY <1>1 DEF PageFamilies
<1>5. <<a, b, c, d, e>> \in Seq(Observations) /\ Whole(<<a, b, c, d, e>>)
  BY <1>1, <1>4, FiveAreWhole
<1>6. Append(PageObservations(tls, html), e) = <<a, b, c, d, e>>
  BY <1>2, <1>3
<1>7. PageObservations(tls, html) \in Seq(Observations)
  BY <1>2, <1>3
<1>8. Append(PageObservations(tls, html), e) \in Seq(Observations)
      /\ Whole(Append(PageObservations(tls, html), e))
  BY <1>5, <1>6
<1> QED
  BY <1>7, <1>8 DEF e

----------------------------------------------------------------------------
(* The inductive invariant.                                                *)

Connected == {"receiving", "reading", "rdap_reading"}

\* A connection is open only where it is used, to a checked address.
PeerInv ==
    /\ at \in Connected <=> peer # NoPeer
    /\ at \in Connected => peer \in pinned
    /\ at \in Connected \cup {"connecting", "rdap_connecting"} => pinned \subseteq Public

\* A decision is made when both calls have ended.
CallInv ==
    /\ session = "decided" => call # "open" /\ reputation # "asking"
    /\ session = "calling" => reputation # "none"

\* What is answered so far, by the point the request has reached.
AnswerInv ==
    /\ at \in OnRdap \cup {"page_done"} =>
          \E tls, html \in BOOLEAN : answer = PageObservations(tls, html)
    /\ at = "answered" => Whole(answer)

\* What the decision was made from.
VerdictInv ==
    session = "decided" =>
        \E calls \in SUBSET Observations, match \in EvidenceStates, hops \in 0..MaxRedirects :
            /\ evidence = calls \cup {Observation("reputation", match)}
            /\ verdict.trusted \in TrustedWeights(calls, hops)
            /\ verdict.local \in LocalStages
            /\ verdict.band = Verdict(verdict.local, verdict.trusted, evidence).band
            /\ verdict.completion = Verdict(verdict.local, verdict.trusted, evidence).completion

IInv == TypeOK /\ PeerInv /\ CallInv /\ AnswerInv /\ VerdictInv

\* The part of the invariant that is about the fetcher alone.
FetchPart == FetchTypeOK /\ PeerInv /\ AnswerInv

\* Every way to answer leaves the fetcher in order.
LEMMA AnswerLeaves ==
    ASSUME FetchPart, NEW s \in Seq(Observations), Whole(s), Answer(s), UNCHANGED clock
    PROVE  FetchPart'
BY DEF Answer, FetchPart, FetchTypeOK, PeerInv, AnswerInv, Connected

LEMMA FailsLeaves ==
    ASSUME FetchPart, NEW state \in EvidenceStates, UNCHANGED clock,
           Fails(state) \/ Answer(DnsFailureObservations(state))
    PROVE  FetchPart'
<1>1. CASE Fails(state)
  BY <1>1, FailuresAreWhole, AnswerLeaves DEF Fails
<1>2. CASE Answer(DnsFailureObservations(state))
  BY <1>2, FailuresAreWhole, AnswerLeaves
<1> QED
  BY <1>1, <1>2

LEMMA AnswerRdapLeaves ==
    ASSUME FetchPart, at \in OnRdap \cup {"page_done"}, NEW state \in EvidenceStates,
           AnswerRdap(state), UNCHANGED clock
    PROVE  FetchPart'
<1>1. PICK tls \in BOOLEAN, html \in BOOLEAN : answer = PageObservations(tls, html)
  BY DEF FetchPart, AnswerInv
<1>2. /\ Append(answer, Observation("rdap", state)) \in Seq(Observations)
      /\ Whole(Append(answer, Observation("rdap", state)))
  BY <1>1, PageIsWhole
<1> QED
  BY <1>2, AnswerLeaves DEF AnswerRdap

LEMMA PageDoneLeaves ==
    ASSUME FetchPart, NEW tls \in BOOLEAN, NEW html \in BOOLEAN, PageDone(tls, html),
           UNCHANGED clock
    PROVE  FetchPart'
<1>1. PageObservations(tls, html) \in Seq(Observations)
  BY PageIsWhole, StatesAreStates
<1> QED
  BY <1>1 DEF PageDone, FetchPart, FetchTypeOK, PeerInv, AnswerInv, Connected

LEMMA PinLeaves ==
    ASSUME FetchPart, UNCHANGED clock,
           \/ at = "resolving" /\ Pin("connecting")
           \/ at = "rdap_resolving" /\ Pin("rdap_connecting")
    PROVE  FetchPart'
BY DEF Pin, Answers, Checked, FetchPart, FetchTypeOK, PeerInv, AnswerInv, Connected

LEMMA BreaksLeaves ==
    ASSUME FetchPart, Breaks, UNCHANGED clock
    PROVE  FetchPart'
BY DEF Breaks, FetchPart, FetchTypeOK, PeerInv, AnswerInv, Connected

\* No step of the fetcher leaves its part of the invariant.
LEMMA FetcherStep ==
    ASSUME FetchPart, FetchStep
    PROVE  FetchPart'
<1>1. UNCHANGED clock
  BY DEF FetchStep, Begin, Resolve, Connect, Redirect, NoPage, ReadBody, Parse, Reject, ConnectionFails,
         PageTimesOut, RdapWithoutQuery, RdapBegins, RdapResolve, RdapConnect, RdapQuery, RdapTimesOut
<1>2. {"REJECTED_SAFETY", "UNAVAILABLE", "TIMED_OUT", "NOT_APPLICABLE", "OBSERVED"} \cup DnsFailures
          \subseteq EvidenceStates
  BY StatesAreStates
<1>3. CASE Begin \/ Resolve
  <2>1. CASE Begin
    BY <2>1 DEF Begin, FetchPart, FetchTypeOK, PeerInv, AnswerInv, Connected
  <2>2. CASE Resolve
    BY <1>1, <1>2, <2>2, PinLeaves, FailsLeaves DEF Resolve
  <2> QED
    BY <1>3, <2>1, <2>2
<1>4. CASE Connect
  BY <1>4, PublicAreAddresses DEF Connect, FetchPart, FetchTypeOK, PeerInv, AnswerInv, Connected
<1>5. CASE Redirect
  <2>1. hop + 1 \in 0..MaxRedirects
    BY <1>5, LimitsAreNaturals DEF Redirect, FetchPart, FetchTypeOK
  <2>2. CASE Fails("TIMED_OUT")
    BY <1>1, <1>2, <2>2, FailsLeaves
  <2>3. CASE ~Fails("TIMED_OUT")
    BY <1>5, <2>1, <2>3 DEF Redirect, NextHop, FetchPart, FetchTypeOK, PeerInv, AnswerInv, Connected
  <2> QED
    BY <2>2, <2>3
<1>6. CASE NoPage
  BY <1>1, <1>6, PageDoneLeaves DEF NoPage
<1>7. CASE ReadBody
  BY <1>7 DEF ReadBody, FetchPart, FetchTypeOK, PeerInv, AnswerInv, Connected
<1>8. CASE Parse
  <2>1. CASE \E tls \in BOOLEAN : PageDone(tls, TRUE)
    BY <1>1, <2>1, PageDoneLeaves
  <2>2. CASE \E state \in {"REJECTED_SAFETY", "UNAVAILABLE"} : Fails(state)
    BY <1>1, <1>2, <2>2, FailsLeaves
  <2> QED
    BY <1>1, <1>8, <2>1, <2>2, BreaksLeaves DEF Parse
<1>9. CASE Reject \/ ConnectionFails \/ PageTimesOut
  BY <1>1, <1>2, <1>9, FailsLeaves DEF Reject, ConnectionFails, PageTimesOut
<1>10. CASE RdapWithoutQuery
  BY <1>1, <1>2, <1>10, AnswerRdapLeaves DEF RdapWithoutQuery
<1>11. CASE RdapBegins
  BY <1>1, <1>11 DEF RdapBegins, FetchPart, FetchTypeOK, PeerInv, AnswerInv, Connected
<1>12. CASE RdapResolve
  BY <1>1, <1>2, <1>12, PinLeaves, AnswerRdapLeaves DEF RdapResolve
<1>13. CASE RdapConnect
  BY <1>13, PublicAreAddresses DEF RdapConnect, FetchPart, FetchTypeOK, PeerInv, AnswerInv, Connected
<1>14. CASE RdapQuery
  BY <1>1, <1>2, <1>14, AnswerRdapLeaves, BreaksLeaves DEF RdapQuery
<1>15. CASE RdapTimesOut
  BY <1>1, <1>2, <1>15, AnswerRdapLeaves DEF RdapTimesOut
<1> QED
  BY <1>3, <1>4, <1>5, <1>6, <1>7, <1>8, <1>9, <1>10, <1>11, <1>12, <1>13, <1>14, <1>15 DEF FetchStep

----------------------------------------------------------------------------
(* The session.                                                            *)

\* The type invariant of what the session keeps.
SessionTypeOK ==
    /\ session \in Sessions
    /\ reputation \in EvidenceStates \cup {"none", "asking"}
    /\ tries \in 0..Attempts
    /\ call \in CallStates
    /\ waited \in 0..ClientTimeout
    /\ evidence \subseteq Observations
    /\ verdict \in Rulings \cup {NoVerdict}
    /\ spent \in 0..Quota

LEMMA InvParts == IInv <=> FetchPart /\ SessionTypeOK /\ CallInv /\ VerdictInv
BY DEF IInv, TypeOK, FetchPart, SessionTypeOK

LEMMA InitInv == Init => IInv
<1> SUFFICES ASSUME Init PROVE IInv
  OBVIOUS
<1>1. FetchPart
  BY LimitsAreNaturals DEF Init, FetchInit, FetchPart, FetchTypeOK, PeerInv, AnswerInv, Connected
<1>2. SessionTypeOK /\ CallInv /\ VerdictInv
  BY QuotaIsPositive, TimeoutIsPositive DEF Init, FetchInit, SessionTypeOK, CallInv, VerdictInv, Attempts
<1> QED
  BY <1>1, <1>2, InvParts

LEMMA FetchFrame ==
    ASSUME FetchPart, UNCHANGED fetchVars
    PROVE  FetchPart'
BY DEF FetchPart, FetchTypeOK, PeerInv, AnswerInv, Connected, fetchVars

\* A decision that is not made by the step is as it was.
LEMMA VerdictFrame ==
    ASSUME VerdictInv, session' # "decided" \/ UNCHANGED <<session, evidence, verdict>>
    PROVE  VerdictInv'
BY DEF VerdictInv

\* A request that is over leaves nothing of the fetcher running.
LEMMA ServerlessLeaves ==
    ASSUME FetchPart, Serverless
    PROVE  FetchPart'
BY LimitsAreNaturals DEF Serverless, FetchPart, FetchTypeOK, PeerInv, AnswerInv, Connected

\* The states the client may report for the whole answer of the fetcher.
LEMMA ReturnsLeaves ==
    ASSUME SessionTypeOK, CallInv, call = "open", NEW outcome \in {"answered", "failed", "timed_out"},
           NEW observations \in SUBSET Observations, Returns(outcome, observations)
    PROVE  SessionTypeOK' /\ CallInv'
BY TimeoutIsPositive DEF SessionTypeOK, CallInv, Returns

LEMMA NetworkTypes ==
    ASSUME NEW state \in {"UNAVAILABLE", "TIMED_OUT"}
    PROVE  NetworkMissing(state) \in SUBSET Observations
<1>1. state \in EvidenceStates /\ "network" \in Families
  BY StatesAreStates, FamiliesAreFamilies
<1> QED
  BY <1>1, ObservationTypes DEF NetworkMissing

LEMMA ReturnedTypes ==
    ASSUME FetchPart
    PROVE  Returned \in SUBSET Observations
<1>1. answer \in Seq(Observations)
  BY DEF FetchPart, FetchTypeOK
<1>2. \A i \in 1..Len(answer) : answer[i] \in Observations
  BY <1>1
<1> QED
  BY <1>2 DEF Returned

LEMMA StartCallsInv == ASSUME IInv, StartCalls PROVE IInv'
<1>1. FetchPart /\ SessionTypeOK /\ CallInv /\ VerdictInv
  BY InvParts
<1>2. FetchPart'
  BY <1>1, LimitsAreNaturals DEF StartCalls, Sent, FetchPart, FetchTypeOK, PeerInv, AnswerInv, Connected
<1>3. spent' \in 0..Quota /\ reputation' \in EvidenceStates \cup {"asking"} /\ reputation' # "none"
  BY <1>1, QuotaIsPositive, StatesAreStates
     DEF StartCalls, WithoutLookup, ConsumeQuota, SessionTypeOK
<1>4. SessionTypeOK' /\ CallInv'
  BY <1>1, <1>3, TimeoutIsPositive DEF StartCalls, Sent, SessionTypeOK, CallInv, Attempts
<1>5. VerdictInv'
  BY <1>1, VerdictFrame DEF StartCalls
<1> QED
  BY <1>2, <1>4, <1>5 DEF IInv, TypeOK, FetchPart, SessionTypeOK

LEMMA LookupInv == ASSUME IInv, Looks PROVE IInv'
<1>1. FetchPart /\ SessionTypeOK /\ CallInv /\ VerdictInv
  BY InvParts
<1>2. UNCHANGED fetchVars
  BY DEF Looks, Request, NotConfigured, LookupRaises
<1>3. FetchPart'
  BY <1>1, <1>2, FetchFrame
<1>4. SessionTypeOK' /\ CallInv'
  <2>1. CASE Request
    BY <1>1, <2>1, StatesAreStates DEF Request, SessionTypeOK, CallInv, Attempts, fetchVars
  <2>2. CASE NotConfigured
    BY <1>1, <2>2, StatesAreStates DEF NotConfigured, SessionTypeOK, CallInv, Attempts, fetchVars
  <2>3. CASE LookupRaises
    BY <1>1, <2>3 DEF LookupRaises, SessionTypeOK, CallInv, Attempts, fetchVars
  <2> QED
    BY <2>1, <2>2, <2>3 DEF Looks
<1>5. VerdictInv'
  BY <1>1, VerdictFrame DEF Looks, Request, NotConfigured, LookupRaises
<1> QED
  BY <1>3, <1>4, <1>5 DEF IInv, TypeOK, FetchPart, SessionTypeOK

LEMMA ClientInv ==
    ASSUME IInv, AnswerArrives \/ ServerError \/ FetcherDies \/ ClientTimesOut
    PROVE  IInv'
<1>1. FetchPart /\ SessionTypeOK /\ CallInv /\ VerdictInv
  BY InvParts
<1>2. FetchPart'
  <2>1. Serverless \/ UNCHANGED fetchVars
    BY DEF AnswerArrives, ServerError, FetcherDies, ClientTimesOut
  <2> QED
    BY <1>1, <2>1, ServerlessLeaves, FetchFrame
<1>3. CASE UNCHANGED <<sessionVars, spent>>
  BY <1>1, <1>2, <1>3, VerdictFrame
     DEF sessionVars, SessionTypeOK, CallInv, IInv, TypeOK, FetchPart
<1>4. CASE ~UNCHANGED <<sessionVars, spent>>
  <2>1. call = "open" /\ session # "decided"
    BY <1>1, <1>4 DEF CallInv, AnswerArrives, ServerError, FetcherDies, ClientTimesOut
  <2>2. PICK outcome \in {"answered", "failed", "timed_out"}, observations \in SUBSET Observations :
            Returns(outcome, observations)
    <3>1. CASE AnswerArrives
      BY <1>1, <3>1, ReturnedTypes, NetworkTypes DEF AnswerArrives
    <3>2. CASE ServerError \/ FetcherDies \/ ClientTimesOut
      BY <1>4, <3>2, NetworkTypes DEF ServerError, FetcherDies, ClientTimesOut
    <3> QED
      BY <3>1, <3>2
  <2>3. SessionTypeOK' /\ CallInv'
    BY <1>1, <2>1, <2>2, ReturnsLeaves
  <2>4. VerdictInv'
    BY <1>1, <2>1, <2>2, VerdictFrame DEF Returns
  <2> QED
    BY <1>2, <2>3, <2>4 DEF IInv, TypeOK, FetchPart, SessionTypeOK
<1> QED
  BY <1>3, <1>4

LEMMA SmallStepsInv ==
    ASSUME IInv, FetchProceeds \/ Tick \/ AnswerLost \/ MinutePasses \/ NextJob
    PROVE  IInv'
<1>1. FetchPart /\ SessionTypeOK /\ CallInv /\ VerdictInv
  BY InvParts
<1>2. CASE FetchProceeds
  <2>1. FetchPart'
    BY <1>1, <1>2, FetcherStep DEF FetchProceeds
  <2>3. SessionTypeOK' /\ CallInv'
    BY <1>1, <1>2 DEF FetchProceeds, sessionVars, SessionTypeOK, CallInv
  <2>4. VerdictInv'
    BY <1>1, <1>2, VerdictFrame DEF FetchProceeds, sessionVars
  <2> QED
    BY <2>1, <2>3, <2>4 DEF IInv, TypeOK, FetchPart, SessionTypeOK
<1>3. CASE Tick
  <2>1. clock' \in 0..Budget /\ waited' \in 0..ClientTimeout
    BY <1>1, <1>3, LimitsAreNaturals, TimeoutIsPositive
       DEF Tick, ClientMeasures, ServerMeasures, FetchPart, FetchTypeOK, SessionTypeOK
  <2>2. FetchPart'
    BY <1>1, <1>3, <2>1 DEF Tick, FetchPart, FetchTypeOK, PeerInv, AnswerInv, Connected
  <2>3. SessionTypeOK' /\ CallInv'
    BY <1>1, <1>3, <2>1 DEF Tick, SessionTypeOK, CallInv
  <2>4. VerdictInv'
    BY <1>1, <1>3, VerdictFrame DEF Tick
  <2> QED
    BY <2>2, <2>3, <2>4 DEF IInv, TypeOK, FetchPart, SessionTypeOK
<1>4. CASE AnswerLost
  <2>1. FetchPart'
    BY <1>1, <1>4, ServerlessLeaves DEF AnswerLost
  <2>2. SessionTypeOK' /\ CallInv'
    BY <1>1, <1>4 DEF AnswerLost, Serverless, sessionVars, SessionTypeOK, CallInv
  <2>3. VerdictInv'
    BY <1>1, <1>4, VerdictFrame DEF AnswerLost, sessionVars
  <2> QED
    BY <2>1, <2>2, <2>3 DEF IInv, TypeOK, FetchPart, SessionTypeOK
<1>5. CASE MinutePasses
  <2>1. FetchPart'
    BY <1>1, <1>5, FetchFrame DEF MinutePasses
  <2>2. SessionTypeOK' /\ CallInv'
    BY <1>1, <1>5, QuotaIsPositive DEF MinutePasses, fetchVars, sessionVars, SessionTypeOK, CallInv
  <2>3. VerdictInv'
    BY <1>1, <1>5, VerdictFrame DEF MinutePasses, sessionVars
  <2> QED
    BY <2>1, <2>2, <2>3 DEF IInv, TypeOK, FetchPart, SessionTypeOK
<1>6. CASE NextJob
  <2>1. FetchPart'
    BY <1>1, <1>6, FetchFrame DEF NextJob
  <2>2. SessionTypeOK' /\ CallInv'
    BY <1>1, <1>6 DEF NextJob, fetchVars, SessionTypeOK, CallInv
  <2>3. VerdictInv'
    BY <1>1, <1>6, VerdictFrame DEF NextJob
  <2> QED
    BY <2>1, <2>2, <2>3 DEF IInv, TypeOK, FetchPart, SessionTypeOK
<1> QED
  BY <1>2, <1>3, <1>4, <1>5, <1>6

LEMMA VerdictTypes ==
    ASSUME NEW local \in LocalStages, NEW trusted \in Nat, NEW all
    PROVE  /\ Verdict(local, trusted, all).band \in Bands
           /\ Verdict(local, trusted, all).completion \in {"COMPLETE", "PARTIAL"}
<1>1. Verdict(local, trusted, all).band \in Bands
  BY VerdictNeverLowers
<1>2. Verdict(local, trusted, all).completion \in {"COMPLETE", "PARTIAL"}
  BY DEF Verdict
<1> QED
  BY <1>1, <1>2

LEMMA DecideInv == ASSUME IInv, Decide PROVE IInv'
<1>1. FetchPart /\ SessionTypeOK /\ CallInv /\ VerdictInv
  BY InvParts
<1>2. session = "calling" /\ call # "open" /\ session' = "decided" /\ reputation \in EvidenceStates
  BY <1>1 DEF Decide, BothReturned, SessionTypeOK, CallInv
<1> DEFINE match == Observation("reputation", reputation)
           all == evidence \cup {match}
<1>3. evidence \subseteq Observations /\ match \in Observations /\ hop \in 0..MaxRedirects
  BY <1>1, <1>2, ObservationTypes, FamiliesAreFamilies DEF SessionTypeOK, FetchPart, FetchTypeOK
<1>4. evidence' = all
  BY DEF Decide
<1>5. PICK local \in LocalStageOf, trusted \in TrustedWeights(evidence, hop) :
          verdict' = Ruling(Verdict(local, trusted, all).band, Verdict(local, trusted, all).completion,
                            local, trusted)
  BY <1>4 DEF Decide
<1>6. local \in LocalStages /\ trusted \in Nat
  BY <1>5, LocalStagesAreStages, WeightsAreNaturals
<1>7. Verdict(local, trusted, all).band \in Bands
      /\ Verdict(local, trusted, all).completion \in {"COMPLETE", "PARTIAL"}
  BY <1>6, VerdictTypes
<1> DEFINE band == Verdict(local, trusted, all).band
           completion == Verdict(local, trusted, all).completion
<1>8. /\ verdict' \in Rulings
      /\ verdict'.band = band /\ verdict'.completion = completion
      /\ verdict'.local = local /\ verdict'.trusted = trusted
  <2> HIDE DEF band, completion
  <2>1. verdict' = Ruling(band, completion, local, trusted) /\ band \in Bands
        /\ completion \in {"COMPLETE", "PARTIAL"}
    BY <1>5, <1>7 DEF band, completion
  <2> QED
    BY <1>6, <2>1 DEF Ruling, Rulings
<1>9. VerdictInv'
  <2>1. evidence \in SUBSET Observations
    BY <1>3
  <2>2. evidence' = evidence \cup {Observation("reputation", reputation)}
    BY <1>4
  <2>3. Verdict(verdict'.local, verdict'.trusted, evidence') = Verdict(local, trusted, all)
    BY <1>4, <1>8
  <2> QED
    BY <1>2, <1>3, <1>5, <1>6, <1>8, <2>1, <2>2, <2>3 DEF VerdictInv
<1>11. FetchPart'
  BY <1>1, FetchFrame DEF Decide
<1>12. SessionTypeOK' /\ CallInv'
  BY <1>1, <1>3, <1>4, <1>8 DEF Decide, SessionTypeOK, CallInv, Attempts
<1> QED
  BY <1>9, <1>11, <1>12 DEF IInv, TypeOK, FetchPart, SessionTypeOK

----------------------------------------------------------------------------
(* The theorems.                                                           *)

LEMMA NextInv == ASSUME IInv, [Next]_vars PROVE IInv'
<1>1. CASE StartCalls
  BY <1>1, StartCallsInv
<1>2. CASE Looks
  BY <1>2, LookupInv
<1>3. CASE FetcherDies \/ Client
  BY <1>3, ClientInv DEF Client
<1>4. CASE MinutePasses \/ AnswerLost \/ NextJob \/ Tick \/ FetchProceeds
  BY <1>4, SmallStepsInv
<1>5. CASE Decide
  BY <1>5, DecideInv
<1>6. CASE UNCHANGED vars
  <2>1. FetchPart'
    BY <1>6, InvParts, FetchFrame DEF vars
  <2>2. SessionTypeOK' /\ CallInv' /\ VerdictInv'
    BY <1>6, InvParts DEF vars, fetchVars, sessionVars, SessionTypeOK, CallInv, VerdictInv
  <2> QED
    BY <2>1, <2>2 DEF IInv, TypeOK, FetchPart, SessionTypeOK
<1> QED
  BY <1>1, <1>2, <1>3, <1>4, <1>5, <1>6 DEF Next, Progress

LEMMA Inductive == Spec => []IInv
<1>1. Init => IInv
  BY InitInv
<1>2. IInv /\ [Next]_vars => IInv'
  BY NextInv
<1> QED
  BY <1>1, <1>2, PTL DEF Spec

\* Every variable stays within its type: no more redirects are followed than allowed, no
\* more lookups made in a minute than the quota, no more requests made for one than three.
THEOREM TypeSafe == Spec => []TypeOK
<1>1. IInv => TypeOK
  BY DEF IInv
<1> QED
  BY <1>1, Inductive, PTL

\* The fetcher is only ever connected to an address that was checked, with every other
\* address of its name, after the last redirect.
THEOREM PeersAreChecked == Spec => []OnlyCheckedPeers
<1>1. IInv => OnlyCheckedPeers
  BY DEF IInv, PeerInv, OnlyCheckedPeers, Connected
<1> QED
  BY <1>1, Inductive, PTL

\* Whichever way a request to the fetcher ends, its answer names the five families once each.
THEOREM AnswersAreWhole == Spec => []AnswerIsWhole
<1>1. Cardinality(PageFamilies) = 5
  <2>1. IsFiniteSet({"dns"}) /\ Cardinality({"dns"}) = 1
    BY FS_Singleton
  <2>2. IsFiniteSet({"dns", "rdap"}) /\ Cardinality({"dns", "rdap"}) = 2
    <3>1. {"dns", "rdap"} = {"dns"} \cup {"rdap"} /\ "rdap" \notin {"dns"}
      OBVIOUS
    <3> QED
      BY <2>1, <3>1, FS_AddElement
  <2>3. IsFiniteSet({"dns", "rdap", "tls"}) /\ Cardinality({"dns", "rdap", "tls"}) = 3
    <3>1. {"dns", "rdap", "tls"} = {"dns", "rdap"} \cup {"tls"} /\ "tls" \notin {"dns", "rdap"}
      OBVIOUS
    <3> QED
      BY <2>2, <3>1, FS_AddElement
  <2>4. IsFiniteSet({"dns", "rdap", "tls", "redirect"})
        /\ Cardinality({"dns", "rdap", "tls", "redirect"}) = 4
    <3>1. {"dns", "rdap", "tls", "redirect"} = {"dns", "rdap", "tls"} \cup {"redirect"}
          /\ "redirect" \notin {"dns", "rdap", "tls"}
      OBVIOUS
    <3> QED
      BY <2>3, <3>1, FS_AddElement
  <2>5. PageFamilies = {"dns", "rdap", "tls", "redirect"} \cup {"static_html"}
        /\ "static_html" \notin {"dns", "rdap", "tls", "redirect"}
    BY DEF PageFamilies
  <2> QED
    BY <2>4, <2>5, FS_AddElement
<1>2. ASSUME IInv, at = "answered" PROVE Len(answer) = 5 /\ {item.family : item \in Returned} = PageFamilies
  BY <1>2 DEF IInv, AnswerInv, Whole, Returned
<1>3. IInv => AnswerIsWhole
  BY <1>1, <1>2 DEF AnswerIsWhole
<1> QED
  BY <1>3, Inductive, PTL

\* No evidence and no lack of it makes the FINAL band lower than the local one.
THEOREM RiskIsNeverLowered == Spec => []RiskNeverLowered
<1>1. ASSUME IInv, session = "decided" PROVE RiskNeverLowered
  <2>1. PICK calls, match, hops :
            /\ verdict.trusted \in TrustedWeights(calls, hops) /\ verdict.local \in LocalStages
            /\ verdict.band = Verdict(verdict.local, verdict.trusted, evidence).band
    BY <1>1 DEF IInv, VerdictInv
  <2>2. verdict.trusted \in Nat
    BY <2>1, WeightsAreNaturals
  <2> QED
    BY <2>1, <2>2, VerdictNeverLowers DEF RiskNeverLowered
<1>2. IInv => RiskNeverLowered
  BY <1>1 DEF RiskNeverLowered
<1> QED
  BY <1>2, Inductive, PTL

\* Without a model, a FINAL decision is HIGH only for a URL that a local rule has matched,
\* whatever the page, its registration and the reputation say.
FallbackHighHasRule ==
    session = "decided" /\ verdict.band = "HIGH" /\ verdict.local.mode = "RULE_ONLY" =>
        verdict.local.rules > 0

\* For any local stages the URLs of the jobs may have (decide in fusion.py).
THEOREM FallbackNeedsRules == Spec => []FallbackHighHasRule
<1>1. ASSUME IInv, session = "decided" PROVE FallbackHighHasRule
  <2>1. PICK calls, match, hops :
            /\ verdict.trusted \in TrustedWeights(calls, hops) /\ verdict.local \in LocalStages
            /\ verdict.band = Verdict(verdict.local, verdict.trusted, evidence).band
    BY <1>1 DEF IInv, VerdictInv
  <2>2. verdict.trusted \in Nat
    BY <2>1, WeightsAreNaturals
  <2> QED
    BY <2>1, <2>2, HighNeedsLocalStage DEF FallbackHighHasRule
<1>2. IInv => FallbackHighHasRule
  BY <1>1 DEF FallbackHighHasRule
<1> QED
  BY <1>2, Inductive, PTL

\* A reputation match alone neither raises nor lowers what the rest of the evidence decides.
THEOREM MatchesNeedLocalSignals == Spec => []MatchNeedsLocalSignal
<1>1. ASSUME IInv, session = "decided", Matched(evidence), ~Corroborated(verdict.local)
      PROVE  MatchNeedsLocalSignal
  <2> DEFINE seen == Observation("reputation", "OBSERVED")
  <2>1. PICK calls, match, hops :
            /\ evidence = calls \cup {Observation("reputation", match)}
            /\ verdict.trusted \in TrustedWeights(calls, hops) /\ verdict.local \in LocalStages
            /\ verdict.band = Verdict(verdict.local, verdict.trusted, evidence).band
    BY <1>1 DEF IInv, VerdictInv
  <2>2. \A family \in PageFamilies : Observed(evidence, family) <=> Observed(calls, family)
    BY <2>1 DEF Observed, Observation, PageFamilies
  <2>3. verdict.trusted \in TrustedWeights(evidence, hops)
    BY <2>1, <2>2 DEF TrustedWeights, PageFamilies, WeightsIf
  <2>4. evidence = evidence \cup {seen}
    BY <1>1 DEF Matched
  <2>5. verdict.band = LET without == Verdict(verdict.local, verdict.trusted, evidence \ {seen})
                       IN IF without.band = "INCONCLUSIVE" THEN LocalBand(verdict.local)
                          ELSE without.band
    BY <1>1, <2>1, <2>3, <2>4, MatchAlone
  <2> QED
    BY <2>5 DEF MatchNeedsLocalSignal
<1>2. IInv => MatchNeedsLocalSignal
  BY <1>1 DEF MatchNeedsLocalSignal
<1> QED
  BY <1>2, Inductive, PTL

\* A decision is called COMPLETE only with a usable observation of every expected family.
THEOREM CompleteIsNeverPartial == Spec => []CompleteIsWhole
<1>1. ASSUME IInv, session = "decided", verdict.completion = "COMPLETE" PROVE CompleteIsWhole
  <2>1. verdict.completion = Verdict(verdict.local, verdict.trusted, evidence).completion
    BY <1>1 DEF IInv, VerdictInv
  <2>2. \A item \in evidence : item.state \in EvidenceStates
    BY <1>1 DEF IInv, TypeOK, Observations
  <2> QED
    BY <1>1, <2>1, <2>2, CompleteHasAll DEF CompleteIsWhole
<1>2. IInv => CompleteIsWhole
  BY <1>1 DEF CompleteIsWhole
<1> QED
  BY <1>2, Inductive, PTL

\* An answer that comes after the page is that of the page and one observation more.
THEOREM PagesAreKept == Spec => PageEvidenceKept
<1> DEFINE Kept == at' = "answered" /\ at \in OnRdap \cup {"page_done"} =>
                       \E state \in EvidenceStates : answer' = Append(answer, Observation("rdap", state))
<1>1. ASSUME [Next]_vars, at' = "answered", at \in OnRdap \cup {"page_done"} PROVE Kept
  <2>1. FetchStep
    BY <1>1 DEF Next, Progress, Looks, Client, vars, fetchVars, sessionVars, StartCalls, Sent, MinutePasses,
          FetcherDies, Serverless, AnswerLost, Decide, NextJob, Tick, FetchProceeds, Request,
          NotConfigured, LookupRaises, AnswerArrives, ServerError, ClientTimesOut
  <2>2. RdapWithoutQuery \/ RdapBegins \/ RdapResolve \/ RdapConnect \/ RdapQuery \/ RdapTimesOut
    BY <1>1, <2>1 DEF FetchStep, Begin, Resolve, Connect, Redirect, NoPage, ReadBody, Parse, Reject,
          ConnectionFails, PageTimesOut
  <2>3. PICK state : state \in EvidenceStates /\ AnswerRdap(state)
    <3>1. {"REJECTED_SAFETY", "UNAVAILABLE", "TIMED_OUT", "NOT_APPLICABLE", "OBSERVED"} \cup DnsFailures
              \subseteq EvidenceStates
      BY StatesAreStates
    <3> QED
      BY <1>1, <2>2, <3>1 DEF RdapWithoutQuery, RdapBegins, RdapResolve, RdapConnect, RdapQuery,
            RdapTimesOut, Pin, Breaks
  <2> QED
    BY <2>3 DEF AnswerRdap, Answer
<1>2. [Next]_vars => [Kept]_vars
  BY <1>1
<1> QED
  BY <1>2, PTL DEF Spec, PageEvidenceKept

----------------------------------------------------------------------------
(* The work left of a session.                                             *)

LEMMA StepCounts ==
    /\ \A point \in FetchPoints : StepsLeft[point] \in 0..10
    /\ \A point \in FetchPoints \ {"idle"} : StepsLeft[point] >= 1
    /\ \A point \in FetchPoints \ {"idle", "answered", "broken"} : StepsLeft[point] >= 2
    /\ StepsLeft["idle"] = 0 /\ StepsLeft["answered"] = 1 /\ StepsLeft["broken"] = 1
    /\ StepsLeft["rdap_reading"] = 2 /\ StepsLeft["rdap_connecting"] = 3
    /\ StepsLeft["rdap_resolving"] = 4 /\ StepsLeft["page_done"] = 5 /\ StepsLeft["reading"] = 6
    /\ StepsLeft["receiving"] = 7 /\ StepsLeft["connecting"] = 8 /\ StepsLeft["resolving"] = 9
    /\ StepsLeft["queued"] = 10
BY DEF StepsLeft

\* A page is done, and answers come, only after what they need.
LEMMA FetchStepPoints ==
    ASSUME FetchPart, FetchStep
    PROVE  \/ /\ hop' = hop
              /\ \/ at \notin {"idle", "answered", "broken"} /\ at' \in {"answered", "broken"}
                 \/ at \in {"receiving", "reading"} /\ at' = "page_done"
                 \/ at = "queued" /\ at' = "resolving"
                 \/ at = "resolving" /\ at' = "connecting"
                 \/ at = "connecting" /\ at' = "receiving"
                 \/ at = "receiving" /\ at' = "reading"
                 \/ at = "page_done" /\ at' = "rdap_resolving"
                 \/ at = "rdap_resolving" /\ at' = "rdap_connecting"
                 \/ at = "rdap_connecting" /\ at' = "rdap_reading"
           \/ hop < MaxRedirects /\ hop' = hop + 1 /\ at = "receiving" /\ at' = "resolving"
<1>1. CASE Begin \/ Resolve \/ Connect \/ Redirect
  BY <1>1 DEF Begin, Resolve, Connect, Redirect, NextHop, Pin, Fails, Answer
<1>2. CASE NoPage \/ ReadBody \/ Parse
  BY <1>2 DEF NoPage, ReadBody, Parse, Breaks, PageDone, Fails, Answer
<1>3. CASE Reject \/ ConnectionFails \/ PageTimesOut
  BY <1>3 DEF Reject, ConnectionFails, PageTimesOut, Fails, Answer
<1>4. CASE RdapWithoutQuery \/ RdapBegins \/ RdapResolve
  BY <1>4 DEF RdapWithoutQuery, RdapBegins, RdapResolve, AnswerRdap, Answer, Pin
<1>5. CASE RdapConnect \/ RdapQuery \/ RdapTimesOut
  BY <1>5 DEF RdapConnect, RdapQuery, RdapTimesOut, Breaks, AnswerRdap, Answer
<1> QED
  BY <1>1, <1>2, <1>3, <1>4, <1>5 DEF FetchStep

LEMMA FetchWorkFalls ==
    ASSUME FetchPart, FetchStep
    PROVE  FetchWork' < FetchWork /\ FetchWork \in Nat
<1>1. /\ hop \in 0..MaxRedirects /\ MaxRedirects \in Nat /\ at \in FetchPoints
      /\ StepsLeft[at] \in 0..10
  BY StepCounts, LimitsAreNaturals DEF FetchPart, FetchTypeOK
<1>2. FetchWork \in Nat
  BY <1>1 DEF FetchWork
<1>3. CASE hop' = hop
  <2>1. StepsLeft[at'] \in 0..10 /\ StepsLeft[at'] < StepsLeft[at]
    BY <1>1, <1>3, FetchStepPoints, StepCounts
  <2> QED
    BY <1>1, <1>2, <1>3, <2>1 DEF FetchWork
<1>4. CASE hop' = hop + 1 /\ at = "receiving" /\ at' = "resolving"
  <2>1. StepsLeft[at] = 7 /\ StepsLeft[at'] = 9
    BY <1>4, StepCounts
  <2> QED
    BY <1>1, <1>2, <1>4, <2>1 DEF FetchWork
<1> QED
  BY <1>2, <1>3, <1>4, FetchStepPoints

SumOfWork ==
    /\ LookWork \in 0..4 /\ FetchWork \in 0..(10 + 3 * MaxRedirects)
    /\ ServerTime \in 0..Budget /\ CallWork \in 0..(1 + ClientTimeout)
    /\ MaxRedirects \in Nat /\ Budget \in Nat /\ ClientTimeout \in Nat

LEMMA WorkParts == TypeOK => SumOfWork
<1> SUFFICES ASSUME TypeOK PROVE SumOfWork
  OBVIOUS
<1>1. /\ hop \in 0..MaxRedirects /\ MaxRedirects \in Nat /\ StepsLeft[at] \in 0..10
      /\ tries \in 0..3 /\ clock \in 0..Budget /\ waited \in 0..ClientTimeout
      /\ Budget \in Nat /\ ClientTimeout \in Nat
  BY StepCounts, LimitsAreNaturals, TimeoutIsPositive DEF TypeOK, FetchTypeOK, Attempts
<1>2. LookWork \in 0..4
  BY <1>1 DEF LookWork, Attempts
<1>3. CallWork \in 0..(1 + ClientTimeout) /\ ServerTime \in 0..Budget
  BY <1>1 DEF CallWork, ServerTime
<1>4. FetchWork \in 0..(10 + 3 * MaxRedirects)
  BY <1>1 DEF FetchWork
<1> QED
  BY <1>1, <1>2, <1>3, <1>4 DEF SumOfWork

LEMMA WorkPartsNext == TypeOK' => SumOfWork'
BY WorkParts, PTL

\* Four numbers, one of which falls while none of the others rises, have a smaller sum.
LEMMA SumsFall ==
    ASSUME NEW a \in Nat, NEW b \in Nat, NEW c \in Nat, NEW d \in Nat,
           NEW a1 \in Nat, NEW b1 \in Nat, NEW c1 \in Nat, NEW d1 \in Nat,
           a1 <= a, b1 <= b, c1 <= c, d1 <= d,
           a1 < a \/ b1 < b \/ c1 < c \/ d1 < d
    PROVE  a1 + b1 + c1 + d1 < a + b + c + d
OBVIOUS

\* Less of one part and no more of the others.
LEMMA PartsFall ==
    ASSUME SumOfWork, SumOfWork', LookWork' <= LookWork, FetchWork' <= FetchWork,
           ServerTime' <= ServerTime, CallWork' <= CallWork,
           \/ LookWork' < LookWork \/ FetchWork' < FetchWork
           \/ ServerTime' < ServerTime \/ CallWork' < CallWork
    PROVE  Work' < Work
<1>1. /\ LookWork \in Nat /\ FetchWork \in Nat /\ ServerTime \in Nat /\ CallWork \in Nat
      /\ LookWork' \in Nat /\ FetchWork' \in Nat /\ ServerTime' \in Nat /\ CallWork' \in Nat
  BY DEF SumOfWork
<1>2. LookWork' + FetchWork' + ServerTime' + CallWork'
      < LookWork + FetchWork + ServerTime + CallWork
  BY <1>1, SumsFall
<1> QED
  BY <1>2 DEF Work

\* There is never more to do than one look through all steps, redirects and time: with
\* WorkFalls, so many steps at most from any point to the end of the calls.
WorkBounded == Work \in 0..(15 + 3 * MaxRedirects + Budget + ClientTimeout)

THEOREM WorkIsBounded == Spec => []WorkBounded
<1>1. ASSUME TypeOK PROVE WorkBounded
  <2>1. SumOfWork
    BY <1>1, WorkParts
  <2> QED
    BY <2>1 DEF SumOfWork, Work, WorkBounded
<1>2. TypeOK => WorkBounded
  BY <1>1
<1> QED
  BY <1>2, TypeSafe, PTL

\* Whatever a service answers or fails to answer, every step of a session leaves less to do.
THEOREM WorkFalls == Spec => WorkDecreases
<1>1. ASSUME IInv, IInv', Progress \/ FetcherDies \/ AnswerLost PROVE Work' < Work
  <2>1. SumOfWork /\ SumOfWork'
    BY <1>1, WorkParts, WorkPartsNext DEF IInv
  <2>2. /\ LookWork \in Nat /\ FetchWork \in Nat /\ ServerTime \in Nat /\ CallWork \in Nat
        /\ LookWork' \in Nat /\ FetchWork' \in Nat /\ ServerTime' \in Nat /\ CallWork' \in Nat
        /\ at \in FetchPoints /\ hop \in 0..MaxRedirects /\ MaxRedirects \in Nat
        /\ clock \in 0..Budget /\ waited \in 0..ClientTimeout
        /\ Budget \in Nat /\ ClientTimeout \in Nat
    BY <1>1, <2>1 DEF SumOfWork, IInv, TypeOK, FetchTypeOK
  <2>3. CASE FetchProceeds
    <3>1. FetchWork' < FetchWork
      BY <1>1, <2>3, FetchWorkFalls DEF FetchProceeds, IInv, TypeOK, FetchPart
    <3>2. LookWork' = LookWork /\ CallWork' = CallWork
      BY <2>3 DEF FetchProceeds, sessionVars, LookWork, CallWork
    <3>3. ServerTime' <= ServerTime
      <4>1. clock' = clock
        BY <2>3 DEF FetchProceeds, FetchStep, Begin, Resolve, Connect, Redirect, NoPage, ReadBody,
              Parse, Reject, ConnectionFails, PageTimesOut, RdapWithoutQuery, RdapBegins,
              RdapResolve, RdapConnect, RdapQuery, RdapTimesOut
      <4>2. at \notin {"idle", "answered", "broken"}
        BY <2>3 DEF FetchProceeds, FetchStep, Begin, Resolve, Connect, Redirect, NoPage, ReadBody,
              Parse, Reject, ConnectionFails, PageTimesOut, RdapWithoutQuery, RdapBegins,
              RdapResolve, RdapConnect, RdapQuery, RdapTimesOut
      <4> QED
        BY <2>2, <4>1, <4>2 DEF ServerTime
    <3> QED
      BY <2>1, <2>2, <3>1, <3>2, <3>3, PartsFall
  <2>4. CASE Tick
    <3>1. LookWork' = LookWork /\ FetchWork' = FetchWork
      BY <2>4 DEF Tick, LookWork, FetchWork
    <3>2. /\ CallWork' <= CallWork
          /\ ClientMeasures => CallWork' < CallWork
      BY <2>2, <2>4 DEF Tick, ClientMeasures, CallWork
    <3>3. /\ ServerTime' <= ServerTime
          /\ ServerMeasures => ServerTime' < ServerTime
      BY <2>2, <2>4 DEF Tick, ServerMeasures, ServerTime
    <3> QED
      BY <2>1, <2>2, <2>4, <3>1, <3>2, <3>3, PartsFall DEF Tick
  <2>5. CASE Looks
    <3>1. LookWork' < LookWork
      <4>1. reputation = "asking" /\ tries \in 0..3 /\ Attempts = 3
        BY <1>1, <2>5 DEF Looks, Request, NotConfigured, LookupRaises, IInv, TypeOK, Attempts
      <4> QED
        BY <2>5, <4>1 DEF Looks, Request, NotConfigured, LookupRaises, LookWork
    <3>2. FetchWork' = FetchWork /\ ServerTime' = ServerTime /\ CallWork' = CallWork
      BY <2>5 DEF Looks, Request, NotConfigured, LookupRaises, fetchVars, FetchWork, ServerTime,
            CallWork
    <3> QED
      BY <2>1, <2>2, <3>1, <3>2, PartsFall
  <2>6. CASE Client \/ FetcherDies \/ AnswerLost
    <3>1. LookWork' = LookWork
      BY <2>6 DEF Client, AnswerArrives, ServerError, ClientTimesOut, FetcherDies, AnswerLost,
            Returns, sessionVars, LookWork
    <3>2. Serverless => FetchWork' <= FetchWork /\ (at # "idle" => FetchWork' < FetchWork)
                        /\ ServerTime' = 0
      <4> SUFFICES ASSUME Serverless
                   PROVE  FetchWork' <= FetchWork /\ (at # "idle" => FetchWork' < FetchWork)
                          /\ ServerTime' = 0
        OBVIOUS
      <4>1. hop' = hop /\ at' = "idle"
        BY DEF Serverless
      <4>2. StepsLeft[at'] = 0 /\ StepsLeft[at] \in 0..10 /\ (at # "idle" => StepsLeft[at] > 0)
        BY <2>2, <4>1, StepCounts
      <4>3. FetchWork' = 3 * (MaxRedirects - hop)
        BY <2>2, <4>1, <4>2 DEF FetchWork
      <4> QED
        BY <2>2, <4>1, <4>2, <4>3 DEF FetchWork, ServerTime
    <3>3. UNCHANGED fetchVars => FetchWork' = FetchWork /\ ServerTime' = ServerTime
      BY DEF fetchVars, FetchWork, ServerTime
    <3>4. FetchWork' <= FetchWork /\ ServerTime' <= ServerTime
      BY <2>2, <2>6, <3>2, <3>3
         DEF Client, AnswerArrives, ServerError, ClientTimesOut, FetcherDies, AnswerLost
    <3>5. CASE call = "open" /\ call' # "open"
      <4>1. CallWork' < CallWork
        BY <2>2, <3>5 DEF CallWork
      <4> QED
        BY <2>1, <2>2, <3>1, <3>4, <4>1, PartsFall
    <3>6. CASE Serverless /\ at # "idle" /\ UNCHANGED sessionVars
      <4>1. CallWork' = CallWork
        BY <3>6 DEF sessionVars, CallWork
      <4> QED
        BY <2>1, <2>2, <3>1, <3>2, <3>4, <3>6, <4>1, PartsFall
    <3> QED
      BY <2>6, <3>5, <3>6
         DEF Client, AnswerArrives, ServerError, ClientTimesOut, FetcherDies, AnswerLost, Returns
  <2> QED
    BY <1>1, <2>3, <2>4, <2>5, <2>6 DEF Progress
<1>2. IInv /\ IInv' /\ [Next]_vars => [Progress \/ FetcherDies \/ AnswerLost => Work' < Work]_vars
  BY <1>1
<1> QED
  BY <1>2, Inductive, PTL DEF Spec, WorkDecreases
=============================================================================
