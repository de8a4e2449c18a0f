------------------------------- MODULE Fetcher ------------------------------
(***************************************************************************)
(* One request to the isolated fetcher: up to MaxRedirects + 1 hops, each  *)
(* resolved, checked and connected anew, then the registration data of the *)
(* last host.  Its time starts when the event loop gets to it, and the     *)
(* timer of Budget is for the page and the registration query together.    *)
(* The loop serves other requests, and parses pages without a pause: a     *)
(* timer that is due may have to wait, so nothing here is prompt.          *)
(* URLs and bytes are abstracted to the choices they lead to.              *)
(***************************************************************************)
EXTENDS Fusion, Sequences

CONSTANTS
    Address,        \* addresses a name may resolve to
    Public,         \* those on the public internet
    NoPeer,         \* no connection is open
    MaxRedirects,   \* redirects that are followed
    Budget          \* time for the whole request

ASSUME PublicAreAddresses == Public \subseteq Address /\ NoPeer \notin Address
ASSUME LimitsAreNaturals == MaxRedirects \in Nat /\ Budget \in Nat \ {0}

VARIABLES
    at,         \* where the request is
    hop,        \* redirects followed
    pinned,     \* the addresses the present connection may use
    peer,       \* the address it is connected to
    answer,     \* the observations so far
    clock       \* time since the loop got to it, as far as the timer measures it

fetchVars == <<at, hop, pinned, peer, answer, clock>>

\* Under the timer of the page, and under that of the registration query.
OnPage == {"resolving", "connecting", "receiving", "reading"}
OnRdap == {"rdap_resolving", "rdap_connecting", "rdap_reading"}
Awaiting == OnPage \cup OnRdap
FetchPoints == Awaiting \cup {"idle", "queued", "page_done", "answered", "broken"}

Observations == [family : Families, state : EvidenceStates]

FetchTypeOK ==
    /\ at \in FetchPoints
    /\ hop \in 0..MaxRedirects
    /\ pinned \subseteq Address
    /\ peer \in Address \cup {NoPeer}
    /\ answer \in Seq(Observations)
    /\ clock \in 0..Budget

FetchInit ==
    /\ at = "idle" /\ hop = 0 /\ pinned = {} /\ peer = NoPeer
    /\ answer = <<>> /\ clock = 0

----------------------------------------------------------------------------
(* Answers.                                                                *)

FailureObservations(state) ==
    << Observation("dns", state), Observation("rdap", state), Observation("tls", state),
       Observation("redirect", state), Observation("static_html", state) >>

DnsFailureObservations(state) ==
    << Observation("dns", state), Observation("rdap", "SKIPPED_POLICY"),
       Observation("tls", "SKIPPED_POLICY"), Observation("redirect", "SKIPPED_POLICY"),
       Observation("static_html", "SKIPPED_POLICY") >>

\* Variant: only families that apply are reported.
ApplicableObservations(tls, html) ==
    << Observation("dns", "OBSERVED"), Observation("redirect", "OBSERVED") >>
        \o (IF tls THEN << Observation("tls", "OBSERVED") >> ELSE <<>>)
        \o (IF html THEN << Observation("static_html", "OBSERVED") >> ELSE <<>>)

PageObservations(tls, html) ==
    << Observation("dns", "OBSERVED"), Observation("redirect", "OBSERVED"),
       Observation("tls", IF tls THEN "OBSERVED" ELSE "NOT_APPLICABLE"),
       Observation("static_html", IF html THEN "OBSERVED" ELSE "NOT_APPLICABLE") >>

\* Every way out closes the connection.
Answer(observations) ==
    /\ at' = "answered" /\ answer' = observations /\ peer' = NoPeer
    /\ UNCHANGED <<hop, pinned>>

Fails(state) == Answer(FailureObservations(state))

\* Variant: the second timer reports like the first.
AnswerRdapOrNothing(state) ==
    IF state = "TIMED_OUT" THEN Fails(state)
    ELSE Answer(Append(answer, Observation("rdap", state)))

AnswerRdap(state) == Answer(Append(answer, Observation("rdap", state)))

PageDone(tls, html) ==
    /\ at' = "page_done" /\ answer' = PageObservations(tls, html) /\ peer' = NoPeer
    /\ UNCHANGED <<hop, pinned>>

----------------------------------------------------------------------------
(* Addresses.                                                              *)

\* Variant: one of them is enough.
SomeChecked(found) == found \cap Public # {}

\* All addresses of a name must be public, not only the one that is used.
Checked(found) == found \subseteq Public

Answers == SUBSET Address \ {{}}
NotPublic == \E found \in Answers : ~Checked(found)

\* The addresses that were checked are the ones the connection resolves to.
Pin(next) ==
    /\ \E found \in Answers : Checked(found) /\ pinned' = found
    /\ at' = next
    /\ UNCHANGED <<hop, peer, answer>>

DnsFailures == {"NO_MATCH", "TIMED_OUT", "UNAVAILABLE"}

----------------------------------------------------------------------------
(* The page.                                                               *)

\* A request has been sent; the event loop has yet to get to it.
Sent ==
    /\ at' = "queued" /\ hop' = 0 /\ pinned' = {} /\ peer' = NoPeer /\ answer' = <<>>
    /\ clock' = 0

Begin ==
    /\ at = "queued" /\ at' = "resolving"
    /\ UNCHANGED <<hop, pinned, peer, answer, clock>>

Resolve ==
    /\ at = "resolving"
    /\ \/ Pin("connecting")
       \/ NotPublic /\ Answer(DnsFailureObservations("REJECTED_SAFETY"))
       \/ \E state \in DnsFailures : Answer(DnsFailureObservations(state))
    /\ UNCHANGED clock

Connect ==
    /\ at = "connecting"
    /\ peer' \in pinned /\ at' = "receiving"
    /\ UNCHANGED <<hop, pinned, answer, clock>>

\* A hop looks first at the time that is left.
NextHop(n) ==
    \/ /\ clock < Budget
       /\ hop' = n /\ at' = "resolving" /\ peer' = NoPeer
       /\ UNCHANGED <<pinned, answer>>
    \/ clock = Budget /\ Fails("TIMED_OUT")

\* Variant: the limit is one redirect late.
RedirectOnceMore ==
    /\ at = "receiving" /\ hop <= MaxRedirects
    /\ NextHop(hop + 1)
    /\ UNCHANGED clock

\* Variant: a redirect that is followed is not counted.
RedirectUncounted ==
    /\ at = "receiving"
    /\ NextHop(hop)
    /\ UNCHANGED clock

\* A redirect is followed by a hop of its own, never by the connection.
Redirect ==
    /\ at = "receiving" /\ hop < MaxRedirects
    /\ NextHop(hop + 1)
    /\ UNCHANGED clock

\* Another content type than HTML: nothing of the body is read.
NoPage ==
    /\ at = "receiving"
    /\ \E tls \in BOOLEAN : PageDone(tls, FALSE)
    /\ UNCHANGED clock

ReadBody ==
    /\ at = "receiving" /\ at' = "reading"
    /\ UNCHANGED <<hop, pinned, peer, answer, clock>>

\* What is neither a refusal nor a ValueError breaks the request off: the server
\* answers 500.
Breaks == at' = "broken" /\ peer' = NoPeer /\ UNCHANGED <<hop, pinned, answer>>

\* The body has ended within the limits, and is decompressed and parsed.
Parse ==
    /\ at = "reading"
    /\ \/ \E tls \in BOOLEAN : PageDone(tls, TRUE)
       \/ \E state \in {"REJECTED_SAFETY", "UNAVAILABLE"} : Fails(state)
       \/ Breaks
    /\ UNCHANGED clock

\* A refused URL, header, redirect or body.
Reject ==
    /\ at \in {"resolving", "receiving", "reading"}
    /\ Fails("REJECTED_SAFETY")
    /\ UNCHANGED clock

ConnectionFails ==
    /\ at \in {"connecting", "receiving", "reading"}
    /\ Fails("UNAVAILABLE")
    /\ UNCHANGED clock

\* The timer of the page; a connection has shorter ones of its own.
PageTimesOut ==
    /\ at \in OnPage /\ (at = "resolving" => clock = Budget)
    /\ Fails("TIMED_OUT")
    /\ UNCHANGED clock

----------------------------------------------------------------------------
(* The registration data, with the time the page has left.                 *)

\* An IP literal, a name without a service, or no time left.
RdapWithoutQuery ==
    /\ at = "page_done"
    /\ IF clock < Budget THEN \E state \in {"NOT_APPLICABLE", "UNAVAILABLE"} : AnswerRdap(state)
       ELSE AnswerRdap("TIMED_OUT")
    /\ UNCHANGED clock

RdapBegins ==
    /\ at = "page_done" /\ clock < Budget
    /\ at' = "rdap_resolving"
    /\ UNCHANGED <<hop, pinned, peer, answer, clock>>

RdapResolve ==
    /\ at = "rdap_resolving"
    /\ \/ Pin("rdap_connecting")
       \/ NotPublic /\ AnswerRdap("REJECTED_SAFETY")
       \/ \E state \in DnsFailures : AnswerRdap(state)
    /\ UNCHANGED clock

RdapConnect ==
    /\ at = "rdap_connecting"
    /\ peer' \in pinned /\ at' = "rdap_reading"
    /\ UNCHANGED <<hop, pinned, answer, clock>>

\* Errors and timeouts of the query count as no data, but for a body nested deeper
\* than the parser of JSON can follow: nobody expects that error.
RdapQuery ==
    /\ \/ at = "rdap_reading" /\ \E state \in {"OBSERVED", "UNAVAILABLE"} : AnswerRdap(state)
       \/ at = "rdap_connecting" /\ AnswerRdap("UNAVAILABLE")
       \/ at = "rdap_reading" /\ Breaks
    /\ UNCHANGED clock

RdapTimesOut ==
    /\ at \in OnRdap /\ clock = Budget
    /\ AnswerRdap("TIMED_OUT")
    /\ UNCHANGED clock

FetchStep ==
    \/ Begin \/ Resolve \/ Connect \/ Redirect \/ NoPage \/ ReadBody \/ Parse
    \/ Reject \/ ConnectionFails \/ PageTimesOut
    \/ RdapWithoutQuery \/ RdapBegins \/ RdapResolve \/ RdapConnect \/ RdapQuery \/ RdapTimesOut
=============================================================================
