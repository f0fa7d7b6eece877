----------------------------- MODULE TriggerRun -----------------------------
(***************************************************************************)
(* One trigger after another, as they meet the network: run_trigger with   *)
(* its transport check, its requests, their failover and the control       *)
(* probe; _run_ew with its control port; _run_iprep with its feed.  The    *)
(* run lock is held throughout (see Console), so one thread is enough.     *)
(*                                                                         *)
(* Around it the environment changes at any moment: the uplink, the IPv6   *)
(* route, the origin and its alternate go down and come back, and the      *)
(* inline stack may let each request pass, drop it, sink its name, break   *)
(* its TLS or answer it with a block page.  An exit code of curl says      *)
(* which of these happened only in part, as in the world.  What really     *)
(* became of a request is kept in truth, next to what the console saw.     *)
(***************************************************************************)
EXTENDS Verdict, FiniteSetsExt

Transports == {"dns", "tcp"}

(* What can break around a run: the uplink, the IPv6 route and the address *)
(* it is probed with, the origin and its alternate, and the transports     *)
(* control endpoints are filtered on.                                      *)
Breakable == {"uplink", "ipv6", "ipv6 control", "origin", "alternate"} \cup Transports

CONSTANTS
  Kinds,         \* what a trigger can be: runner, requests, needs, onBlock, onAllow
  Sites,         \* installations: an alternate in origin_failover, a curl with
                 \* HTTP/3, an ipv6_control_url, the kinds of its control
                 \* endpoints in order
  FeedLengths,   \* how many addresses a feed can hold
  CapTtl,        \* _IPV6_TTL
  FeedTtl,       \* ttl of the feed
  MaxRuns,       \* bound: runs in one behaviour
  Repeated,      \* bound: the triggers that can be run after another
  MaxFlips       \* bound: changes of the environment in one behaviour

ASSUME TriggerRunAssumption ==
  /\ \A kind \in Kinds :
       /\ kind.runner \in {"curl", "dns", "tcp", "ew", "iprep"}
       /\ kind.requests \in Nat \ {0}
       /\ kind.needs \in SUBSET {"ipv6", "http3"}
  /\ Sites \subseteq [alternate : BOOLEAN, http3 : BOOLEAN, ipv6Url : BOOLEAN,
                     controls : Seq(Transports)]
  /\ FeedLengths \subseteq Nat
  /\ CapTtl \in Nat /\ FeedTtl \in Nat
  /\ MaxRuns \in Nat /\ MaxFlips \in Nat /\ Repeated \subseteq Kinds

VARIABLES
  site,     \* this installation
  down,     \* what of Breakable is broken now
  flips,    \* how often that changed so far
  calm,     \* history: ticks since it last changed, not counted beyond CapTtl
  pc,       \* where the run is
  kind,     \* the trigger that runs
  first,    \* the first answer to a request that is to be tried elsewhere
  subs,     \* what the requests brought back, or the outcome of each port
  control,  \* what the control probe said
  asking,   \* the control endpoints it has still to try, by their places
  verdict,  \* the state of the run
  truth,    \* history: what became of each request
  upset,    \* history: the environment changed during this run
  cap,      \* the cached answer of ipv6_egress_ok, and its age
  feed,     \* the cached feed: its length, and its age
  runs      \* how many runs were started

envVars == <<down, flips, calm>>
runVars == <<kind, first, subs, control, asking, verdict, truth>>
vars == <<site, envVars, pc, runVars, upset, cap, feed, runs>>

-----------------------------------------------------------------------------

Truths == {"passed", "dropped", "broken"}

NoKind == [runner |-> "none", requests |-> 1, needs |-> {}]

Unknown == [known |-> FALSE, works |-> FALSE, age |-> 0]

NoFeed == [known |-> FALSE, length |-> 0, age |-> 0]

NeedsV6(k) == "ipv6" \in k.needs

(* The way from here to the edge of the network is up.                     *)
PathUp == "uplink" \notin down /\ (NeedsV6(kind) => "ipv6" \notin down)

OriginUp == "origin" \notin down

AlternateUp == "alternate" \notin down

Older(age, limit) == IF age < limit THEN age + 1 ELSE age

Init ==
  /\ down = {} /\ flips = 0 /\ calm = CapTtl
  /\ pc = "idle" /\ kind = NoKind /\ first = Blank
  /\ subs = <<>> /\ control = "none" /\ asking = {} /\ verdict = INVALID
  /\ truth = <<>> /\ upset = FALSE
  /\ cap = Unknown /\ feed = NoFeed
  /\ runs = 0
  /\ site \in Sites

-----------------------------------------------------------------------------
(* The environment.                                                        *)

Flip(what) ==
  /\ flips < MaxFlips
  /\ flips' = flips + 1
  /\ down' = IF what \in down THEN down \ {what} ELSE down \cup {what}
  /\ calm' = 0
  /\ upset' = (pc # "idle")
  /\ UNCHANGED <<site, pc, runVars, cap, feed, runs>>

(* Time passes between runs; a run is short beside CapTtl and FeedTtl.     *)
Tick ==
  /\ pc = "idle"
  /\ calm' = Older(calm, CapTtl)
  /\ cap' = [cap EXCEPT !.age = IF cap.known THEN Older(@, CapTtl) ELSE @]
  /\ feed' = [feed EXCEPT !.age = IF feed.known THEN Older(@, FeedTtl) ELSE @]
  /\ <<calm, cap, feed>>' # <<calm, cap, feed>>
  /\ UNCHANGED <<site, down, flips, pc, runVars, upset, runs>>

Exit(rc) == [Blank EXCEPT !.rc = rc]

Page(code) == [Exit(0) EXCEPT !.code = code]

DeniedPage == [Page(200) EXCEPT !.body = {"denied"}]

HungCurl == [Blank EXCEPT !.timedOut = TRUE]

(* What a catalog entry says of blocked and allowed answers describes the  *)
(* gateway here: a block page it knows is recognised, nothing else is      *)
(* taken for one, and no answer that is none is taken for a pass.  (The    *)
(* entries of the catalog that is shipped say nothing of either.)          *)
Describes(k) ==
  /\ ~PredMatches(k.onBlock, Page(200))
  /\ "body_contains" \in DOMAIN k.onBlock => PredMatches(k.onBlock, DeniedPage)
  /\ PredMatches(k.onAllow, Page(403)) => PredMatches(k.onBlock, Page(403))
  /\ ~PredMatches(k.onBlock, Exit(0)) /\ ~PredMatches(k.onAllow, Exit(0))

ASSUME CatalogDescribes == \A k \in Kinds : k.runner = "curl" => Describes(k)

(* The exit codes of a request nobody stopped and nobody answered: without *)
(* a way out the name is not resolved (6), or the connection refused or    *)
(* timed out (7, 28); a site that is down may have lost its name or its    *)
(* certificate (6, 60), or refuse, reset or hang (7, 56, 28).              *)
Unanswered(siteUp) ==
  IF ~PathUp THEN {6, 7, 28} ELSE IF ~siteUp THEN {6, 60} \cup BlockedRc ELSE {}

(* What the stack makes of a request it stops: a reset or silence, a name  *)
(* that is sunk (6), TLS it breaks (60), a block page, or a stall.         *)
Stopped == {Exit(rc) : rc \in BlockedRc \cup {6, 60}} \cup {Page(403), DeniedPage, HungCurl}

(* What can come back to a curl request now, and what became of it.  The   *)
(* process may also not start, not end in time, or end without a status.   *)
CurlAnswers(siteUp) ==
  ({[Blank EXCEPT !.err = TRUE], HungCurl} \X {"broken"})
  \cup ({Exit(rc) : rc \in Unanswered(siteUp)} \X {"broken"})
  \cup (IF PathUp THEN (Stopped \X {"dropped"}) \cup {<<Exit(0), "broken">>} ELSE {})
  \cup (IF PathUp /\ siteUp THEN {<<Page(200), "passed">>} ELSE {})

(* A native probe: no answer, an answer, or a failure of this host.        *)
ProbeAnswers ==
  {<<[Blank EXCEPT !.err = TRUE], "broken">>}
  \cup
  IF ~PathUp \/ ~OriginUp THEN {<<Blank, "broken">>}
  ELSE {<<Blank, "dropped">>, <<[Blank EXCEPT !.ok = TRUE], "passed">>}

(* One port of an east-west target.                                        *)
PortAnswers ==
  {<<"unreachable", "broken">>}
  \cup
  IF ~PathUp \/ ~OriginUp THEN {<<"timeout", "broken">>}
  ELSE {<<"timeout", "dropped">>, <<"open", "passed">>, <<"refused", "passed">>}

Answers ==
  CASE kind.runner = "curl"         -> CurlAnswers(OriginUp)
    [] kind.runner \in {"dns", "tcp"} -> ProbeAnswers
    [] kind.runner = "ew"           -> PortAnswers
    [] kind.runner = "iprep"        -> ProbeAnswers

-----------------------------------------------------------------------------
(* Starting and ending a run.                                              *)

Start(k) ==
  /\ pc = "idle"
  /\ runs < MaxRuns /\ (runs > 0 => k \in Repeated)
  /\ runs' = runs + 1
  /\ kind' = k
  /\ subs' = <<>> /\ truth' = <<>> /\ control' = "none" /\ first' = Blank
  /\ verdict' = INVALID
  /\ upset' = FALSE
  /\ pc' = IF k.runner \in {"ew", "iprep"} THEN "control first" ELSE "needs"
  /\ asking' = IF k.runner = "iprep" THEN DOMAIN site.controls ELSE {}
  /\ UNCHANGED <<site, envVars, cap, feed>>

EndWith(state) ==
  /\ verdict' = state
  /\ pc' = "done"
  /\ UNCHANGED <<site, envVars, kind, first, subs, control, asking, truth, upset, runs>>

(* The caller has the verdict.                                             *)
Return ==
  /\ pc = "done"
  /\ pc' = "idle"
  /\ kind' = NoKind /\ first' = Blank /\ subs' = <<>> /\ truth' = <<>>
  /\ control' = "none" /\ asking' = {} /\ verdict' = INVALID /\ upset' = FALSE
  /\ UNCHANGED <<site, envVars, cap, feed, runs>>

Goto(place) ==
  /\ pc' = place
  /\ UNCHANGED <<site, envVars, runVars, upset, runs>>

-----------------------------------------------------------------------------
(* unmet_requirement.                                                      *)

Http3Met == "http3" \in kind.needs => site.http3

Http3Unmet == pc = "needs" /\ ~Http3Met /\ EndWith(ERROR) /\ UNCHANGED <<cap, feed>>

NothingNeeded ==
  /\ pc = "needs" /\ Http3Met /\ ~NeedsV6(kind)
  /\ Goto("request") /\ UNCHANGED <<cap, feed>>

(* Mutant: the cached answer never goes stale.                             *)
CapKnown == cap.known

CapFresh == cap.known /\ cap.age < CapTtl

(* ipv6_egress_ok answers from its cache.                                  *)
CapCached ==
  /\ pc = "needs" /\ Http3Met /\ NeedsV6(kind) /\ CapFresh
  /\ IF cap.works THEN Goto("request") ELSE EndWith(ERROR)
  /\ UNCHANGED <<cap, feed>>

CapNoUrl ==
  /\ pc = "needs" /\ Http3Met /\ NeedsV6(kind) /\ ~CapFresh /\ ~site.ipv6Url
  /\ EndWith(ERROR) /\ UNCHANGED <<cap, feed>>

(* It probes; a filtered control address looks like a missing route.       *)
CapProbe ==
  /\ pc = "needs" /\ Http3Met /\ NeedsV6(kind) /\ ~CapFresh /\ site.ipv6Url
  /\ LET works == PathUp /\ "ipv6 control" \notin down
     IN  /\ cap' = [known |-> TRUE, works |-> works, age |-> 0]
         /\ IF works THEN Goto("request") ELSE EndWith(ERROR)
  /\ UNCHANGED feed

-----------------------------------------------------------------------------
(* The requests of run_trigger.                                            *)

(* How many requests this run makes: a feed may be shorter than the sample. *)
Wanted == IF kind.runner = "iprep"
          THEN IF feed.length < kind.requests THEN feed.length ELSE kind.requests
          ELSE kind.requests

Broke(s) == ClassifyCurl(s.rc, s.code) = ERROR /\ s.rc \in BrokenRc

FailsOver(s) == kind.runner = "curl" /\ site.alternate /\ Broke(s)

Took(answer) ==
  /\ subs' = Append(subs, answer[1])
  /\ truth' = Append(truth, answer[2])

Request ==
  /\ pc = "request" /\ Len(subs) < Wanted
  /\ \E answer \in Answers :
       IF FailsOver(answer[1])
       THEN /\ first' = answer[1]
            /\ truth' = Append(truth, answer[2])
            /\ pc' = "retry"
            /\ UNCHANGED subs
       ELSE Took(answer) /\ UNCHANGED <<first, pc>>
  /\ UNCHANGED <<site, envVars, kind, control, asking, verdict, upset, cap, feed, runs>>

(* _run_curl_with_failover, second half: the answer of the alternate       *)
(* counts if it is a policy result.                                        *)
Retry ==
  /\ pc = "retry"
  /\ \E answer \in CurlAnswers(AlternateUp) :
       LET kept == ClassifyCurl(answer[1].rc, answer[1].code) = ERROR
       IN  /\ subs' = Append(subs, IF kept THEN first
                                   ELSE [answer[1] EXCEPT !.failover = TRUE])
           /\ truth' = IF kept THEN truth ELSE [truth EXCEPT ![Len(truth)] = answer[2]]
  /\ first' = Blank
  /\ pc' = "request"
  /\ UNCHANGED <<site, envVars, kind, control, asking, verdict, upset, cap, feed, runs>>

NeedControl == \E i \in DOMAIN subs : ~subs[i].ok /\ ~subs[i].err

RequestsDone ==
  /\ pc = "request" /\ Len(subs) = Wanted
  /\ IF kind.runner \in {"dns", "tcp"} /\ NeedControl /\ site.controls # <<>>
     THEN pc' = "control after" /\ asking' = DOMAIN site.controls
     ELSE pc' = "classify" /\ UNCHANGED asking
  /\ UNCHANGED <<site, envVars, kind, first, subs, control, verdict, truth, upset, cap, feed, runs>>

(* Mutant: a probe of a control endpoint has no timeout.                   *)
ControlHangs(transport) == IF "uplink" \in down THEN {} ELSE {"ok", "failed"}

ControlSays(transport) ==
  IF down \cap {"uplink", transport} = {} THEN {"ok"} ELSE {"failed"}

(* Mutant: the first endpoint has the last word.                           *)
OnlyTheFirst(said, rest) == {}

StillToAsk(said, rest) == IF said = "ok" THEN {} ELSE rest

(* Those of the probe's own transport come first, the others in order.     *)
NextToAsk ==
  LET own == {i \in asking : site.controls[i] = kind.runner}
  IN  IF own # {} THEN Min(own) ELSE Min(asking)

(* probe_control: one endpoint after another until one answers.            *)
AskControl ==
  /\ asking # {}
  /\ control' \in ControlSays(site.controls[NextToAsk])
  /\ asking' = StillToAsk(control', asking \ {NextToAsk})
  /\ UNCHANGED <<site, envVars, kind, first, subs, truth, upset, cap, feed, runs>>

ControlAfter ==
  /\ pc = "control after"
  /\ AskControl
  /\ pc' = IF asking' = {} THEN "classify" ELSE pc
  /\ UNCHANGED verdict

(* The states of a run; a ratio is no verdict.                             *)
State ==
  CASE kind.runner \in {"curl", "dns", "tcp"} -> Classify(kind, subs, control)
    [] kind.runner = "ew"                     -> EwVerdict(subs)
    [] kind.runner = "iprep"                  -> RATIO

ClassifyRun == pc = "classify" /\ EndWith(State) /\ UNCHANGED <<cap, feed>>

-----------------------------------------------------------------------------
(* _run_ew and _run_iprep begin with their control.                        *)

(* The control port of the target itself.                                  *)
EwControlSays == IF PathUp /\ OriginUp THEN {"ok", "failed"} ELSE {"failed"}

EwControl ==
  /\ pc = "control first" /\ kind.runner = "ew"
  /\ control' \in EwControlSays
  /\ IF control' = "ok" THEN pc' = "request" /\ UNCHANGED verdict
     ELSE pc' = "done" /\ verdict' = ERROR
  /\ UNCHANGED <<site, envVars, kind, first, subs, asking, truth, upset, cap, feed, runs>>

IprepNoControl ==
  /\ pc = "control first" /\ kind.runner = "iprep" /\ site.controls = <<>>
  /\ EndWith(ERROR) /\ UNCHANGED <<cap, feed>>

IprepControl ==
  /\ pc = "control first" /\ kind.runner = "iprep"
  /\ AskControl
  /\ \/ control' = "ok" /\ pc' = "feed" /\ UNCHANGED verdict
     \/ control' # "ok" /\ asking' # {} /\ UNCHANGED <<pc, verdict>>
     \/ control' # "ok" /\ asking' = {} /\ pc' = "done" /\ verdict' = INVALID

(* IpFeedCache.get.                                                        *)
FeedFresh == feed.known /\ feed.age < FeedTtl

FeedCached ==
  /\ pc = "feed" /\ FeedFresh
  /\ IF feed.length = 0 THEN EndWith(ERROR) ELSE Goto("request")
  /\ UNCHANGED <<cap, feed>>

FeedFetched ==
  /\ pc = "feed" /\ ~FeedFresh /\ "uplink" \notin down
  /\ \E n \in FeedLengths :
       /\ feed' = [known |-> TRUE, length |-> n, age |-> 0]
       /\ IF n = 0 THEN EndWith(ERROR) ELSE Goto("request")
  /\ UNCHANGED cap

(* Nothing is cached, and what was is kept.                                *)
FeedFails ==
  /\ pc = "feed" /\ ~FeedFresh
  /\ EndWith(ERROR) /\ UNCHANGED <<cap, feed>>

-----------------------------------------------------------------------------

RunStep ==
  \/ Http3Unmet
  \/ NothingNeeded
  \/ CapCached
  \/ CapNoUrl
  \/ CapProbe
  \/ Request
  \/ Retry
  \/ RequestsDone
  \/ ControlAfter
  \/ ClassifyRun
  \/ EwControl
  \/ IprepNoControl
  \/ IprepControl
  \/ FeedCached
  \/ FeedFetched
  \/ FeedFails
  \/ Return

Next ==
  \/ \E k \in Kinds : Start(k)
  \/ RunStep
  \/ \E what \in Breakable : Flip(what)
  \/ Tick

Spec == Init /\ [][Next]_vars

(* Every probe and every command has a timeout, so a run goes on.          *)
FairSpec == Spec /\ WF_vars(RunStep)

-----------------------------------------------------------------------------
(* Properties.                                                             *)

(* Every variable holds what the code can hold there: a run never brings   *)
(* back more than it asked for, and what it brings back fits its runner.   *)
TypeOK ==
  /\ down \subseteq Breakable
  /\ flips \in 0..MaxFlips /\ calm \in 0..CapTtl /\ runs \in 0..MaxRuns
  /\ pc \in {"idle", "needs", "control first", "feed", "request", "retry",
             "control after", "classify", "done"}
  /\ pc = "idle" <=> kind = NoKind
  /\ kind # NoKind => kind \in Kinds
  /\ first \in SubResult
  /\ Len(subs) <= kind.requests
  /\ \A i \in DOMAIN subs :
       IF kind.runner = "ew" THEN subs[i] \in {"open", "refused", "timeout", "unreachable"}
       ELSE subs[i] \in SubResult
  /\ Len(truth) = Len(subs) + (IF pc = "retry" THEN 1 ELSE 0)
  /\ \A i \in DOMAIN truth : truth[i] \in Truths
  /\ control \in {"none", "ok", "failed"}
  /\ asking \subseteq DOMAIN site.controls
  /\ verdict \in Verdicts
  /\ upset \in BOOLEAN
  /\ cap \in [known : BOOLEAN, works : BOOLEAN, age : 0..CapTtl]
  /\ site \in Sites
  /\ feed \in [known : BOOLEAN, length : Nat, age : 0..FeedTtl]

Became(what) == {i \in DOMAIN truth : truth[i] = what}

(* The site the answer s came from is up.                                  *)
SiteUp(s) == IF kind.runner = "curl" /\ s.failover THEN AlternateUp ELSE OriginUp

(* What a runner has no means to tell from a drop: a site that is down     *)
(* and, for curl, which asks no control endpoint, a missing uplink.        *)
Blind ==
  /\ kind.runner \in {"curl", "dns", "tcp"}
  /\ \/ kind.runner = "curl" /\ "uplink" \in down
     \/ \E i \in DOMAIN subs : ~SiteUp(subs[i])

(* The environment did not change during the run and, for a trigger that   *)
(* rests on the cached IPv6 answer, not for the life of that answer.       *)
Settled == ~upset /\ (NeedsV6(kind) => calm = CapTtl)

(* The block page of this trigger's gateway is not described in the        *)
(* catalog.                                                                *)
PageUnknown == kind.runner = "curl" /\ "body_contains" \notin DOMAIN kind.onBlock

(* Some control endpoint can be reached.                                   *)
ControlWithin ==
  "uplink" \notin down /\ \E i \in DOMAIN site.controls : site.controls[i] \notin down

(* Whatever happens around a run, allowed means that a request went        *)
(* through, and blocked that more of them did not than did.  In a settled  *)
(* environment, outside the blind spots, blocked means that the stack      *)
(* stopped more than it let through, whatever else broke.  And "one        *)
(* filtered control host can no longer mask real inline blocks": while one *)
(* of them can be reached, native requests that were all dropped are       *)
(* blocked (classify, probe_control, _run_ew).                             *)
HonestVerdict ==
  pc = "done" =>
    /\ verdict = ALLOWED => Became("passed") # {} \/ PageUnknown
    /\ verdict = BLOCKED =>
         Cardinality(Became("dropped") \cup Became("broken")) > Cardinality(Became("passed"))
    /\ Settled /\ verdict = BLOCKED /\ ~Blind =>
         Cardinality(Became("dropped")) > Cardinality(Became("passed"))
    /\ /\ Settled /\ kind.runner \in {"dns", "tcp"} /\ ControlWithin
       /\ truth # <<>> /\ Became("dropped") = DOMAIN truth
       => verdict = BLOCKED

(* "An environment failure is reported as error, never as a false          *)
(* blocked": a blocked run met the policy at least once.                   *)
NoFalseBlock ==
  pc = "done" /\ Settled /\ verdict = BLOCKED => Became("dropped") # {}

(* "An SE laptop moves between networks": however old the cached answer    *)
(* about IPv6 was, once the environment stood still for its time to live a *)
(* trigger that needs IPv6 ran only over a route that is there, and was    *)
(* turned away only without one, or where the control address could not be *)
(* reached (ipv6_egress_ok, unmet_requirement).                            *)
CapabilityHonest ==
  pc = "done" /\ kind.runner \in {"curl", "dns", "tcp"} /\ NeedsV6(kind) /\ Settled =>
    /\ subs # <<>> => PathUp
    /\ subs = <<>> /\ Http3Met /\ site.ipv6Url => ~PathUp \/ "ipv6 control" \in down

(* A run ends: it waits for nothing that need not happen.                  *)
RunsEnd == pc # "idle" ~> pc = "idle"
=============================================================================
