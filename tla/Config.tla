------------------------------- MODULE Config -------------------------------
(***************************************************************************)
(* What is read at startup: settings.yaml, catalog.yaml, and from them the *)
(* triggers, the reputation feeds, the east-west targets and the profiles. *)
(* Pure functions, without state: Startup calls them, as main() does.      *)
(*                                                                         *)
(* A loader answers with an outcome: "loaded", "refused" (a ConfigError)   *)
(* or "raises" (an exception that main does not expect).  What makes a     *)
(* mapping unfit for a loader (a missing host, a port out of range, a bad  *)
(* name) is one bit of it, "sound".                                        *)
(***************************************************************************)
EXTENDS Naturals, Sequences, FiniteSets, SequencesExt

NoName == "none"

(* A trigger as catalog.yaml writes it: of is the feed or target it names, *)
(* uses the tokens in braces of its commands, required those of the        *)
(* declared parameters that must be supplied.                              *)
IsEntry(e) ==
  /\ e.runner \in {"curl", "dns", "tcp", "iprep", "ew"}
  /\ e.suspect \in BOOLEAN
  /\ e.requests \in Nat \ {0}
  /\ e.required \subseteq e.declares
  /\ e.fault \in {"none", "field", "predicate", "timeout_s"}

(* settings.yaml: unreadable holds the fields that should be numbers and   *)
(* are not; they are converted when they are used, not when they are read. *)
IsSettings(s) ==
  /\ DOMAIN s = {"mapping", "strict", "live", "sample", "unreadable", "targets", "feeds",
                 "profiles"}
  /\ s.mapping \in BOOLEAN /\ s.strict \in BOOLEAN /\ s.live \in BOOLEAN
  /\ s.sample \in Nat
  /\ s.unreadable \subseteq {"default_timeout_s", "ip_rep_sample", "min_interval_s"}
  /\ \A target \in Range(s.targets) : target.sound \in BOOLEAN /\ target.ports \in Nat \ {0}
  /\ \A feed \in Range(s.feeds) : feed.sound \in BOOLEAN
  /\ \A profile \in Range(s.profiles) :
       profile.sound \in BOOLEAN /\ profile.triggers \in Seq(ToSet(profile.triggers))

LoadSettings(s) == IF s.mapping THEN "loaded" ELSE "refused"

-----------------------------------------------------------------------------
(* Targets and feeds.  One malformed target refuses them all.              *)

LoadEwTargets(s) ==
  IF \A target \in Range(s.targets) : target.sound THEN "loaded" ELSE "refused"

LoadReputationFeeds(s) ==
  IF \A feed \in Range(s.feeds) : feed.sound THEN "loaded" ELSE "refused"

-----------------------------------------------------------------------------
(* Triggers.                                                               *)

GatedDisabled(t, s) == t.suspect /\ ~s.live

(* A malformed target reads as an undefined one.                           *)
Unconfigured(t, s) ==
  /\ t.runner = "ew" /\ t.of # NoName
  /\ LoadEwTargets(s) = "loaded" => t.of \notin DOMAIN s.targets

Unavailable(t, s) == GatedDisabled(t, s) \/ Unconfigured(t, s)

(* How many requests a trigger puts on the wire.                           *)
OnWireCount(t, s) ==
  CASE t.runner = "iprep" -> IF s.sample = 0 THEN 1 ELSE s.sample
    [] t.runner = "ew" /\ LoadEwTargets(s) = "loaded" /\ t.of \in DOMAIN s.targets ->
         s.targets[t.of].ports
    [] t.runner = "ew" /\ ~(LoadEwTargets(s) = "loaded" /\ t.of \in DOMAIN s.targets) -> 0
    [] OTHER -> t.requests

(* Counting a feed's probes is where ip_rep_sample becomes a number.       *)
CountRaises(t, s) == t.runner = "iprep" /\ "ip_rep_sample" \in s.unreadable

(* Tokens that build_command substitutes itself.                           *)
BuiltinTokens == {"devnull"}

UndeclaredTokens(e) == (e.uses \ e.declares) \ BuiltinTokens

(* expected_on_allow and expected_on_block, key by key.                    *)
PredicateUnfit(e) == e.fault = "predicate"

Unfit(e) == e.fault = "field" \/ PredicateUnfit(e) \/ UndeclaredTokens(e) # {}

FromDict(e) ==
  CASE Unfit(e)                            -> "refused"
    [] ~Unfit(e) /\ e.fault = "timeout_s" -> "raises"
    [] OTHER -> "loaded"

(* Fired without parameters, a trigger that requires one is refused, and a *)
(* command whose token nothing fills is not run.                           *)
ParamsRefused(t) == t.required # {}

Unresolved(t) == t.uses \ BuiltinTokens

(* Mutant: an id may stand twice.                                          *)
DuplicateNever(file, i) == FALSE

Duplicate(file, i) == \E j \in 1..(i - 1) : file[j].id = file[i].id

(* The entries are taken in order and the first that will not do decides:  *)
(* unfit by itself, or the second of its id.                               *)
EntryOutcome(file, i) ==
  IF FromDict(file[i]) = "loaded" /\ Duplicate(file, i) THEN "refused" ELSE FromDict(file[i])

FeedOf(t) == IF t.of = NoName THEN "tor" ELSE t.of

UnknownFeed(file, s) ==
  \E t \in ToSet(file) : t.runner = "iprep" /\ FeedOf(t) \notin DOMAIN s.feeds

LoadCatalog(file, s) ==
  LET unfit == {i \in DOMAIN file : EntryOutcome(file, i) # "loaded"}
  IN  CASE file = <<>> -> "refused"
        [] file # <<>> /\ "default_timeout_s" \in s.unreadable -> "raises"
        [] file # <<>> /\ "default_timeout_s" \notin s.unreadable /\ unfit # {} ->
             EntryOutcome(file, CHOOSE i \in unfit : \A j \in unfit : i <= j)
        [] OTHER -> IF LoadReputationFeeds(s) = "refused" \/ UnknownFeed(file, s)
                    THEN "refused" ELSE "loaded"

IdsOf(triggers) == {t.id : t \in ToSet(triggers)}

ById(triggers, id) == CHOOSE t \in ToSet(triggers) : t.id = id

-----------------------------------------------------------------------------
(* Profiles: ordered choices of catalog ids.                               *)

LoadProfiles(s, triggers) ==
  IF \A profile \in Range(s.profiles) :
       /\ profile.sound
       /\ profile.triggers # <<>>
       /\ ToSet(profile.triggers) \subseteq IdsOf(triggers)
  THEN "loaded" ELSE "refused"

(* The elements of a list at the places I, in their order.                 *)
Those(list, I) ==
  LET upto[n \in 0..Len(list)] ==
        IF n = 0 THEN <<>>
        ELSE IF n \in I THEN Append(upto[n - 1], list[n]) ELSE upto[n - 1]
  IN  upto[Len(list)]

(* Mutant: repeats stay.                                                   *)
AsWritten(ids) == ids

(* Repeats are dropped, the first occurrence stays.                        *)
KeepFirst(ids) ==
  Those(ids, {i \in DOMAIN ids : \A j \in 1..(i - 1) : ids[j] # ids[i]})

ProfileTriggers(name, s, triggers) ==
  LET ids == KeepFirst(s.profiles[name].triggers)
  IN  [i \in DOMAIN ids |-> ById(triggers, ids[i])]

(* Listing a profile counts the signals of what is not gated in it.        *)
ProfileRaises(name, s, triggers) ==
  \E t \in ToSet(ProfileTriggers(name, s, triggers)) :
    ~GatedDisabled(t, s) /\ CountRaises(t, s)

-----------------------------------------------------------------------------
(* The choice of a headless run, and the manifest of what a full run sends. *)

(* A selector is "all", or a set of ids and classes; no name is both.      *)
UnknownNames(wanted, triggers) ==
  wanted \ (IdsOf(triggers) \cup {t.cls : t \in ToSet(triggers)})

SelectTriggers(triggers, selector, s, profile) ==
  CASE profile # NoName ->
         LET story == ProfileTriggers(profile, s, triggers)
         IN  Those(story, {i \in DOMAIN story : ~GatedDisabled(story[i], s)})
    [] profile = NoName /\ selector = {"all"} ->
         Those(triggers, {i \in DOMAIN triggers : ~Unavailable(triggers[i], s)})
    [] OTHER ->
         Those(triggers, {i \in DOMAIN triggers :
                            {triggers[i].id, triggers[i].cls} \cap selector # {}})

NothingYet == [enabled |-> 0, gated |-> 0, unconfigured |-> 0, signals |-> 0, ifGate |-> 0]

(* Mutant: the manifest counts commands, not what they put on the wire.    *)
TalliedByCommand(sum, t, s) ==
  IF Unconfigured(t, s) \/ GatedDisabled(t, s) THEN sum
  ELSE [sum EXCEPT !.enabled = @ + 1, !.ifGate = @ + t.requests, !.signals = @ + t.requests]

(* The tally of the manifest with one more trigger: one that has no target *)
(* here is neither gated nor promised.                                     *)
Tallied(sum, t, s) ==
  CASE Unconfigured(t, s) -> [sum EXCEPT !.unconfigured = @ + 1]
    [] ~Unconfigured(t, s) /\ GatedDisabled(t, s) ->
         [sum EXCEPT !.gated = @ + 1, !.ifGate = @ + OnWireCount(t, s)]
    [] OTHER ->
         [sum EXCEPT !.enabled = @ + 1, !.ifGate = @ + OnWireCount(t, s),
                     !.signals = @ + OnWireCount(t, s)]

SignalManifest(triggers, s) ==
  LET upto[n \in 0..Len(triggers)] ==
        IF n = 0 THEN NothingYet ELSE Tallied(upto[n - 1], triggers[n], s)
  IN  upto[Len(triggers)]
=============================================================================
