------------------------------ MODULE Startup -------------------------------
(***************************************************************************)
(* One process from its command line to its exit code: main() with its     *)
(* order of precedence, what it reads from the configuration directory and *)
(* when, and the headless run of a choice of triggers.                     *)
(*                                                                         *)
(* Whoever maintains the configuration may replace either file at any      *)
(* moment.  The catalog is read three times (loaded, compared with its     *)
(* signature, hashed into the evidence), each time from the disk.          *)
(* The work of a window is in Desk, of App.run in Console and TriggerRun,  *)
(* of an update in Updater; here each is the set of its possible ends.     *)
(***************************************************************************)
EXTENDS Config

CONSTANTS
  CommandLines,   \* what may be typed
  CatalogFiles,   \* contents catalog.yaml may have; <<>> is one that is no list
  SignedFiles,    \* those a catalog.yaml.sig may be of; <<>> is no signature
  SettingsFiles,  \* contents settings.yaml may have
  MaxEdits,       \* bound: replacements of a file in one behaviour
  MaxFired        \* bound: triggers fired from a window

NotLoaded == [mapping |-> FALSE]

Flags == {"update", "profiles", "list", "dry-run", "preflight", "last-session"}

ASSUME StartupAssumption ==
  /\ \A line \in CommandLines :
       /\ line.flags \subseteq Flags
       /\ line.strict \in BOOLEAN /\ line.export \in BOOLEAN
  /\ \A file \in CatalogFiles :
       file \in Seq(ToSet(file)) /\ \A e \in ToSet(file) : IsEntry(e)
  /\ \A s \in SettingsFiles : IsSettings(s)
  /\ MaxEdits \in Nat /\ MaxFired \in Nat

VARIABLES
  args,       \* the command line
  disk,       \* the directory now: its catalog, its settings, the catalog that
              \* was signed (<<>> where there is no signature)
  edits,      \* how often the directory changed
  edited,     \* history: it changed between the loading and the stamp
  curl,       \* a curl is on PATH
  at,         \* where main is
  settings,   \* as loaded
  triggers,   \* as loaded
  stamp,      \* the files the session's evidence names
  todo,       \* triggers still to fire
  fired,      \* what App.run returned, in order
  evidence,   \* the exported file: the files it names, or Nowhere
  exit        \* the exit code, or Running

loaded == <<settings, triggers>>
vars == <<args, disk, edits, edited, curl, at, loaded, stamp, todo, fired, evidence, exit>>

-----------------------------------------------------------------------------

Running == -1
Nowhere == [catalog |-> <<>>, settings |-> NotLoaded]

HEADLESS_OK      == 0
HEADLESS_PROBLEM == 1
HEADLESS_USAGE   == 2

Init ==
  /\ args \in CommandLines
  /\ disk \in [catalog : CatalogFiles, settings : SettingsFiles, signed : SignedFiles]
  /\ curl \in BOOLEAN
  /\ edits = 0 /\ edited = FALSE
  /\ at = "start"
  /\ settings = NotLoaded /\ triggers = <<>>
  /\ stamp = Nowhere /\ todo = <<>> /\ fired = <<>>
  /\ evidence = Nowhere /\ exit = Running

(* The process ends with a code; an exception nobody catches ends it with  *)
(* a traceback and the code 1.                                             *)
Ends(code) ==
  /\ at' = "exited" /\ exit' = code
  /\ UNCHANGED <<args, disk, edits, edited, curl, loaded, stamp, todo, fired, evidence>>

Traceback == 1

GoesTo(place) == at' = place /\ UNCHANGED exit

(* The steps of main that only look.                                       *)
Looks(place) ==
  /\ GoesTo(place)
  /\ UNCHANGED <<args, disk, edits, edited, curl, loaded, stamp, todo, fired, evidence>>

-----------------------------------------------------------------------------
(* Before anything is sent.                                                *)

(* perform_update: nothing newer or installed, a failure, or a version to  *)
(* be had; it comes before the configuration is read.                      *)
Start ==
  /\ at = "start"
  /\ IF "update" \in args.flags THEN \E code \in {0, 1, 3} : Ends(code)
                                ELSE Looks("settings")

ReadSettings ==
  /\ at = "settings"
  /\ IF LoadSettings(disk.settings) = "refused" THEN Ends(2)
     ELSE /\ settings' = disk.settings
          /\ GoesTo("catalog")
          /\ UNCHANGED <<args, disk, edits, edited, curl, triggers, stamp, todo, fired, evidence>>

ReadCatalog ==
  /\ at = "catalog"
  /\ LET outcome == LoadCatalog(disk.catalog, settings)
     IN  \/ outcome = "refused" /\ Ends(2)
         \/ outcome = "raises" /\ Ends(Traceback)
         \/ /\ outcome = "loaded"
            /\ triggers' = disk.catalog
            /\ GoesTo("profiles")
            /\ UNCHANGED <<args, disk, edits, edited, curl, settings, stamp, todo, fired, evidence>>

ReadProfiles ==
  /\ at = "profiles"
  /\ IF LoadProfiles(settings, triggers) = "refused" THEN Ends(2) ELSE Looks("signature")

(* catalog_signature_status reads the file anew.                           *)
CatalogStatus ==
  CASE disk.signed = <<>>                                    -> "unsigned"
    [] disk.signed # <<>> /\ disk.signed = disk.catalog      -> "verified"
    [] disk.signed # <<>> /\ disk.signed # disk.catalog      -> "modified"

Strict == args.strict \/ settings.strict

CheckSignature ==
  /\ at = "signature"
  /\ IF Strict /\ CatalogStatus # "verified" THEN Ends(2) ELSE Looks("dispatch")

(* The previews, in their order of precedence; none of them starts an App. *)

ListProfiles ==
  /\ at = "dispatch" /\ "profiles" \in args.flags
  /\ Ends(IF \E name \in DOMAIN settings.profiles : ProfileRaises(name, settings, triggers)
          THEN Traceback ELSE 0)

PastProfiles == at = "dispatch" /\ "profiles" \notin args.flags

ProfileKnown == args.profile \in DOMAIN settings.profiles \cup {NoName}

UnknownProfile == PastProfiles /\ ~ProfileKnown /\ Ends(2)

Scope == IF args.profile = NoName THEN triggers
         ELSE ProfileTriggers(args.profile, settings, triggers)

Listing == {"list", "dry-run"} \cap args.flags # {}

ListTriggers ==
  /\ PastProfiles /\ ProfileKnown /\ Listing
  /\ Ends(IF \E t \in ToSet(Scope) : CountRaises(t, settings) THEN Traceback ELSE 0)

Preflighting == PastProfiles /\ ProfileKnown /\ ~Listing /\ "preflight" \in args.flags

(* Ready is a curl and an egress control that answers, no more.            *)
Preflight ==
  /\ Preflighting
  /\ \E egress \in BOOLEAN : Ends(IF curl /\ egress THEN 0 ELSE 1)

PastPreflight == PastProfiles /\ ProfileKnown /\ ~Listing /\ "preflight" \notin args.flags

LastSession == PastPreflight /\ "last-session" \in args.flags /\ Ends(0)

NoPreview == PastPreflight /\ "last-session" \notin args.flags /\ Looks("app")

-----------------------------------------------------------------------------
(* A session.                                                              *)

(* App.__init__ starts the ledger, which hashes the files on the disk;     *)
(* main then counts the signals of what can run.                           *)
Provenance == [catalog |-> disk.catalog, settings |-> disk.settings]

StartApp ==
  /\ at = "app"
  /\ stamp' = Provenance
  /\ IF \E t \in ToSet(triggers) : ~Unavailable(t, settings) /\ CountRaises(t, settings)
     THEN at' = "exited" /\ exit' = Traceback
     ELSE GoesTo(IF args.run = {} THEN "window" ELSE "select")
  /\ UNCHANGED <<args, disk, edits, edited, curl, loaded, todo, fired, evidence>>

(* With a profile the selector is not looked at.                           *)
Chosen == SelectTriggers(triggers, args.run, settings, args.profile)

Select ==
  /\ at = "select"
  /\ IF \/ args.profile = NoName /\ args.run # {"all"} /\ UnknownNames(args.run, triggers) # {}
        \/ Chosen = <<>>
        THEN Ends(HEADLESS_USAGE)
     ELSE IF \E t \in ToSet(Chosen) : CountRaises(t, settings) THEN Ends(Traceback)
     ELSE /\ todo' = Chosen
          /\ GoesTo("firing")
          /\ UNCHANGED <<args, disk, edits, edited, curl, loaded, stamp, fired, evidence>>

(* The ends App.run has for a trigger fired without parameters.            *)
Observed(t) ==
  CASE Unavailable(t, settings) \/ (t.runner = "curl" /\ ~curl) -> {"invalid"}
    [] ~(Unavailable(t, settings) \/ (t.runner = "curl" /\ ~curl)) ->
         CASE t.runner = "iprep" -> {"ratio", "error", "invalid"}
           [] t.runner = "ew" ->
                IF LoadEwTargets(settings) = "refused" THEN {"error"}
                ELSE IF t.of \in DOMAIN settings.targets
                     THEN {"allowed", "blocked", "error"} ELSE {"invalid"}
           [] t.runner \in {"curl", "dns", "tcp"} ->
                IF ParamsRefused(t) \/ (t.requests = 1 /\ Unresolved(t) # {})
                THEN {"error"} ELSE {"allowed", "blocked", "error"}

(* The lock is free, there being one caller, and min_run_interval is read  *)
(* as soon as it is taken.                                                 *)
RateLimited(t) == ~Unavailable(t, settings) /\ (t.runner = "curl" => curl)

Result(t, state) ==
  [id |-> t.id, state |-> state, signals |-> OnWireCount(t, settings)]

IntervalRaises(t) == RateLimited(t) /\ "min_interval_s" \in settings.unreadable

(* A feed download may end in an exception _run_iprep does not catch.      *)
MayRaise(t) == IntervalRaises(t) \/ (t.runner = "iprep" /\ ~Unavailable(t, settings))

(* run_headless does not catch what App.run lets out.                      *)
FireNext ==
  /\ at = "firing" /\ todo # <<>>
  /\ \/ /\ ~IntervalRaises(Head(todo))
        /\ \E state \in Observed(Head(todo)) :
             fired' = Append(fired, Result(Head(todo), state))
        /\ todo' = Tail(todo)
        /\ UNCHANGED <<args, disk, edits, edited, curl, at, loaded, stamp, evidence, exit>>
     \/ MayRaise(Head(todo)) /\ Ends(Traceback)

(* Mutant: the digests are taken at the export.                            *)
NamedOnDisk == Provenance

(* What the exported evidence says it was made from: the digests taken     *)
(* when the ledger was made.                                               *)
Named == stamp

(* Mutant: a block counts as a problem.                                    *)
NotPassed == {i \in DOMAIN fired : fired[i].state \notin {"allowed", "ratio"}}

Problems == {i \in DOMAIN fired : fired[i].state \in {"error", "invalid"}}

ExitCode == IF Problems = {} THEN HEADLESS_OK ELSE HEADLESS_PROBLEM

(* The summary, the export if one was asked for, the exit code.            *)
Exports(file) == \/ evidence' = file /\ exit' = ExitCode
                 \/ evidence' = evidence /\ exit' = HEADLESS_USAGE

Finish ==
  /\ at = "firing" /\ todo = <<>>
  /\ at' = "exited"
  /\ IF args.export THEN Exports(Named) ELSE exit' = ExitCode /\ UNCHANGED evidence
  /\ UNCHANGED <<args, disk, edits, edited, curl, loaded, stamp, todo, fired>>

(* A window fires cards and presenter steps in any order and exports when  *)
(* it is asked to; without a display it does not open.                     *)
NoDisplay == at = "window" /\ fired = <<>> /\ evidence = Nowhere /\ Ends(2)

WindowFires ==
  /\ at = "window" /\ Len(fired) < MaxFired
  /\ \E t \in ToSet(triggers) :
       /\ ~GatedDisabled(t, settings)
       /\ \E state \in IF IntervalRaises(t) THEN {"error"} ELSE Observed(t) :
            fired' = Append(fired, Result(t, state))
  /\ UNCHANGED <<args, disk, edits, edited, curl, at, loaded, stamp, todo, evidence, exit>>

WindowExports ==
  /\ at = "window"
  /\ evidence' = Named
  /\ UNCHANGED <<args, disk, edits, edited, curl, at, loaded, stamp, todo, fired, exit>>

CloseWindow == at = "window" /\ Ends(0)

-----------------------------------------------------------------------------
(* The directory changes under the process.                                *)

Loading == at \in {"catalog", "profiles", "signature", "dispatch", "app"}

Edit ==
  /\ edits < MaxEdits
  /\ edits' = edits + 1
  /\ edited' = (edited \/ Loading)
  /\ \/ \E file \in CatalogFiles : disk' = [disk EXCEPT !.catalog = file]
     \/ \E s \in SettingsFiles : disk' = [disk EXCEPT !.settings = s]
  /\ UNCHANGED <<args, curl, at, loaded, stamp, todo, fired, evidence, exit>>

Main ==
  \/ Start \/ ReadSettings \/ ReadCatalog \/ ReadProfiles \/ CheckSignature
  \/ ListProfiles \/ UnknownProfile \/ ListTriggers \/ Preflight \/ LastSession \/ NoPreview
  \/ StartApp \/ Select \/ FireNext \/ Finish
  \/ NoDisplay \/ WindowFires \/ WindowExports \/ CloseWindow

Next == Main \/ (at # "exited" /\ Edit)

Spec == Init /\ [][Next]_vars

-----------------------------------------------------------------------------
(* Properties.                                                             *)

Verdicts == {"allowed", "blocked", "ratio", "error", "invalid"}

Places == {"start", "settings", "catalog", "profiles", "signature", "dispatch", "app",
           "select", "firing", "window", "exited"}

(* What would fail at a click has failed at the start: in a loaded catalog *)
(* no id stands twice, every feed that is named is configured and every    *)
(* token of a command is declared (load_catalog).                          *)
SoundCatalog ==
  /\ \A i, j \in DOMAIN triggers : triggers[i].id = triggers[j].id => i = j
  /\ \A i \in DOMAIN triggers :
       /\ triggers[i].runner = "iprep" => FeedOf(triggers[i]) \in DOMAIN settings.feeds
       /\ triggers[i].uses \subseteq triggers[i].declares \cup BuiltinTokens

(* Types; the triggers in use are those of a sound catalog, and nothing    *)
(* but they is planned or fired (App.by_id, run_headless).                 *)
TypeOK ==
  /\ args \in CommandLines /\ curl \in BOOLEAN
  /\ disk \in [catalog : CatalogFiles, settings : SettingsFiles, signed : SignedFiles]
  /\ edits \in 0..MaxEdits /\ edited \in BOOLEAN
  /\ at \in Places
  /\ exit \in {Running, 0, 1, 2, 3} /\ (at = "exited" <=> exit # Running)
  /\ settings \in SettingsFiles \cup {NotLoaded}
  /\ triggers \in CatalogFiles \cup {<<>>}
  /\ SoundCatalog
  /\ ToSet(todo) \subseteq ToSet(triggers)
  /\ \A result \in ToSet(fired) : /\ result.id \in IdsOf(triggers)
                                 /\ result.state \in Verdicts
                                 /\ result.signals \in Nat

(* What the command line asks to be fired, and in which order.             *)
Wanted ==
  {t.id : t \in {u \in ToSet(triggers) :
     CASE args.profile # NoName ->
            /\ u.id \in ToSet(settings.profiles[args.profile].triggers)
            /\ ~GatedDisabled(u, settings)
       [] args.profile = NoName /\ args.run = {"all"} -> ~Unavailable(u, settings)
       [] OTHER -> {u.id, u.cls} \cap args.run # {}}}

Narrative == IF args.profile # NoName THEN settings.profiles[args.profile].triggers
             ELSE [i \in DOMAIN triggers |-> triggers[i].id]

FirstAt(id) == CHOOSE i \in DOMAIN Narrative :
                 /\ Narrative[i] = id
                 /\ \A j \in 1..(i - 1) : Narrative[j] # id

FiredIds == {fired[i].id : i \in DOMAIN fired}

(* A preview fires nothing, whatever else the command line holds (main).   *)
PreviewsFireNothing == args.flags # {} => fired = <<>>

(* A preview fires nothing; a headless run fires only what was asked for,  *)
(* each trigger once, in the order of the profile's story or of the        *)
(* catalog (main, select_triggers).                                        *)
FollowsScript ==
  /\ PreviewsFireNothing
  /\ args.run # {} /\ fired # <<>> =>
       /\ FiredIds \subseteq Wanted
       /\ \A i, j \in DOMAIN fired : i < j => FirstAt(fired[i].id) < FirstAt(fired[j].id)

(* The exit code of a headless run is 0 exactly when all that was asked    *)
(* for was fired and answered by policy, a block being an answer like any  *)
(* other, and the evidence asked for was written (run_headless).           *)
ExitIsPolicyNeutral ==
  at = "exited" /\ args.flags = {} /\ args.run # {} =>
    (exit = 0 <=> /\ fired # <<>>
                  /\ FiredIds = Wanted
                  /\ \A i \in DOMAIN fired : fired[i].state \in {"allowed", "blocked", "ratio"}
                  /\ args.export => evidence # Nowhere)

SignalsReported ==
  LET upto[n \in 0..Len(fired)] == IF n = 0 THEN 0 ELSE upto[n - 1] + fired[n].signals
  IN  upto[Len(fired)]

Opened(s) == [s EXCEPT !.live = TRUE]

(* The manifest is kept: a full headless run that ends well reports as     *)
(* many signals as the preview of the same scope promised, and the preview *)
(* with the gate open promises what this one says the gate would unlock    *)
(* (signal_manifest, run_headless).                                        *)
ManifestIsPromise ==
  /\ at = "exited" /\ exit = 0 /\ fired # <<>>
     /\ (args.run = {"all"} \/ (args.run # {} /\ args.profile # NoName)) =>
       SignalsReported = SignalManifest(Scope, settings).signals
  /\ triggers # <<>> =>
       SignalManifest(triggers, settings).ifGate
         = SignalManifest(triggers, Opened(settings)).signals

(* The evidence of a session names the files it was made from, however     *)
(* long the session and whatever became of the files since; only a change  *)
(* during the start itself escapes it (RunLedger.__init__, provenance).    *)
StampNamesTheCatalog ==
  evidence # Nowhere /\ ~edited =>
    evidence = [catalog |-> triggers, settings |-> settings]
=============================================================================
