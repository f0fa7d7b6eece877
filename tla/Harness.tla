------------------------------ MODULE Harness ------------------------------
(***************************************************************************)
(* The paired measurement of poc/: the harness posts every probe of its    *)
(* catalog through the control under test to a reflector, reads the        *)
(* reflector's signed ledger, reconciles the two and scores the control.   *)
(*                                                                         *)
(* The network is the interesting party.  A probe can be dropped by the    *)
(* control, which may answer it all the same, lost on a path that is down, *)
(* cut short on the way, refused by the reflector, or be still crossing    *)
(* when the harness gives up on it and even when the ledger is read; the   *)
(* reflector keeps its ledger in memory and may be restarted.              *)
(***************************************************************************)
EXTENDS Integers, Sequences, SequencesExt, FiniteSets

CONSTANTS
  Catalog,      \* the probes, in the order they are sent
  Canary,       \* the one with role: control
  Malicious,    \* class malicious; the others are benign
  Marks,        \* the markers in each payload
  Policies,     \* what the control may be configured with: rules in order
  Bodies,       \* the sets of probes that may be over the reflector's MAX_BODY
  MaxFlips,     \* bound: changes of the path between up and down
  MaxCuts,      \* bound: probes whose body is cut short
  MaxRestarts   \* bound: restarts of the reflector

Probes == ToSet(Catalog)
Benign == Probes \ Malicious

(* load_catalog refuses a catalog that names a probe twice.                *)
ASSUME HarnessAssumption ==
  /\ Catalog \in Seq(Probes) /\ IsInjective(Catalog)
  /\ Canary \in Benign
  /\ Malicious \subseteq Probes /\ Bodies \subseteq SUBSET Probes
  /\ MaxFlips \in Nat /\ MaxCuts \in Nat /\ MaxRestarts \in Nat

VARIABLES
  policy,    \* the control's rules
  oversize,  \* the probes that are
  trusted,   \* harness and reflector hold the same secret
  path,      \* the data path beyond the control is up
  at,        \* where run() is
  next,      \* the place in Catalog it has reached
  fate,      \* what has become of each probe
  ledger,    \* Ledger._runs[run_id] of the reflector
  cut,       \* the probes whose body was cut short on the way
  acked,     \* latency_ms is not None
  results,   \* the reconciled outcomes, once there are any
  hung,      \* history: probes still crossing when the ledger was read
  flips,     \* history: changes of the path
  restarts   \* history: restarts of the reflector

run  == <<at, next, acked, results, hung>>
net  == <<policy, oversize, trusted, path, flips>>
vars == <<run, net, fate, cut, ledger, restarts>>

-----------------------------------------------------------------------------
ARRIVED == "arrived"
MANGLED == "mangled"
BLOCKED == "blocked"
ERROR   == "error"
None    == "none"

(* decide(): a drop anywhere in the rules that match wins.                 *)
Decide(rules, marks) ==
  LET acts == {rules[i].act : i \in {j \in DOMAIN rules : rules[j].mark \in marks}}
  IN  CASE "drop" \in acts                           -> "drop"
        [] "drop" \notin acts /\ "sanitize" \in acts -> "sanitize"
        [] acts \cap {"drop", "sanitize"} = {}       -> "allow"

Treatment(p) == Decide(policy, Marks[p])

(* Mutant: the reflector does not look at what it was sent.                *)
DigestUnseen(p, short) == "intact"

(* The digest the reflector works out for what it read, which is taken for *)
(* the body even when the connection ended before all of it was there.     *)
DigestOf(p, short) == IF p \in short \/ Treatment(p) = "sanitize" THEN "altered" ELSE "intact"

Init ==
  /\ policy \in Policies
  /\ oversize \in Bodies
  /\ trusted \in BOOLEAN
  /\ path \in BOOLEAN
  /\ at = "send"
  /\ next = 1
  /\ fate = [p \in Probes |-> "unsent"]
  /\ cut = {}
  /\ ledger = [p \in Probes |-> None]
  /\ acked = [p \in Probes |-> FALSE]
  /\ results = [p \in Probes |-> None]
  /\ hung = {}
  /\ flips = 0
  /\ restarts = 0

-----------------------------------------------------------------------------
(* The harness: send_probes.                                               *)

Current == Catalog[next]

SendsNext == at = "send" /\ next <= Len(Catalog)

(* What the control read holds these markers: it drops the probe, forwards *)
(* it on a path that is down, or forwards it.                              *)
Leaves(marks) ==
  LET drops == Decide(policy, marks) = "drop"
  IN  /\ at' = "wait"
      /\ fate' = [fate EXCEPT ![Current] =
                    CASE drops            -> "dropped"
                      [] ~drops /\ ~path -> "lost"
                      [] ~drops /\ path  -> "crossing"]
      /\ UNCHANGED <<next, acked, results, hung, net, ledger, restarts>>

Send == SendsNext /\ Leaves(Marks[Current]) /\ UNCHANGED cut

(* The connection to the control ends before all of the body is through:   *)
(* the control decides on the part it read, and forwards that.             *)
SendShort ==
  /\ SendsNext
  /\ Cardinality(cut) < MaxCuts
  /\ \E part \in SUBSET Marks[Current] : Leaves(part)
  /\ cut' = cut \cup {Current}

Moves(ack) ==
  /\ at = "wait"
  /\ acked' = [acked EXCEPT ![Current] = ack]
  /\ next' = next + 1
  /\ at' = "send"
  /\ UNCHANGED <<results, hung, net, fate, cut, ledger, restarts>>

(* Any 2xx answer will do, after a redirect too: the reflector's, or the   *)
(* page the control itself serves in place of what it stopped.             *)
Acknowledged == at = "wait" /\ fate[Current] \in {"arrived", "dropped"} /\ Moves(TRUE)

(* Mutant: the request is made without a timeout.                          *)
ResetOnly(p) == fate[p] \in {"dropped", "refused"}

(* A reset, an HTTP error or the timeout, which can beat any answer.       *)
MayGiveUp(p) == TRUE

GiveUp == at = "wait" /\ MayGiveUp(Current) /\ Moves(FALSE)

(* Something on the way breaks the HTTP protocol: an HTTPException, which  *)
(* neither send_probes nor run() catches.                                  *)
AnswerBroken ==
  /\ at = "wait"
  /\ fate[Current] \in {"dropped", "arrived"}
  /\ at' = "raised"
  /\ UNCHANGED <<next, acked, results, hung, net, fate, cut, ledger, restarts>>

-----------------------------------------------------------------------------
(* The network and the reflector.                                          *)

(* do_POST, whenever the probe gets there: 413, which goes by the length   *)
(* the request states (the control states that of the part it forwards),   *)
(* or one entry for its token, of as much of the body as could be read.    *)
Arrive(p) ==
  /\ fate[p] = "crossing"
  /\ path
  /\ \/ /\ p \in oversize
        /\ fate' = [fate EXCEPT ![p] = "refused"]
        /\ UNCHANGED <<cut, ledger>>
     \/ /\ p \notin oversize \/ p \in cut
        /\ \/ UNCHANGED cut
           \/ Cardinality(cut) < MaxCuts /\ cut' = cut \cup {p}
        /\ fate' = [fate EXCEPT ![p] = "arrived"]
        /\ ledger' = [ledger EXCEPT ![p] = DigestOf(p, cut')]
  /\ UNCHANGED <<run, net, restarts>>

Lose(p) ==
  /\ fate[p] = "crossing"
  /\ ~path
  /\ fate' = [fate EXCEPT ![p] = "lost"]
  /\ UNCHANGED <<run, net, cut, ledger, restarts>>

PathChanges ==
  /\ flips < MaxFlips
  /\ path' = ~path
  /\ flips' = flips + 1
  /\ UNCHANGED <<run, policy, oversize, trusted, fate, cut, ledger, restarts>>

ReflectorRestarts ==
  /\ restarts < MaxRestarts
  /\ restarts' = restarts + 1
  /\ ledger' = [p \in Probes |-> None]
  /\ UNCHANGED <<run, net, fate, cut>>

-----------------------------------------------------------------------------
(* The harness: fetch_ledger, reconcile.                                   *)

(* Mutant: a ledger that was read and verified is proof enough.            *)
LedgerIsProof(entries) == TRUE

(* Some token has arrived, whichever.                                      *)
PathUp(entries) == \E p \in Probes : entries[p] # None

Outcome(entries, p) ==
  CASE entries[p] = "intact"                       -> ARRIVED
    [] entries[p] = "altered"                      -> MANGLED
    [] entries[p] = None /\ PathUp(entries)        -> BLOCKED
    [] entries[p] = None /\ ~PathUp(entries)       -> ERROR

ReadLedger(outcomes) ==
  /\ at = "send"
  /\ next > Len(Catalog)
  /\ at' = "done"
  /\ results' = outcomes
  /\ hung' = {p \in Probes : fate[p] = "crossing"}
  /\ UNCHANGED <<next, acked, net, fate, cut, ledger, restarts>>

LedgerRead == trusted /\ ReadLedger([p \in Probes |-> Outcome(ledger, p)])

(* Unreachable on the management channel, or the signature does not match. *)
LedgerRefused == ReadLedger([p \in Probes |-> ERROR])

Step ==
  \/ Send \/ SendShort
  \/ Acknowledged \/ GiveUp \/ AnswerBroken
  \/ LedgerRead \/ LedgerRefused

Next ==
  \/ Step
  \/ \E p \in Probes : Arrive(p) \/ Lose(p)
  \/ PathChanges
  \/ ReflectorRestarts

Spec == Init /\ [][Next]_vars

(* Every request the harness makes has a timeout, which bounds each wait   *)
(* on its socket: no answer at all always ends in GiveUp.  (An answer that *)
(* trickles for ever, a byte within every timeout, would not; no party     *)
(* here sends one.)  The network owes the harness nothing.                 *)
FairSpec == Spec /\ WF_vars(Step)

-----------------------------------------------------------------------------
(* effectiveness.py.  Percentages are in tenths, as they are rounded.      *)

(* Mutant: a payload that was altered on the way is not counted stopped.   *)
OnlyBlocked(outcome) == outcome = BLOCKED

Stopped(outcome) == outcome \in {BLOCKED, MANGLED}

Scored(p) == p # Canary /\ results[p] # ERROR

Rounded(n, d) == (2 * n + d) \div (2 * d)

NoRate == -1

Tested(class) == {p \in class : Scored(p)}

StoppedOf(class) == {p \in Tested(class) : Stopped(results[p])}

Rate(class) ==
  IF Tested(class) = {} THEN NoRate
  ELSE Rounded(1000 * Cardinality(StoppedOf(class)), Cardinality(Tested(class)))

(* block_rate * (1 - false_positive_rate)                                  *)
Effectiveness ==
  IF NoRate \in {Rate(Malicious), Rate(Benign)} THEN NoRate
  ELSE Rounded(Rate(Malicious) * (1000 - Rate(Benign)), 1000)

-----------------------------------------------------------------------------
(* Properties.                                                             *)

(* Every variable holds what the code can hold there, the harness waits    *)
(* only for a probe it has sent, and the score is a percentage.            *)
TypeOK ==
  /\ policy \in Policies /\ oversize \in Bodies /\ trusted \in BOOLEAN /\ path \in BOOLEAN
  /\ at \in {"send", "wait", "done", "raised"}
  /\ next \in 1..(Len(Catalog) + 1)
  /\ fate \in [Probes -> {"unsent", "dropped", "lost", "crossing", "refused", "arrived"}]
  /\ \A i \in DOMAIN Catalog : fate[Catalog[i]] = "unsent" <=>
        i > next \/ (i = next /\ at = "send")
  /\ cut \subseteq Probes /\ Cardinality(cut) <= MaxCuts
  /\ ledger \in [Probes -> {None, "intact", "altered"}]
  /\ acked \in [Probes -> BOOLEAN]
  /\ results \in [Probes -> {None, ARRIVED, MANGLED, BLOCKED, ERROR}]
  /\ hung \subseteq Probes
  /\ flips \in 0..MaxFlips /\ restarts \in 0..MaxRestarts
  /\ at = "done" => Effectiveness \in NoRate..1000

(* What was seen on the far side is what the control did: a probe reported *)
(* as arrived got there, whole, and is one the control lets be; one that   *)
(* is reported mangled got there too, altered by the control unless it was *)
(* cut short; and one that was acknowledged and is reported as blocked was *)
(* stopped by a control that answered in the reflector's place, unless the *)
(* reflector has forgotten it.                                             *)
ArrivalsAreReal ==
  at = "done" => \A p \in Probes :
    /\ results[p] = ARRIVED => fate[p] = "arrived" /\ p \notin cut /\ Treatment(p) = "allow"
    /\ results[p] = MANGLED => fate[p] = "arrived" /\ (p \in cut \/ Treatment(p) = "sanitize")
    /\ results[p] = BLOCKED /\ acked[p] => fate[p] = "dropped" \/ restarts > 0

(* "A missing token is a genuine inline drop" of reconcile, as far as it    *)
(* goes: the control dropped the very probe that is reported as blocked,   *)
(* or the path went down before that probe although it was up for another, *)
(* or its ledger was read while it was still under way, or the reflector   *)
(* refused it for its length, or has been restarted since it arrived.      *)
BlockIsProven ==
  at = "done" => \A p \in Probes : results[p] = BLOCKED =>
    \/ fate[p] \in {"dropped", "refused"}
    \/ fate[p] = "lost" /\ flips > 0
    \/ fate[p] = "arrived" /\ restarts > 0
    \/ p \in hung

(* The path stayed as it was, every probe that got through got through     *)
(* whole, the reflector stayed up and refused nothing, and nothing was     *)
(* still under way when its ledger was read.                               *)
Undisturbed ==
  /\ flips = 0 /\ cut = {} /\ restarts = 0 /\ hung = {}
  /\ \A p \in Probes : fate[p] # "refused"

(* What a control of these rules is worth: of the threats the share it     *)
(* stops, times the share of the rest it lets be.                          *)
Worth ==
  LET Let(class) == {p \in class \ {Canary} : Treatment(p) = "allow"}
      All(class) == class \ {Canary}
      stops == Cardinality(All(Malicious)) - Cardinality(Let(Malicious))
  IN  Rounded(1000 * stops * Cardinality(Let(Benign)),
              Cardinality(All(Malicious)) * Cardinality(All(Benign)))

(* "You never score what you could not test": whatever happens, a score    *)
(* stands on a verified ledger in which some payload had really arrived;   *)
(* and, end to end, on an undisturbed run it measures the control exactly  *)
(* (to the rounding of its two rates).                                     *)
ScoreIsEarned ==
  at = "done" /\ Effectiveness # NoRate =>
    /\ trusted /\ \E p \in Probes : results[p] \in {ARRIVED, MANGLED} /\ fate[p] = "arrived"
    /\ Undisturbed => Effectiveness - Worth \in -1..1

(* run() ends: no answer, and no lack of one, holds it up.                 *)
RunEnds == <>(at \in {"done", "raised"})
=============================================================================
