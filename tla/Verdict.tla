------------------------------ MODULE Verdict ------------------------------
(***************************************************************************)
(* The classifiers: what the console says of a run, given what its         *)
(* requests brought back.  Pure functions, without state.                  *)
(***************************************************************************)
EXTENDS Integers, Sequences, FiniteSets

ALLOWED == "allowed"
BLOCKED == "blocked"
ERROR   == "error"
INVALID == "invalid"
RATIO   == "ratio"

Verdicts == {ALLOWED, BLOCKED, ERROR, INVALID, RATIO}

NoRc   == -1    \* a curl that did not exit
NoCode == -1    \* no HTTP status on curl's output

BlockedRc == {28, 7, 56}
BrokenRc  == {6, 5, 35, 60, 77}

(* What one request brought back.  body is the set of the marks a block    *)
(* page can be known by; ok is what a native probe saw.                    *)
SubResult == [rc : Int, code : Int, body : SUBSET {"denied"}, ok : BOOLEAN,
              err : BOOLEAN, timedOut : BOOLEAN, failover : BOOLEAN]

Blank == [rc |-> NoRc, code |-> NoCode, body |-> {}, ok |-> FALSE, err |-> FALSE,
          timedOut |-> FALSE, failover |-> FALSE]

ClassifyCurl(rc, code) ==
  CASE rc = 0 /\ code = NoCode           -> ERROR
    [] rc = 0 /\ code \in {403, 451}     -> BLOCKED
    [] rc = 0 /\ code \notin {403, 451, NoCode} -> ALLOWED
    [] rc \in BlockedRc                  -> BLOCKED
    [] OTHER                             -> ERROR

(* A predicate of the catalog is a record with any of the five keys.  It   *)
(* matches when every key does, and an empty one never does.               *)
KeyMatches(key, want, s) ==
  CASE key = "rc"            -> s.rc = want
    [] key = "rc_nonzero"    -> (s.rc \notin {0, NoRc}) = want
    [] key = "body_contains" -> want \in s.body
    [] key = "http_code"     -> s.code = want
    [] key = "http_code_in"  -> s.code \in want
    [] OTHER                 -> FALSE

PredMatches(pred, s) ==
  /\ DOMAIN pred # {}
  /\ \A key \in DOMAIN pred : KeyMatches(key, pred[key], s)

(* A request that completed can be refined by the catalog's predicates.    *)
ClassifyCurlSub(kind, s) ==
  CASE s.rc = 0 /\ PredMatches(kind.onBlock, s) -> BLOCKED
    [] s.rc = 0 /\ ~PredMatches(kind.onBlock, s) /\ PredMatches(kind.onAllow, s) -> ALLOWED
    [] OTHER -> ClassifyCurl(s.rc, s.code)

(* The control probe tells a drop from a broken environment.               *)
ClassifyProbe(s, control) ==
  CASE s.ok                      -> ALLOWED
    [] ~s.ok /\ control = "ok"   -> BLOCKED
    [] ~s.ok /\ control # "ok"   -> ERROR

ClassifySub(kind, s, control) ==
  CASE s.err \/ s.timedOut -> ERROR
    [] ~(s.err \/ s.timedOut) /\ kind.runner = "curl" -> ClassifyCurlSub(kind, s)
    [] OTHER -> ClassifyProbe(s, control)

HowMany(states, state) == Cardinality({i \in DOMAIN states : states[i] = state})

(* Several requests: those that failed on the environment do not count,    *)
(* the majority of the others decides, a tie is a pass.                    *)
Aggregate(states) ==
  LET a == HowMany(states, ALLOWED)
      b == HowMany(states, BLOCKED)
  IN  CASE a + b = 0           -> ERROR
        [] a + b > 0 /\ b > a  -> BLOCKED
        [] a + b > 0 /\ b <= a -> ALLOWED

(* classify() of the requests of one run, the run itself not having failed. *)
Classify(kind, subs, control) ==
  Aggregate([i \in DOMAIN subs |-> ClassifySub(kind, subs[i], control)])

(* The verdict of _run_ew over the outcome of every port: unreachable      *)
(* ports do not count, a refused connection did reach the host.            *)
EwVerdict(outcomes) ==
  Aggregate([i \in DOMAIN outcomes |->
    CASE outcomes[i] \in {"open", "refused"} -> ALLOWED
      [] outcomes[i] = "timeout"             -> BLOCKED
      [] outcomes[i] = "unreachable"         -> ERROR])
=============================================================================
