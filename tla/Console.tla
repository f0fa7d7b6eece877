------------------------------ MODULE Console ------------------------------
(***************************************************************************)
(* The engine behind every surface of the console (class App) and the run  *)
(* ledger it writes (class RunLedger).                                     *)
(*                                                                         *)
(* Threads are the workers that call App.run: a card's Fire, the run-all   *)
(* worker, a presenter window's Fire.  App.run tries the run lock without  *)
(* blocking, rests so that runs are spaced, fires the trigger, gives the   *)
(* lock back, and only then takes the ledger's own lock to enter the       *)
(* result and appends the same record to the evidence log.  Meanwhile the  *)
(* Tk thread attests records and exports the ledger; exporting takes no    *)
(* lock at all.                                                            *)
(*                                                                         *)
(* What the runners do on the network is a choice among the states they    *)
(* can return; how a state is derived is the subject of Verdict.           *)
(***************************************************************************)
EXTENDS Naturals, Sequences, FiniteSets

CONSTANTS
  Threads,       \* worker threads that call App.run
  NoThread,      \* the owner of a free lock
  Ids,           \* what run() can be called with
  Triggers,      \* the ids in the catalog
  Unavailable,   \* gated off, or an east-west target nobody configured
  CurlTriggers,  \* triggers whose runner is curl
  FeedTriggers,  \* triggers whose runner is iprep
  Wire,          \* on_wire_count() of each trigger
  Outcomes,      \* the states a run of each trigger can end in
  MinInterval,   \* run.min_interval_s
  SleepCap,      \* the 5.0 of min(gap, 5.0)
  KeepLog,       \* evidence_log_enabled
  MaxCalls       \* bound: calls of run() in one behaviour

ASSUME ConsoleAssumption ==
  /\ IsFiniteSet(Threads) /\ NoThread \notin Threads
  /\ Triggers \subseteq Ids
  /\ Unavailable \subseteq Triggers
  /\ CurlTriggers \subseteq Triggers
  /\ FeedTriggers \subseteq Triggers
  /\ Wire \in [Triggers -> Nat]
  /\ Outcomes \in [Triggers -> SUBSET {"allowed", "blocked", "ratio", "error", "invalid"}]
  /\ MinInterval \in Nat
  /\ SleepCap \in Nat
  /\ KeepLog \in BOOLEAN
  /\ MaxCalls \in Nat

VARIABLES
  pc,          \* where each thread is in App.run
  job,         \* the trigger it was asked to run
  out,         \* the state its run returned
  draft,       \* the record it is entering, then the one it entered
  runLock,     \* App._run_lock
  since,       \* time since _last_run_end, not counted beyond MinInterval
  nap,         \* what is left of the rate limiter's sleep
  curl,        \* the cached answer of curl_present()
  ledgerLock,  \* RunLedger._lock
  records,     \* RunLedger.records
  logged,      \* seq of each line in the evidence log, oldest first
  report,      \* to_dict() as far as the Tk thread has come with it
  quiet,       \* history: time since a trigger was last on the wire, likewise
  calls,       \* history: calls of run() with a catalog id
  raised       \* history: calls that ended in an exception

runVars    == <<pc, job, out, draft>>
clockVars  == <<since, nap, quiet>>
ledgerVars == <<ledgerLock, records>>
histVars   == <<calls, raised>>
vars == <<runVars, runLock, clockVars, curl, ledgerVars, logged, report,
          histVars>>

-----------------------------------------------------------------------------
(* Data.                                                                   *)

PolicyStates == {"allowed", "blocked", "ratio"}
States       == PolicyStates \cup {"error", "invalid"}

Confirmations == {"unset", "confirmed", "not-seen"}

(* The fields the digest covers: everything but LEDGER_UNCHAINED.          *)
Payload == [seq : Nat \ {0}, id : Triggers, state : States, wire : Nat]

(* A digest commits to the payload and to all that came before, so it is   *)
(* modelled as the payloads it commits to (no two inputs collide).         *)
Digest == Seq(Payload)

Record == [seq : Nat \ {0}, id : Triggers, state : States, wire : Nat,
           confirmed : Confirmations, prev : Digest, hash : Digest]

(* Mutant: the human annotation is part of what the digest covers.         *)
PayloadAndAnnotation(r) == [seq |-> r.seq, id |-> r.id, state |-> r.state,
                            wire |-> r.wire, confirmed |-> r.confirmed]

PayloadOf(r) == [seq |-> r.seq, id |-> r.id, state |-> r.state, wire |-> r.wire]

RecordHash(r, prev) == Append(prev, PayloadOf(r))

LastHash(rs) == IF rs = <<>> THEN <<>> ELSE rs[Len(rs)].hash

(* The loop of verify_chain.                                               *)
VerifyChain(rs) ==
  \A i \in 1..Len(rs) :
    /\ rs[i].prev = IF i = 1 THEN <<>> ELSE rs[i - 1].hash
    /\ rs[i].hash = RecordHash(rs[i], rs[i].prev)

(* sum(r.connections for r in self.records), one record after the other.   *)
SignalsFired(rs) ==
  LET upto[n \in 0..Len(rs)] == IF n = 0 THEN 0 ELSE upto[n - 1] + rs[n].wire
  IN  upto[Len(rs)]

NewRecord(rs, id, state) ==
  LET r == [seq |-> Len(rs) + 1, id |-> id, state |-> state,
            wire |-> Wire[id], confirmed |-> "unset",
            prev |-> LastHash(rs), hash |-> <<>>]
  IN  [r EXCEPT !.hash = RecordHash(r, r.prev)]

Idle == "idle"      \* not in run()
None == "none"      \* a local that holds nothing

NoRecord == [seq |-> 0, id |-> None, state |-> None, wire |-> 0,
             confirmed |-> "unset", prev |-> <<>>, hash |-> <<>>]

NoReport == [at |-> "rest", ok |-> TRUE, triggers |-> 0, signals |-> 0,
             records |-> <<>>]

Shorter(a, b) == IF a < b THEN a ELSE b

Init ==
  /\ pc = [t \in Threads |-> Idle]
  /\ job = [t \in Threads |-> None]
  /\ out = [t \in Threads |-> None]
  /\ draft = [t \in Threads |-> NoRecord]
  /\ runLock = NoThread
  /\ since \in 0..MinInterval     \* _last_run_end = 0.0 on a clock that starts anywhere
  /\ nap = 0
  /\ quiet = MinInterval
  /\ curl \in BOOLEAN
  /\ ledgerLock = NoThread
  /\ records = <<>>
  /\ logged = <<>>
  /\ report = NoReport
  /\ calls = 0
  /\ raised = 0

-----------------------------------------------------------------------------
(* App.run, up to the run lock.                                            *)

(* An id that is not in the catalog: (None, error), nothing recorded.      *)
RunUnknown(t, id) ==
  /\ pc[t] = Idle
  /\ id \in Ids \ Triggers
  /\ UNCHANGED vars

Enters(t, id) ==
  /\ pc[t] = Idle
  /\ id \in Triggers
  /\ calls < MaxCalls
  /\ calls' = calls + 1
  /\ job' = [job EXCEPT ![t] = id]

(* Return early with a state that is decided without running anything.     *)
ReturnEarly(t, id, state) ==
  /\ Enters(t, id)
  /\ out' = [out EXCEPT ![t] = state]
  /\ pc' = [pc EXCEPT ![t] = "record"]
  /\ UNCHANGED <<draft, runLock, clockVars, curl, ledgerVars, logged,
                 report, raised>>

NoCurl(id) == id \in CurlTriggers /\ ~curl

RunUnavailable(t, id) == id \in Unavailable /\ ReturnEarly(t, id, "invalid")

RunNoCurl(t, id) ==
  id \notin Unavailable /\ NoCurl(id) /\ ReturnEarly(t, id, "invalid")

RunBusy(t, id) ==
  /\ id \notin Unavailable
  /\ ~NoCurl(id)
  /\ runLock # NoThread
  /\ ReturnEarly(t, id, "error")

(* Mutant: the lock is taken without looking whether somebody holds it.    *)
LockNotAsked == TRUE

LockIsFree == runLock = NoThread

(* Mutant: the sleep is as long as the gap, however long that is.          *)
WholeGap(gap) == gap

(* time.sleep(min(gap, 5.0))                                               *)
NapFor(gap) == Shorter(gap, SleepCap)

(* The lock is taken, the gap since the last run worked out and slept off. *)
RunAcquire(t, id) ==
  /\ id \notin Unavailable
  /\ ~NoCurl(id)
  /\ LockIsFree
  /\ Enters(t, id)
  /\ runLock' = t
  /\ nap' = IF MinInterval > since THEN NapFor(MinInterval - since) ELSE 0
  /\ pc' = [pc EXCEPT ![t] = "nap"]
  /\ UNCHANGED <<out, draft, since, quiet, curl, ledgerVars, logged,
                 report, raised>>

-----------------------------------------------------------------------------
(* App.run, holding the run lock.                                          *)

Wake(t) ==
  /\ pc[t] = "nap"
  /\ nap = 0
  /\ pc' = [pc EXCEPT ![t] = "wire"]
  /\ UNCHANGED <<job, out, draft, runLock, clockVars, curl, ledgerVars,
                 logged, report, histVars>>

(* Mutant: the finally block forgets the time of the run that just ended.  *)
LetGoUntimed ==
  /\ runLock' = NoThread
  /\ UNCHANGED since

(* The finally block of _run_one.                                          *)
LetGo ==
  /\ runLock' = NoThread
  /\ since' = 0

(* The runner returns a state.                                             *)
Finish(t) ==
  /\ pc[t] = "wire"
  /\ \E state \in Outcomes[job[t]] : out' = [out EXCEPT ![t] = state]
  /\ LetGo
  /\ quiet' = 0
  /\ pc' = [pc EXCEPT ![t] = "record"]
  /\ UNCHANGED <<job, draft, nap, curl, ledgerVars, logged, report, histVars>>

(* Mutant: an exception leaves _run_one without passing a finally block.   *)
LeaveLocked == UNCHANGED <<runLock, since>>

LetGoRaising == LetGo

(* The feed's server breaks the HTTP protocol: urllib lets an              *)
(* http.client.HTTPException through, which _run_iprep does not catch.     *)
(* The finally block runs, run() is left without a record.                 *)
Raise(t) ==
  /\ pc[t] = "wire"
  /\ job[t] \in FeedTriggers
  /\ LetGoRaising
  /\ quiet' = 0
  /\ raised' = raised + 1
  /\ pc' = [pc EXCEPT ![t] = Idle]
  /\ job' = [job EXCEPT ![t] = None]
  /\ UNCHANGED <<out, draft, nap, curl, ledgerVars, logged, report, calls>>

-----------------------------------------------------------------------------
(* App.run, after the run lock: RunLedger.add and append_jsonl.            *)

(* Mutant: add() works out seq and prev_hash before it takes the lock.     *)
AddTakesNoLock(t) == UNCHANGED ledgerLock

AddTakesLock(t) == ledgerLock = NoThread /\ ledgerLock' = t

(* add() has the lock and builds the record.                               *)
AddBegin(t) ==
  /\ pc[t] = "record"
  /\ AddTakesLock(t)
  /\ draft' = [draft EXCEPT ![t] = NewRecord(records, job[t], out[t])]
  /\ pc' = [pc EXCEPT ![t] = "append"]
  /\ UNCHANGED <<job, out, runLock, clockVars, curl, records, logged,
                 report, histVars>>

(* records.append(rec), and the end of the with block.                     *)
AddAppend(t) ==
  /\ pc[t] = "append"
  /\ records' = Append(records, draft[t])
  /\ ledgerLock' = NoThread
  /\ pc' = [pc EXCEPT ![t] = "log"]
  /\ UNCHANGED <<job, out, draft, runLock, clockVars, curl, logged,
                 report, histVars>>

(* append_jsonl is best effort, and skipped when the log is off; run()     *)
(* returns either way and its locals are gone.                             *)
LogAndReturn(t) ==
  /\ pc[t] = "log"
  /\ \/ KeepLog /\ logged' = Append(logged, draft[t].seq)
     \/ UNCHANGED logged
  /\ pc' = [pc EXCEPT ![t] = Idle]
  /\ job' = [job EXCEPT ![t] = None]
  /\ out' = [out EXCEPT ![t] = None]
  /\ draft' = [draft EXCEPT ![t] = NoRecord]
  /\ UNCHANGED <<runLock, clockVars, curl, ledgerVars, report, histVars>>

-----------------------------------------------------------------------------
(* The Tk thread.  It does one thing at a time: it attests a record, or it *)
(* is somewhere inside to_dict().                                          *)

(* set_confirmed().                                                        *)
Attest(seq, value) ==
  /\ report.at = "rest"
  /\ ledgerLock = NoThread
  /\ records' = [records EXCEPT ![seq].confirmed = value]
  /\ UNCHANGED <<runVars, runLock, clockVars, curl, ledgerLock, logged, report, histVars>>

ReportStep(from, filled) ==
  /\ report.at = from
  /\ report' = filled
  /\ UNCHANGED <<runVars, runLock, clockVars, curl, ledgerVars, logged, histVars>>

(* verify_chain() walks the live list without a lock.  Records are final   *)
(* when they are appended, so what it finds is what the list holds when    *)
(* the walk ends; the same goes for each read below.                       *)
ReportVerify ==
  /\ records # <<>>
  /\ ReportStep("rest", [report EXCEPT !.at = "count", !.ok = VerifyChain(records)])

ReportCount == ReportStep("count", [report EXCEPT !.at = "sum", !.triggers = Len(records)])

(* state_counts() counts the same records a moment later.                  *)
ReportSum ==
  ReportStep("sum", [report EXCEPT !.at = "write", !.signals = SignalsFired(records)])

(* Mutant: the report shows the records its summary was first counted on.  *)
RecordsCounted == SubSeq(records, 1, report.triggers)

(* The list itself is part of the document, so it is read last.            *)
RecordsShown == records

ReportWrite ==
  ReportStep("write", [report EXCEPT !.at = "written", !.records = RecordsShown])

(* The document is on disk and leaves memory.                              *)
ReportDone == ReportStep("written", NoReport)

-----------------------------------------------------------------------------
(* Time passes: for the sleeping holder and for the gap.                   *)
Tick ==
  /\ since < MinInterval \/ quiet < MinInterval \/ nap > 0
  /\ quiet' = Shorter(quiet + 1, MinInterval)
  /\ since' = Shorter(since + 1, MinInterval)
  /\ nap' = IF nap = 0 THEN 0 ELSE nap - 1
  /\ UNCHANGED <<runVars, runLock, curl, ledgerVars, logged, report, histVars>>

Run(t) ==
  \E id \in Ids : \/ RunUnknown(t, id)
                 \/ RunUnavailable(t, id)
                 \/ RunNoCurl(t, id)
                 \/ RunBusy(t, id)
                 \/ RunAcquire(t, id)

(* What a thread does once it is inside run().                             *)
Proceed(t) ==
  \/ Wake(t)
  \/ Finish(t)
  \/ Raise(t)
  \/ AddBegin(t)
  \/ AddAppend(t)
  \/ LogAndReturn(t)

TkThread ==
  \/ \E seq \in DOMAIN records, value \in Confirmations : Attest(seq, value)
  \/ ReportVerify
  \/ ReportCount
  \/ ReportSum
  \/ ReportWrite
  \/ ReportDone

Next ==
  \/ \E t \in Threads : Run(t) \/ Proceed(t)
  \/ TkThread
  \/ Tick

Spec == Init /\ [][Next]_vars

(* Every command a runner starts has a timeout and the sleep is finite, so *)
(* a thread inside run() is never held up for good, and time passes.       *)
(* Nothing makes anybody call run(), attest or export.                     *)
FairSpec == Spec /\ WF_vars(Tick) /\ \A t \in Threads : WF_vars(Proceed(t))

-----------------------------------------------------------------------------
(* Properties.                                                             *)

ReportType ==
  [at : {"rest", "count", "sum", "write", "written"}, ok : BOOLEAN, triggers : Nat,
   signals : Nat, records : Seq(Record)]

(* Every variable holds what the code can hold there; the locals of a run  *)
(* are typed by the point it has reached.                                  *)
TypeOK ==
  /\ pc \in [Threads -> {Idle, "nap", "wire", "record", "append", "log"}]
  /\ DOMAIN job = Threads /\ DOMAIN out = Threads /\ DOMAIN draft = Threads
  /\ \A t \in Threads :
       /\ pc[t] # Idle => job[t] \in Triggers
       /\ pc[t] \in {"record", "append", "log"} => out[t] \in States
       /\ pc[t] \in {"append", "log"} => draft[t] \in Record
  /\ runLock \in Threads \cup {NoThread}
  /\ since \in 0..MinInterval
  /\ quiet \in 0..MinInterval
  /\ nap \in 0..SleepCap
  /\ curl \in BOOLEAN
  /\ ledgerLock \in Threads \cup {NoThread}
  /\ records \in Seq(Record)
  /\ logged \in Seq(Nat)
  /\ report \in ReportType
  /\ calls \in 0..MaxCalls /\ raised \in Nat

OnWire(t) == pc[t] \in {"nap", "wire"}

(* "serialize triggers -- clean before/after on stage": two triggers are   *)
(* never on the wire together, whichever windows they were fired from.     *)
OneTriggerAtATime ==
  \A t, u \in Threads : OnWire(t) /\ OnWire(u) => t = u

(* verify_chain() succeeds on the ledger at every moment, with records     *)
(* being added by several threads and annotated in between, and the        *)
(* numbering has no gap and no repetition.                                 *)
ChainIntact ==
  /\ VerifyChain(records)
  /\ \A i \in 1..Len(records) : records[i].seq = i

(* A run starts no sooner after the end of the one before than the         *)
(* interval asks for, or than the longest the limiter will sleep.          *)
Spaced ==
  [][\A t \in Threads : pc[t] = "nap" /\ pc'[t] = "wire"
                          => quiet >= Shorter(MinInterval, SleepCap)]_vars

(* Calls that got as far as having no record yet.                          *)
Unrecorded == {t \in Threads : pc[t] \in {"nap", "wire", "record", "append"}}

(* Every call that returns has left exactly one record, and the record it  *)
(* is about to hand to its caller as out["seq"] is its own.                *)
RecordedOnce ==
  /\ Len(records) + raised + Cardinality(Unrecorded) = calls
  /\ \A t \in Threads : pc[t] = "log" =>
       /\ draft[t].seq \in DOMAIN records
       /\ PayloadOf(records[draft[t].seq])
            = [seq |-> draft[t].seq, id |-> job[t], state |-> out[t],
               wire |-> Wire[job[t]]]

(* An exported report never claims more than the records beside it show,   *)
(* though its summary and its records are read at different moments while  *)
(* other threads add records; and its chain is sound.                      *)
ReportBacked ==
  report.at = "written" =>
    /\ report.ok /\ VerifyChain(report.records)
    /\ report.triggers <= Len(report.records)
    /\ report.signals <= SignalsFired(report.records)
    /\ SignalsFired(SubSeq(report.records, 1, report.triggers)) <= report.signals

(* The ledger as the append-only, annotate-only book of AttestedLog.       *)
Observed(r) == [id |-> r.id, state |-> r.state, wire |-> r.wire]

LedgerBook ==
  [i \in 1..Len(records) |->
     [seq |-> records[i].seq, seen |-> Observed(records[i]),
      confirmed |-> records[i].confirmed]]

Book == INSTANCE AttestedLog WITH
  Observation <- [id : Triggers, state : States, wire : {Wire[id] : id \in Triggers}],
  Attestation <- Confirmations,
  Unattested  <- "unset",
  book        <- LedgerBook

(* Threads, locks and unlocked readers included, every step enters one     *)
(* observation under the next number, annotates one, or changes nothing.   *)
LedgerIsABook == Book!Spec

(* A call of run() returns, and the run lock is given back, on every path  *)
(* out of a run, the exceptional one included.                             *)
CallsReturn ==
  /\ \A t \in Threads : pc[t] # Idle ~> pc[t] = Idle
  /\ runLock # NoThread ~> runLock = NoThread

(* What the docs say of the records, which the code does not do:           *)

(* "Every outcome -- including `invalid` and `error` -- lands in the       *)
(* ledger": a call with a catalog id that is over has a record.            *)
EveryOutcomeRecorded == Len(records) + Cardinality(Unrecorded) = calls
=============================================================================
