-------------------------------- MODULE Desk --------------------------------
(***************************************************************************)
(* The console's two live surfaces over one engine: the main window with a *)
(* card per trigger and its run-all (run_gui), and the presenter window    *)
(* (open_presenter_window, PresenterSession).                              *)
(*                                                                         *)
(* Everything drawn is touched by the Tk thread alone.  A click starts a   *)
(* worker thread that calls App.run; what comes back crosses to the Tk     *)
(* thread through ui_queue, or for the presenter through a single slot it  *)
(* polls.  The engine is cut down to what Console establishes of it: a     *)
(* call is declined, turned away because a run is on, or run, and unless   *)
(* it raises it leaves one record.                                         *)
(***************************************************************************)
EXTENDS Integers, Sequences, SequencesExt, FiniteSets

CONSTANTS
  Threads,      \* bound: workers alive at the same time
  NoThread,     \* the owner of a free run lock
  Catalog,      \* the triggers, in catalog order
  Unavailable,  \* their cards have no Fire: gated, or not configured
  Gated,        \* those among them no presenter session holds
  Profiles,     \* the setlists the presenter picker offers beside the whole catalog
  Declined,     \* App.run answers `invalid` at once: unavailable, or no curl
  Feeds,        \* the runs that can raise
  Outcomes,     \* the states a run can end in
  MaxGestures   \* bound: clicks in one behaviour

Ids == ToSet(Catalog)

ASSUME DeskAssumption ==
  /\ IsFiniteSet(Threads) /\ NoThread \notin Threads
  /\ Catalog \in Seq(Ids)
  /\ Profiles \subseteq Seq(Ids)
  /\ Gated \subseteq Unavailable /\ Unavailable \subseteq Declined /\ Declined \subseteq Ids
  /\ Outcomes \in [Ids -> SUBSET {"allowed", "blocked", "ratio", "error", "invalid"}]
  /\ MaxGestures \in Nat

VARIABLES
  worker,    \* what each worker thread is doing
  runLock,   \* App._run_lock
  records,   \* RunLedger.records, as far as a card depends on it
  queue,     \* ui_queue
  running,   \* run_state["running"]
  stop,      \* run_state["stop"]
  card,      \* cards: status line, Fire, and the record its Confirm stands for
  lane,      \* the lane of each card
  observed,  \* the header's tally of states seen this session
  stage,     \* the presenter window and its PresenterSession
  ended,     \* history: every call of App.run that is over, oldest first
  late,      \* history: calls the run-all began since Stop was pressed
  gestures   \* history: clicks

engineVars == <<runLock, records, ended>>
windowVars == <<running, stop, card, lane, observed>>
vars == <<worker, engineVars, queue, windowVars, stage, late, gestures>>

-----------------------------------------------------------------------------
None   == "none"
States == {"allowed", "blocked", "ratio", "error", "invalid"}

Confirmations == {"unset", "confirmed", "not-seen"}

ConfirmCycle(mark) ==
  CASE mark = "unset"     -> "confirmed"
    [] mark = "confirmed" -> "not-seen"
    [] mark = "not-seen"  -> "unset"

Available == Ids \ Unavailable

(* A deck in its order, less the triggers in S.                            *)
Without(deck, S) ==
  LET kept[n \in 0..Len(deck)] ==
        IF n = 0 THEN <<>>
        ELSE IF deck[n] \in S THEN kept[n - 1] ELSE Append(kept[n - 1], deck[n])
  IN  kept[Len(deck)]

(* What run-all fires.                                                     *)
RunAllDeck == Without(Catalog, Unavailable)

(* What the presenter picker offers: each profile and the whole catalog,   *)
(* without what is gated, unless nothing is left.                          *)
StageDecks ==
  {Without(deck, Gated) : deck \in Profiles \cup {Catalog}} \ {<<>>}

(* A worker: where it is, which surface called for it (a card's Fire, the  *)
(* run-all, or a presenter window by its number), what it fires, what is   *)
(* left of the run-all, and what App.run gave it.                          *)
Resting == [at |-> "idle", of |-> None, show |-> 0, id |-> None, todo |-> <<>>,
            state |-> None, seq |-> 0]

NoMail == [id |-> None, state |-> None]

Life(id) == INSTANCE LaneLife WITH NoState <- None, life <- lane[id]

Wire == INSTANCE LaneLife WITH NoState <- None, life <- stage.lane

(* A presenter window: the session's deck, position and results, and what  *)
(* is on the wall - the word and the lane.                                 *)
NoStage == [open |-> FALSE, show |-> 0, deck |-> <<>>, index |-> 1, busy |-> FALSE,
            mail |-> NoMail, results |-> [id \in Ids |-> None],
            word |-> None, lane |-> Wire!Unfired]

(* build_card(): no Fire for a trigger that cannot be run, and no Confirm  *)
(* before the first record.                                                *)
NewCard(id) == [status |-> "not run", fire |-> id \in Available, seq |-> 0,
                confirmed |-> "unset"]

Init ==
  /\ worker = [t \in Threads |-> Resting]
  /\ runLock = NoThread
  /\ records = <<>>
  /\ queue = <<>>
  /\ running = FALSE
  /\ stop = FALSE
  /\ card = [id \in Ids |-> NewCard(id)]
  /\ lane = [id \in Ids |-> Life(id)!Unfired]
  /\ observed = [state \in States |-> 0]
  /\ stage = NoStage
  /\ ended = <<>>
  /\ late = 0
  /\ gestures = 0

-----------------------------------------------------------------------------
(* The frames that play a verdict out, on a card and on the wall.          *)

LaneFrame(id) ==
  /\ Life(id)!PlaysOut(lane[id])
  /\ lane' = [lane EXCEPT ![id] = Life(id)!LaneAtRest(lane[id])]
  /\ UNCHANGED <<worker, engineVars, queue, running, stop, card, observed, stage,
                 late, gestures>>

StageFrame ==
  /\ Wire!PlaysOut(stage.lane)
  /\ stage' = [stage EXCEPT !.lane = Wire!LaneAtRest(@)]
  /\ UNCHANGED <<worker, engineVars, queue, windowVars, late, gestures>>

-----------------------------------------------------------------------------
(* Clicks in the main window.                                              *)

Gesture == gestures < MaxGestures /\ gestures' = gestures + 1

(* threading.Thread(...).start(), in the first place that is free.         *)
Spawn(w) ==
  /\ \E t \in Threads : worker[t].at = "idle"
  /\ LET t == CHOOSE t \in Threads : worker[t].at = "idle"
     IN  worker' = [worker EXCEPT ![t] = w]

(* fire(): the button is live, and no run-all is on.                       *)
Fire(id) ==
  /\ Gesture
  /\ card[id].fire
  /\ ~running
  /\ card' = [card EXCEPT ![id].fire = FALSE, ![id].status = "running"]
  /\ lane' = [lane EXCEPT ![id] = Life(id)!LaneFired]
  /\ Spawn([Resting EXCEPT !.at = "call", !.of = "card", !.id = id])
  /\ UNCHANGED <<engineVars, queue, running, stop, observed, stage, late>>

StartRunAll ==
  /\ Gesture
  /\ ~running
  /\ RunAllDeck # <<>>
  /\ running' = TRUE
  /\ stop' = FALSE
  /\ card' = [id \in Ids |->
                IF id \in Available THEN [card[id] EXCEPT !.fire = FALSE, !.status = "queued"]
                ELSE card[id]]
  /\ late' = 0
  /\ Spawn([Resting EXCEPT !.at = "loop", !.of = "all", !.todo = RunAllDeck])
  /\ UNCHANGED <<engineVars, queue, lane, observed, stage>>

(* The Stop button is only there while a run-all is on.                    *)
StopRunAll ==
  /\ Gesture
  /\ running
  /\ stop' = TRUE
  /\ UNCHANGED <<worker, engineVars, queue, running, card, lane, observed, stage, late>>

(* cycle_confirmed(): the mark goes to the record the card stands for.     *)
CycleConfirmed(id) ==
  /\ Gesture
  /\ card[id].seq # 0
  /\ LET mark == ConfirmCycle(card[id].confirmed)
     IN  /\ card' = [card EXCEPT ![id].confirmed = mark]
         /\ records' = [records EXCEPT ![card[id].seq].confirmed = mark]
  /\ UNCHANGED <<worker, runLock, ended, queue, running, stop, lane, observed, stage, late>>

-----------------------------------------------------------------------------
(* The worker threads.                                                     *)

(* Mutant: the run-all worker looks at nothing but its list.               *)
ListIsDone(w) == w.todo = <<>>

MustEnd(w) == w.todo = <<>> \/ stop

(* The head of run_all_worker's loop, and its way out of it.               *)
RunAllTurn(t) ==
  LET w == worker[t] IN
  /\ w.at = "loop"
  /\ \/ /\ MustEnd(w)
        /\ queue' = Append(queue, [do |-> "done"])
        /\ worker' = [worker EXCEPT ![t] = Resting]
     \/ /\ ~MustEnd(w)
        /\ queue' = Append(queue, [do |-> "arm", id |-> Head(w.todo)])
        /\ worker' = [worker EXCEPT ![t].at = "call", ![t].id = Head(w.todo),
                                    ![t].todo = Tail(w.todo)]
  /\ UNCHANGED <<engineVars, windowVars, stage, late, gestures>>

Begins(t) ==
  /\ worker[t].at = "call"
  /\ late' = late + IF worker[t].of = "all" /\ stop THEN 1 ELSE 0
  /\ UNCHANGED <<records, ended, queue, windowVars, stage, gestures>>

(* Answered without a run: `invalid`, or `error` while another is on.      *)
RunRefused(t) ==
  /\ Begins(t)
  /\ worker[t].id \in Declined \/ runLock # NoThread
  /\ worker' = [worker EXCEPT ![t].at = "record",
                  ![t].state = IF worker[t].id \in Declined THEN "invalid" ELSE "error"]
  /\ UNCHANGED runLock

RunBegins(t) ==
  /\ Begins(t)
  /\ worker[t].id \notin Declined
  /\ runLock = NoThread
  /\ runLock' = t
  /\ worker' = [worker EXCEPT ![t].at = "wire"]

RunReturns(t) ==
  /\ worker[t].at = "wire"
  /\ runLock' = NoThread
  /\ \E state \in Outcomes[worker[t].id] :
       worker' = [worker EXCEPT ![t].at = "record", ![t].state = state]
  /\ UNCHANGED <<records, ended, queue, windowVars, stage, late, gestures>>

Over(w, state, seq) ==
  Append(ended, [of |-> w.of, show |-> w.show, id |-> w.id, state |-> state, seq |-> seq])

(* The exception is caught in the worker and stands in for a result.       *)
RunRaises(t) ==
  /\ worker[t].at = "wire"
  /\ worker[t].id \in Feeds
  /\ runLock' = NoThread
  /\ worker' = [worker EXCEPT ![t].at = "put", ![t].state = "error"]
  /\ ended' = Over(worker[t], "error", 0)
  /\ UNCHANGED <<records, queue, windowVars, stage, late, gestures>>

(* RunLedger.add; out["seq"] is the number of the record.                  *)
RunRecorded(t) ==
  LET w == worker[t]  seq == Len(records) + 1 IN
  /\ w.at = "record"
  /\ records' = Append(records, [id |-> w.id, state |-> w.state, confirmed |-> "unset"])
  /\ ended' = Over(w, w.state, seq)
  /\ worker' = [worker EXCEPT ![t].at = "put", ![t].seq = seq]
  /\ UNCHANGED <<runLock, queue, windowVars, stage, late, gestures>>

(* Mutant: a worker that met an exception ends without a word.             *)
ResultIfRecorded(w) ==
  IF w.seq = 0 THEN <<>>
  ELSE <<[do |-> "result", id |-> w.id, state |-> w.state, seq |-> w.seq]>>

ResultOf(w) == <<[do |-> "result", id |-> w.id, state |-> w.state, seq |-> w.seq]>>

(* A result for the main window goes into ui_queue.                        *)
PutResult(t) ==
  LET w == worker[t] IN
  /\ w.at = "put"
  /\ w.of \in {"card", "all"}
  /\ queue' = queue \o ResultOf(w)
  /\ worker' = [worker EXCEPT ![t] =
                  IF w.of = "all"
                  THEN [Resting EXCEPT !.at = "loop", !.of = "all", !.todo = w.todo]
                  ELSE Resting]
  /\ UNCHANGED <<engineVars, windowVars, stage, late, gestures>>

(* One for the presenter goes into the slot of the window that called for  *)
(* it, which nobody reads any more if that window has been closed.         *)
PutOutcome(t) ==
  LET w == worker[t] IN
  /\ w.at = "put"
  /\ w.of = "stage"
  /\ stage' = IF stage.open /\ stage.show = w.show
              THEN [stage EXCEPT !.mail = [id |-> w.id, state |-> w.state]]
              ELSE stage
  /\ worker' = [worker EXCEPT ![t] = Resting]
  /\ UNCHANGED <<engineVars, queue, windowVars, late, gestures>>

-----------------------------------------------------------------------------
(* pump(): the Tk thread takes a callable from ui_queue and calls it.      *)

Pump(do) ==
  /\ queue # <<>>
  /\ Head(queue).do = do
  /\ queue' = Tail(queue)
  /\ UNCHANGED <<worker, engineVars, stop, stage, late, gestures>>

ArmLane ==
  /\ Pump("arm")
  /\ LET id == Head(queue).id
     IN  /\ lane' = [lane EXCEPT ![id] = Life(id)!LaneFired]
         /\ card' = [card EXCEPT ![id].status = "running"]
  /\ UNCHANGED <<running, observed>>

(* Mutant: a result without a record leaves the card with its last one.    *)
SeqIfAny(c, seq) == IF seq = 0 THEN c.seq ELSE seq

SeqNow(c, seq) == seq

SetResult ==
  /\ Pump("result")
  /\ LET m == Head(queue)
         c == card[m.id]
     IN  /\ card' = [card EXCEPT ![m.id] =
                      [status |-> m.state, fire |-> TRUE, seq |-> SeqNow(c, m.seq),
                       confirmed |-> IF m.seq # 0 THEN "unset" ELSE c.confirmed]]
         /\ lane' = [lane EXCEPT ![m.id] = Life(m.id)!LaneResolved(lane[m.id], m.state)]
         /\ observed' = [observed EXCEPT ![m.state] = @ + 1]
  /\ UNCHANGED running

(* Mutant: only the buttons of triggers that were reached come back.       *)
FireAgainIfRun(c) == [c EXCEPT !.fire = c.status \in States]

FireAgain(c) == [c EXCEPT !.fire = TRUE]

FireableCards == Available

(* Every lane with nothing at rest is cleared: those the run-all did not   *)
(* reach, but also one whose verdict is still playing out and one that a   *)
(* card's own Fire has armed.                                              *)
RunAllDone ==
  /\ Pump("done")
  /\ running' = FALSE
  /\ card' = [id \in Ids |-> IF id \in FireableCards THEN FireAgain(card[id]) ELSE card[id]]
  /\ lane' = [id \in Ids |-> IF id \in FireableCards /\ lane[id].rest = None
                             THEN Life(id)!LaneCleared(lane[id]) ELSE lane[id]]
  /\ UNCHANGED observed

-----------------------------------------------------------------------------
(* The presenter window.                                                   *)

StageStep(s) ==
  /\ stage' = s
  /\ UNCHANGED <<engineVars, queue, windowVars, late>>

OnTrigger(st) == st.index <= Len(st.deck)

(* render(): the word is the session's result of the trigger on stage; at  *)
(* the end the wall is wiped.  (It shows the last result again while a     *)
(* trigger is fired once more, though fire() has just wiped it.)           *)
Rendered(st) ==
  IF OnTrigger(st) THEN [st EXCEPT !.word = st.results[st.deck[st.index]]]
  ELSE [st EXCEPT !.word = None, !.lane = Wire!LaneCleared(@)]

(* A pick in the picker.  A new window is a new session; a window that is  *)
(* open is only raised.                                                    *)
StageOpen ==
  /\ Gesture
  /\ ~stage.open
  /\ \E deck \in StageDecks :
       StageStep(Rendered([NoStage EXCEPT !.open = TRUE, !.show = stage.show + 1, !.deck = deck]))
  /\ UNCHANGED worker

(* Closing is bounded by opening, so it is not counted as a click.         *)
StageClose ==
  /\ stage.open
  /\ StageStep([NoStage EXCEPT !.show = stage.show])
  /\ UNCHANGED <<worker, gestures>>

SteppedTo(st, index) == [st EXCEPT !.index = index, !.lane = Wire!LaneCleared(@)]

(* step(): goto() clamps; one past the last trigger the session is done.   *)
StageGoto(index) ==
  /\ Gesture
  /\ stage.open
  /\ ~stage.busy
  /\ index \in 1..(Len(stage.deck) + 1)
  /\ StageStep(Rendered(SteppedTo(stage, index)))
  /\ UNCHANGED worker

(* Mutant: Fire does not look whether the last one is back.                *)
OnStage == stage.open /\ OnTrigger(stage)

MayFireStage == stage.open /\ OnTrigger(stage) /\ ~stage.busy

StageFire ==
  /\ Gesture
  /\ MayFireStage
  /\ StageStep(Rendered([stage EXCEPT !.busy = TRUE, !.lane = Wire!LaneFired]))
  /\ Spawn([Resting EXCEPT !.at = "call", !.of = "stage", !.show = stage.show,
                           !.id = stage.deck[stage.index]])

(* poll(): the session is credited with what came back for the trigger     *)
(* that was fired.                                                         *)
StagePoll ==
  /\ stage.mail # NoMail
  /\ LET back == stage.mail
     IN  StageStep(Rendered([stage EXCEPT
           !.mail = NoMail, !.busy = FALSE, !.results[back.id] = back.state,
           !.lane = Wire!LaneResolved(@, back.state)]))
  /\ UNCHANGED <<worker, gestures>>

-----------------------------------------------------------------------------
Work(t) ==
  \/ RunAllTurn(t)
  \/ RunRefused(t)
  \/ RunBegins(t)
  \/ RunReturns(t)
  \/ RunRaises(t)
  \/ RunRecorded(t)
  \/ PutResult(t)
  \/ PutOutcome(t)

PumpOnce == ArmLane \/ SetResult \/ RunAllDone

Click ==
  \/ \E id \in Ids : Fire(id) \/ CycleConfirmed(id)
  \/ StartRunAll
  \/ StopRunAll
  \/ StageOpen
  \/ StageClose
  \/ \E delta \in {-1, 1} : StageGoto(stage.index + delta)
  \/ StageFire

Next ==
  \/ Click
  \/ \E t \in Threads : Work(t)
  \/ PumpOnce
  \/ StagePoll
  \/ \E id \in Ids : LaneFrame(id)
  \/ StageFrame

Spec == Init /\ [][Next]_vars

(* The workers run, every command they start has a timeout, and the main   *)
(* loop calls pump and poll again and again.  Nothing makes anybody click. *)
(* (That verdicts play out is shown in Motion.)                            *)
FairSpec ==
  /\ Spec
  /\ \A t \in Threads : WF_vars(Work(t))
  /\ WF_vars(PumpOnce)
  /\ WF_vars(StagePoll)

-----------------------------------------------------------------------------
(* Properties.                                                             *)

Workers == [at : {"idle", "loop", "call", "wire", "record", "put"},
            of : {None, "card", "all", "stage"}, show : Nat, id : Ids \cup {None},
            todo : Seq(Ids), state : States \cup {None}, seq : Nat]

(* Every variable holds what the code can hold there, and no card whose    *)
(* trigger is gated or not configured ever has a live Fire.                *)
TypeOK ==
  /\ worker \in [Threads -> Workers]
  /\ runLock \in Threads \cup {NoThread}
  /\ records \in Seq([id : Ids, state : States, confirmed : Confirmations])
  /\ \A i \in 1..Len(queue) : queue[i].do \in {"arm", "result", "done"}
  /\ running \in BOOLEAN /\ stop \in BOOLEAN
  /\ card \in [Ids -> [status : States \cup {"not run", "queued", "running"},
                       fire : BOOLEAN, seq : Nat, confirmed : Confirmations]]
  /\ \A id \in Unavailable : ~card[id].fire
  /\ lane \in [Ids -> [armed : BOOLEAN, verdict : States \cup {None},
                       rest : States \cup {None}, moving : BOOLEAN]]
  /\ observed \in [States -> Nat]
  /\ stage.deck \in StageDecks \cup {<<>>} /\ stage.index \in 1..(Len(stage.deck) + 1)
  /\ stage.results \in [Ids -> States \cup {None}]
  /\ late \in Nat /\ gestures \in 0..MaxGestures

(* A card is of one piece.  Its Confirm annotates the record of the very   *)
(* run it shows: same trigger, same state, and the mark on the card is the *)
(* mark in the ledger, though results of several workers overtake one      *)
(* another between the ledger and the window.  Its lane plays the verdict  *)
(* in its status line, and none while that says the trigger is running.    *)
CardIsItsRecord ==
  /\ \A id \in Ids : card[id].seq # 0 =>
       LET r == records[card[id].seq]
       IN  /\ r.id = id
           /\ r.confirmed = card[id].confirmed
           /\ card[id].status \in States => card[id].status = r.state
  /\ \A id \in Ids :
       /\ card[id].status \in States => lane[id].verdict \in {None, card[id].status}
       /\ card[id].status = "running" => lane[id].verdict = None

Count(s, Test(_)) == Cardinality({i \in DOMAIN s : Test(s[i])})

(* Results that are over and not yet drawn.                                *)
UnderWay(state) ==
  Count(queue, LAMBDA m : m.do = "result" /\ m.state = state)
    + Cardinality({t \in Threads : /\ worker[t].at = "put"
                                   /\ worker[t].of \in {"card", "all"}
                                   /\ worker[t].state = state})

(* The header's tally counts every run of this window once, whichever      *)
(* worker brought it: what is not counted yet is on its way.               *)
TallyIsTrue ==
  \A state \in States :
    observed[state] + UnderWay(state)
      = Count(ended, LAMBDA e : e.of \in {"card", "all"} /\ e.state = state)

(* "Stopping after the current trigger": once Stop is pressed at most the  *)
(* trigger already on its way is still fired.                              *)
StopHonoured == late <= 1

(* The last thing the session's runs of a trigger came to.                 *)
LastOnStage(id) ==
  LET mine == {i \in DOMAIN ended : /\ ended[i].of = "stage"
                                    /\ ended[i].show = stage.show
                                    /\ ended[i].id = id}
  IN  IF mine = {} THEN None ELSE ended[Max(mine)].state

(* Whenever the presenter can act, the scoreboard holds for each trigger   *)
(* how this session's last run of it ended, and for no other a thing:      *)
(* nothing lost in the slot, nothing credited to a neighbour or from a     *)
(* window closed before.  The word on the wall and the verdict in the lane *)
(* are those of the trigger on stage; while one is in flight the lane      *)
(* holds its signals at the gate.                                          *)
ScoreboardIsTrue ==
  stage.open =>
    IF stage.busy THEN stage.lane.verdict = None
    ELSE /\ \A id \in Ids : stage.results[id] = LastOnStage(id)
         /\ stage.word = IF OnTrigger(stage) THEN LastOnStage(stage.deck[stage.index]) ELSE None
         /\ stage.lane.verdict \in {None, stage.word}

(* A Fire that was taken away comes back: after its run, after a run-all   *)
(* that was stopped before it got there, after a run that raised.          *)
FireComesBack == \A id \in Available : ~card[id].fire ~> card[id].fire
=============================================================================
