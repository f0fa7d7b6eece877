------------------------------- MODULE Motion -------------------------------
(***************************************************************************)
(* Everything in the console's window that moves, on the one clock that    *)
(* moves it: _Anim with its single timer and its list of jobs, the lanes   *)
(* of the cards (_Lane), the header's trace (_Pulse) and the buttons that  *)
(* glow (_Pill).                                                           *)
(*                                                                         *)
(* A widget asks the clock for a job when it starts to move, keeps hold of *)
(* it, and gives it back when it is at rest; the clock runs only while it  *)
(* has jobs.  Times are counted in units, distances in the time a signal   *)
(* needs for them; the step of one tick is clamped by the code, here to    *)
(* 1..MaxStep.  The window's driver is cut down to what Desk establishes:  *)
(* a lane is fired by a card or by the run-all, each fire is answered by   *)
(* one verdict, and the end of a run-all clears what is not at rest.       *)
(***************************************************************************)
EXTENDS Integers, Sequences, FiniteSets

CONSTANTS
  Lanes, Pulse, Pills,  \* the widgets that move
  States,       \* the states a run can end in
  Counts,       \* bound: signals of a trigger
  MaxDots,      \* a lane draws no more than this
  Gap,          \* between two signals leaving the host
  Flight,       \* from the host to the gate
  Leave,        \* from the gate out of sight
  Fade,         \* until a signal that was stopped is gone
  Flash,        \* until the gate stops glowing
  Trail,        \* until a beat has scrolled off the trace
  Glow,         \* until a button's glow has settled
  MaxStep,      \* the clamp on one tick's step
  MaxGestures   \* bound: fires, hovers and switches of focus in one behaviour

Widgets == Lanes \cup {Pulse} \cup Pills

None == "none"

ASSUME MotionAssumption ==
  /\ Lanes \cap Pills = {} /\ Pulse \notin Lanes \cup Pills
  /\ IsFiniteSet(Lanes) /\ IsFiniteSet(Pills)
  /\ {"allowed", "blocked", "ratio"} \subseteq States /\ None \notin States
  /\ Counts \subseteq Nat
  /\ {MaxDots, Flight, Leave, Fade, Flash, Trail, Glow, MaxStep} \subseteq Nat \ {0}
  /\ Gap \in Nat /\ MaxGestures \in Nat

VARIABLES
  jobs,      \* _Anim.jobs, in the order they were added
  timer,     \* _Anim._pending: the delay it was armed with, 0 for none
  ambient,   \* _Anim._ambient
  job,       \* each widget's own _job, 0 for None
  lane,      \* the lanes
  pulse,     \* the trace: the beat to come, and how long the last one is in sight
  pill,      \* the buttons
  focus,     \* the window has the focus, and a check of that is pending
  awaited,   \* how many verdicts are still to come for a lane
  seen,      \* history: per lane, the verdicts since it was last fired
  tally,     \* history: per lane, whether all signals waited, and how many got through
  gestures   \* history: gestures so far

animVars == <<jobs, timer, job, lane, pulse, pill>>
vars == <<animVars, ambient, focus, awaited, seen, tally, gestures>>

(* Op(value), with the value worked out once.                              *)
Given(value, Op(_)) == CHOOSE result \in {Op(v) : v \in {value}} : TRUE

(* The elements of s at the places in I, in their order.                   *)
Those(s, I) ==
  LET upto[n \in 0..Len(s)] ==
        IF n = 0 THEN <<>>
        ELSE IF n \in I THEN Append(upto[n - 1], s[n]) ELSE upto[n - 1]
  IN  upto[Len(s)]

-----------------------------------------------------------------------------
(* The clock.  A job is known by its number: it is in the list at most     *)
(* once, and a widget's _job names it.                                     *)

IdsOf(js) == {js[i].id : i \in DOMAIN js}

(* A number no job has, and no widget holds.                               *)
Fresh(js, own) ==
  CHOOSE n \in 1..(Len(js) + Cardinality(Widgets) + 1) :
    n \notin IdsOf(js) \cup {own[w] : w \in Widgets}

IsAmbient(j) == j.of = Pulse

Delay(w) == IF w = Pulse THEN 33 ELSE 16

(* add(): register, and restart the clock.  A widget adds a job only while *)
(* it holds none.                                                          *)
Started(s, w) ==
  IF s.job[w] # 0 THEN s
  ELSE LET n == Fresh(s.jobs, s.job)
       IN  [s EXCEPT !.jobs = Append(@, [of |-> w, id |-> n]),
                     !.job[w] = n,
                     !.timer = Delay(w)]

(* Mutant: drop() is handed a bound method made afresh, and finds nothing. *)
DroppedAfresh(js, ids) == js

(* drop(): the stored jobs, and no other.                                  *)
Dropped(js, ids) == Those(js, {i \in DOMAIN js : js[i].id \notin ids})

Now == [jobs |-> jobs, timer |-> timer, job |-> job, lane |-> lane, pulse |-> pulse,
        pill |-> pill, tally |-> tally, alive |-> TRUE]

Becomes(s) ==
  /\ jobs' = s.jobs
  /\ timer' = s.timer
  /\ job' = s.job
  /\ lane' = s.lane
  /\ pulse' = s.pulse
  /\ pill' = s.pill
  /\ tally' = s.tally

-----------------------------------------------------------------------------
(* The trace.                                                              *)

Flat == [beat |-> 0, sight |-> 0]

Blip(s) == Started([s EXCEPT !.pulse.beat = 1], Pulse)

(* Mutant: a beat that has been drawn is not let go.                       *)
Ringing(p) == [p EXCEPT !.sight = Trail]

Sampled(p) == [beat  |-> 0,
               sight |-> IF p.beat > 0 THEN Trail ELSE IF p.sight = 0 THEN 0 ELSE p.sight - 1]

PulseFrame(s, dt) ==
  LET after[k \in 0..dt] == IF k = 0 THEN s.pulse ELSE Sampled(after[k - 1])
  IN  [s EXCEPT !.pulse = after[dt],
                !.job[Pulse] = IF after[dt] = Flat THEN 0 ELSE @,
                !.alive = after[dt] # Flat]

-----------------------------------------------------------------------------
(* The lanes.                                                              *)

Smaller(a, b) == IF a < b THEN a ELSE b
Larger(a, b)  == IF a > b THEN a ELSE b

Clear == [total |-> 0, emitted |-> 0, t |-> 0, dots |-> <<>>, verdict |-> None,
          passes |-> 0, flash |-> 0, rest |-> None]

FiredTotal(count) == Larger(1, Smaller(count, MaxDots))

(* Mutant: fire() leaves the verdict of the run before at rest.            *)
RestKept(ln, count) == [Clear EXCEPT !.total = FiredTotal(count), !.flash = ln.flash,
                                     !.rest = ln.rest]

(* fire(): the glow at the gate is what it was.                            *)
FiredLane(ln, count) == [Clear EXCEPT !.total = FiredTotal(count), !.flash = ln.flash]

(* resolve(): a lane that was never fired takes the verdict at once, and   *)
(* its gate keeps glowing.                                                 *)
ResolvedLane(ln, state, passes) ==
  [ln EXCEPT !.verdict = state, !.flash = Flash,
             !.passes = IF state = "ratio" THEN passes
                        ELSE IF state = "allowed" THEN ln.total ELSE 0,
             !.rest = IF ln.total = 0 THEN state ELSE @]

(* _outcome(): which way a signal goes that learns the verdict when so     *)
(* many others are in sight beyond the gate.                               *)
Taken(dots) == Cardinality({i \in DOMAIN dots : dots[i].mode = "pass"})

(* Mutant: a ratio lets every signal through as long as any got through.   *)
AnyPasses(ln, taken) ==
  CASE ln.verdict = "allowed" -> "pass"
    [] ln.verdict = "blocked" -> "hit"
    [] ln.verdict = "ratio"   -> IF ln.passes > 0 THEN "pass" ELSE "hit"
    [] OTHER                  -> "lost"

Outcome(ln, taken) ==
  CASE ln.verdict = "allowed" -> "pass"
    [] ln.verdict = "blocked" -> "hit"
    [] ln.verdict = "ratio"   -> IF taken < ln.passes THEN "pass" ELSE "hit"
    [] OTHER                  -> "lost"

Signal == [mode |-> "fly", x |-> 0, age |-> 0]

(* How many signals are due to have left the host.                         *)
Due(ln) == Cardinality({n \in 0..(ln.total - 1) : n >= ln.emitted /\ ln.t > n * Gap})

(* The time a lane has run is not read once every signal has left.         *)
Later(ln, dt) == [ln EXCEPT !.t = Smaller(@ + dt, ln.total * Gap + 1)]

Emitted(ln) ==
  [ln EXCEPT !.dots = @ \o [i \in 1..Due(ln) |-> Signal], !.emitted = @ + Due(ln)]

(* In a frame each signal flies, waits at the gate for the verdict, and    *)
(* then passes it, breaks against it or scatters.  They are gone through   *)
(* in the order they left, so those that learn the verdict in this frame   *)
(* count the ones before them.  One that was on the wing when it learnt it *)
(* is past the gate in the same frame.                                     *)
AtGate(d, dt) == d.mode = "held" \/ (d.mode = "fly" /\ d.x + dt >= Flight)

Learns(ln, i, dt) == ln.verdict # None /\ AtGate(ln.dots[i], dt)

Learnt(ln, i, dt) ==
  LET d      == ln.dots[i]
      before == Cardinality({k \in 1..(i - 1) : Learns(ln, k, dt)})
      mode   == Outcome(ln, Taken(ln.dots) + before)
  IN  [mode |-> mode, age |-> 0,
       x |-> IF mode = "pass" /\ d.mode = "fly" THEN Flight + dt ELSE Flight]

Moved(ln, i, dt) ==
  LET d == ln.dots[i] IN
  CASE Learns(ln, i, dt)         -> Learnt(ln, i, dt)
    [] ln.verdict = None /\ AtGate(d, dt)
                                 -> [d EXCEPT !.mode = "held", !.x = Flight]
    [] d.mode \in {"fly", "pass"} /\ ~AtGate(d, dt)
                                 -> [d EXCEPT !.x = @ + dt]
    [] d.mode \in {"hit", "lost"} -> [d EXCEPT !.age = @ + dt]

Gone(d) == \/ d.mode = "pass" /\ d.x > Flight + Leave
           \/ d.mode \in {"hit", "lost"} /\ d.age > Fade

Travelled(ln, dt) == [i \in DOMAIN ln.dots |-> Moved(ln, i, dt)]

PlayedOut(ln) ==
  ln.verdict # None /\ ln.dots = <<>> /\ ln.emitted >= ln.total /\ ln.flash = 0

(* _frame(): each signal that leaves the host makes the trace beat.        *)
Stepped(ln, dots, dt) ==
  [ln EXCEPT !.emitted = @ + Due(ln),
             !.dots = Those(dots, {i \in DOMAIN dots : ~Gone(dots[i])}),
             !.flash = Larger(0, @ - dt)]

AtRest(ln) == [ln EXCEPT !.rest = ln.verdict]

(* Mutant: a lane with nothing in sight leaves the clock.                  *)
NoneInSight(ln) == ln.dots = <<>>

HasEnded(ln) == PlayedOut(ln) \/ (ln.total = 0 /\ ln.dots = <<>>)

LaneFrame(s, l, dt) ==
  LET timed == Later(s.lane[l], dt)
      sent  == IF Due(timed) > 0 THEN Blip(s) ELSE s
      Shown(dots) == LET after == Stepped(timed, dots, dt) IN
        [sent EXCEPT !.lane[l] = IF PlayedOut(after) THEN AtRest(after) ELSE after,
                     !.job[l] = IF HasEnded(after) THEN 0 ELSE @,
                     !.alive = ~HasEnded(after),
                     !.tally[l].through = @ + Taken(dots) - Taken(timed.dots)]
  IN  Given(Given(Emitted(timed), LAMBDA ln : Travelled(ln, dt)), Shown)

-----------------------------------------------------------------------------
(* The buttons.                                                            *)

Approach(from, to, dt) ==
  IF from < to THEN Smaller(to, from + dt) ELSE Larger(to, from - dt)

(* The frame that finds everything settled is the one that ends the job.   *)
PillFrame(s, p, dt) ==
  LET b    == s.pill[p]
      done == b.glow = b.target /\ b.press = 0
  IN  [s EXCEPT !.pill[p].glow = Approach(b.glow, b.target, dt),
                !.pill[p].press = Larger(0, b.press - dt),
                !.job[p] = IF done THEN 0 ELSE @,
                !.alive = ~done]

-----------------------------------------------------------------------------
(* _tick(): one frame for every job that was in the list when it began,    *)
(* the trace's only while somebody is looking.  A frame may add the        *)
(* trace's job; it gets its first frame in the next tick.                  *)

Frame(s, w, dt) ==
  IF w = Pulse THEN PulseFrame(s, dt)
  ELSE IF w \in Lanes THEN LaneFrame(s, w, dt)
  ELSE PillFrame(s, w, dt)

RunJob(s, j, dt) ==
  LET Kept(after) == IF after.alive THEN after
                     ELSE [after EXCEPT !.jobs = Dropped(@, {j.id}), !.alive = TRUE]
  IN  IF IsAmbient(j) /\ ~ambient THEN s ELSE Given(Frame(s, j.of, dt), Kept)

NextDelay(js) ==
  IF js = <<>> THEN 0
  ELSE IF \E i \in DOMAIN js : ~IsAmbient(js[i]) THEN 16
  ELSE IF ambient THEN 33 ELSE 250

Ticked(dt) ==
  LET upto[n \in 0..Len(jobs)] ==
        IF n = 0 THEN Now
        ELSE Given(upto[n - 1], LAMBDA now : RunJob(now, jobs[n], dt))
  IN  upto[Len(jobs)]

Tick ==
  /\ timer # 0
  /\ \E after \in {Ticked(dt) : dt \in 1..MaxStep} :
       Becomes([after EXCEPT !.timer = NextDelay(after.jobs)])
  /\ UNCHANGED <<ambient, focus, awaited, seen, gestures>>

-----------------------------------------------------------------------------
(* The window's driver.                                                    *)

Init ==
  /\ jobs = <<>>
  /\ timer = 80
  /\ ambient = TRUE
  /\ job = [w \in Widgets |-> 0]
  /\ lane = [l \in Lanes |-> Clear]
  /\ pulse = Flat
  /\ pill = [p \in Pills |-> [enabled |-> TRUE, glow |-> 0, target |-> 0, press |-> 0]]
  /\ focus = [here |-> TRUE, check |-> FALSE]
  /\ awaited = [l \in Lanes |-> 0]
  /\ seen = [l \in Lanes |-> {}]
  /\ tally = [l \in Lanes |-> [waited |-> FALSE, through |-> 0]]
  /\ gestures = 0

Gesture == gestures < MaxGestures /\ gestures' = gestures + 1

(* fire() and arm_lane().  While a run-all is on a trigger can be on its   *)
(* way twice.                                                              *)
Fire(l) ==
  /\ Gesture
  /\ awaited[l] < 2
  /\ \E count \in Counts :
       Becomes([Started([Now EXCEPT !.lane[l] = FiredLane(lane[l], count)], l) EXCEPT
                  !.tally[l] = [waited |-> FALSE, through |-> 0]])
  /\ awaited' = [awaited EXCEPT ![l] = @ + 1]
  /\ seen' = [seen EXCEPT ![l] = {}]
  /\ UNCHANGED <<ambient, focus>>

(* Every signal of the lane waits at the gate for its first verdict.       *)
AllWait(ln) ==
  /\ ln.verdict = None /\ ln.total > 0 /\ ln.emitted = ln.total
  /\ \A i \in DOMAIN ln.dots : ln.dots[i].mode = "held"

(* Mutant: a lane with nothing left to draw is not put on the clock again. *)
StartedIfDots(s, l) == IF s.lane[l].dots = <<>> THEN s ELSE Started(s, l)

LaneStarted(s, l) == IF s.lane[l].total = 0 THEN s ELSE Started(s, l)

(* set_result(): the lane's verdict, and a beat of the trace.              *)
Resolve(l) ==
  /\ awaited[l] > 0
  /\ \E state \in States : \E passes \in 0..MaxDots :
       /\ state # "ratio" => passes = 0
       /\ seen' = [seen EXCEPT ![l] = @ \cup {state}]
       /\ Becomes(Blip(LaneStarted(
            [Now EXCEPT !.lane[l] = ResolvedLane(lane[l], state, passes),
                        !.tally[l].waited = AllWait(lane[l])], l)))
  /\ awaited' = [awaited EXCEPT ![l] = @ - 1]
  /\ UNCHANGED <<ambient, focus, gestures>>

(* The end of run_all_done(): lanes with nothing at rest are cleared, those*)
(* the run-all did not reach and the one whose verdict is still playing;   *)
(* each gives its job back.  (clear() leaves how many got through as it    *)
(* was; resolve() sets it before it is read again.)                        *)
Unrested == {l \in Lanes : lane[l].rest = None}

RunAllDone ==
  /\ \E l \in Unrested : lane[l] # Clear
  /\ lane' = [l \in Lanes |-> IF l \in Unrested THEN Clear ELSE lane[l]]
  /\ job' = [w \in Widgets |-> IF w \in Unrested THEN 0 ELSE job[w]]
  /\ jobs' = Dropped(jobs, {job[l] : l \in Unrested})
  /\ UNCHANGED <<timer, pulse, pill, tally, ambient, focus, awaited, seen, gestures>>

PillMoves(p, b) ==
  /\ Becomes(Started([Now EXCEPT !.pill[p] = b], p))
  /\ UNCHANGED <<ambient, focus, awaited, seen>>

Enter(p) ==
  /\ Gesture
  /\ pill[p].enabled
  /\ PillMoves(p, [pill[p] EXCEPT !.target = Glow])

Left(b) == [b EXCEPT !.target = 0]

(* A button that is out of use still loses its glow.                       *)
Exit(p) ==
  /\ pill[p].target # 0
  /\ PillMoves(p, Left(pill[p]))
  /\ UNCHANGED gestures

(* A press is drawn at once and stays until the button is let go.          *)
Press(p) ==
  /\ Gesture
  /\ pill[p].enabled
  /\ pill' = [pill EXCEPT ![p].press = 2]
  /\ UNCHANGED <<jobs, timer, job, lane, pulse, tally, ambient, focus, awaited, seen>>

(* The mouse button is let go, or the button is worked from the keyboard.  *)
LetGo(p) ==
  /\ Gesture
  /\ pill[p].enabled
  /\ \E press \in 1..2 : PillMoves(p, [pill[p] EXCEPT !.press = press])

(* configure(state = ...): drawn at once, without the clock.               *)
Configure(p) ==
  /\ Gesture
  /\ pill' = [pill EXCEPT ![p].enabled = ~@]
  /\ UNCHANGED <<jobs, timer, job, lane, pulse, tally, ambient, focus, awaited, seen>>

(* on_focus(): the focus moves, and is asked for 120 ms later.             *)
FocusMoves ==
  /\ Gesture
  /\ focus' = [here |-> ~focus.here, check |-> TRUE]
  /\ UNCHANGED <<animVars, ambient, awaited, seen, tally>>

(* _focus_check() and set_ambient(): a change re-arms the timer.           *)
FocusCheck ==
  /\ focus.check
  /\ focus' = [focus EXCEPT !.check = FALSE]
  /\ ambient' = focus.here
  /\ timer' = IF focus.here = ambient THEN timer ELSE IF focus.here THEN 16 ELSE 90
  /\ UNCHANGED <<jobs, job, lane, pulse, pill, awaited, seen, tally, gestures>>

Next ==
  \/ Tick
  \/ \E l \in Lanes : Fire(l) \/ Resolve(l)
  \/ RunAllDone
  \/ \E p \in Pills : Enter(p) \/ Exit(p) \/ Press(p) \/ LetGo(p) \/ Configure(p)
  \/ FocusMoves
  \/ FocusCheck

Spec == Init /\ [][Next]_vars

(* The main loop fires the timers that are armed, and every run comes back *)
(* with a verdict.  Nothing makes anybody click.                           *)
FairSpec ==
  /\ Spec
  /\ WF_vars(Tick)
  /\ WF_vars(FocusCheck)
  /\ \A l \in Lanes : WF_vars(Resolve(l))

-----------------------------------------------------------------------------
(* Properties.                                                             *)

(* A widget holds a job exactly when that job is in the clock's list, and  *)
(* the list holds nothing else: no lane is moved twice in a tick, none     *)
(* waits for a job that is gone, and while there is a job a timer is armed.*)
JobsAreOwned ==
  /\ \A w \in Widgets :
       {i \in DOMAIN jobs : jobs[i].of = w} = {i \in DOMAIN jobs : jobs[i].id = job[w]}
  /\ \A w \in Widgets : job[w] # 0 => job[w] \in IdsOf(jobs)
  /\ Cardinality(IdsOf(jobs)) = Len(jobs)
  /\ jobs # <<>> => timer # 0

(* What is off the clock is at rest: no signal hangs in the wire, no       *)
(* verdict is half played, no button is stuck between two colours.         *)
OffTheClockAtRest ==
  /\ \A l \in Lanes : job[l] = 0 =>
       lane[l].dots = <<>> /\ lane[l].emitted = lane[l].total /\ lane[l].rest = lane[l].verdict
  /\ job[Pulse] = 0 => pulse = Flat
  /\ \A p \in Pills : job[p] = 0 => pill[p].glow = pill[p].target

(* "The lane only ever animates a state the console actually observed":    *)
(* nothing passes the gate, breaks against it or scatters before a verdict *)
(* of that kind has come since the lane was fired, so an environment       *)
(* failure never draws a block.                                            *)
NothingUnseen ==
  \A l \in Lanes : \A i \in DOMAIN lane[l].dots :
    LET mode == lane[l].dots[i].mode
    IN  /\ mode = "pass" => seen[l] \cap {"allowed", "ratio"} # {}
        /\ mode = "hit"  => seen[l] \cap {"blocked", "ratio"} # {}
        /\ mode = "lost" => seen[l] \ {"allowed", "blocked", "ratio"} # {}

(* When every signal waited at the gate for the verdict, as many get       *)
(* through as the verdict says.  (With a verdict that comes while signals  *)
(* are still leaving the host more can get through: _outcome counts those  *)
(* now in sight.)                                                          *)
AsManyAsWereSeen ==
  \A l \in Lanes : tally[l].waited /\ lane[l].rest # None =>
    tally[l].through = CASE lane[l].rest = "allowed" -> lane[l].total
                         [] lane[l].rest = "ratio"   -> Smaller(lane[l].passes, lane[l].total)
                         [] OTHER                    -> 0

DrawsWhatWasSeen == NothingUnseen /\ AsManyAsWereSeen

(* The lane of every card, seen from outside, is a LaneLife.               *)
LifeOf(l) == [armed |-> lane[l].total > 0, verdict |-> lane[l].verdict,
              rest |-> lane[l].rest, moving |-> job[l] # 0]

Life(l) == INSTANCE LaneLife WITH NoState <- None, life <- LifeOf(l)

LanesLive ==
  /\ \A l \in Lanes : Life(l)!Init
  /\ [][\A l \in Lanes : Life(l)!Next \/ UNCHANGED LifeOf(l)]_vars

(* A verdict plays out and comes to rest, or is overtaken by a new run or  *)
(* a clearing: it is never left half drawn.                                *)
VerdictPlaysOut ==
  \A l \in Lanes : lane[l].verdict # None ~> lane[l].rest = lane[l].verdict

(* "An idle console runs no animation at all": once somebody stays to look *)
(* and nobody does anything, the clock stops.                              *)
ClockStops == <>[]ambient => <>[](timer = 0)
=============================================================================
