------------------------------ MODULE LaneLife ------------------------------
(***************************************************************************)
(* What a lane promises to the window that drives it, whatever its signals *)
(* look like on the way: it is fired, it is given a verdict, it may be     *)
(* cleared, and a verdict it was given while it was armed comes to rest by *)
(* itself.  Desk uses these operators for its cards; Motion, which has the *)
(* signals and the clock, implements this specification.                   *)
(***************************************************************************)
CONSTANTS
  States,       \* the states a run can end in
  NoState       \* no verdict

VARIABLE life   \* armed, its verdict, what is at rest, whether it is on the clock

Unfired == [armed |-> FALSE, verdict |-> NoState, rest |-> NoState, moving |-> FALSE]

LaneFired == [Unfired EXCEPT !.armed = TRUE, !.moving = TRUE]

(* A verdict that reaches a lane which is not armed goes straight to rest. *)
LaneResolved(ln, state) ==
  [ln EXCEPT !.verdict = state,
             !.rest    = IF ln.armed THEN ln.rest ELSE state,
             !.moving  = ln.armed \/ ln.moving]

LaneCleared(ln) == Unfired

(* The signals have played out a verdict, and the lane leaves the clock.   *)
PlaysOut(ln) == ln.moving /\ ln.verdict # NoState

LaneAtRest(ln) == [ln EXCEPT !.rest = ln.verdict, !.moving = FALSE]

Init == life = Unfired

Next ==
  \/ life' = LaneFired
  \/ \E state \in States : life' = LaneResolved(life, state)
  \/ life' = LaneCleared(life)
  \/ PlaysOut(life) /\ life' = LaneAtRest(life)

Spec == Init /\ [][Next]_life
=============================================================================
