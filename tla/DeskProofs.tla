----------------------------- MODULE DeskProofs -----------------------------
(***************************************************************************)
(* What holds of the two windows over one engine, for any catalog, any     *)
(* profiles, any number of workers and clicks.                             *)
(***************************************************************************)
EXTENDS Desk, FiniteSetTheorems, FunctionTheorems, SequenceTheorems, TLAPS

(* Induction over the naturals, for sets: what holds 0 and each successor  *)
(* holds them all.  (Else the numbers up to a missing n that it holds      *)
(* could be moved up by one into fewer places.)                            *)
LEMMA Induct ==
  ASSUME NEW S, 0 \in S, \A n \in Nat : n \in S => n + 1 \in S
  PROVE  \A n \in Nat : n \in S
<1> SUFFICES ASSUME NEW n \in Nat, n \notin S PROVE FALSE
  OBVIOUS
<1> DEFINE T == {i \in 0..n : i \in S}
           up == [i \in T |-> i + 1]
<1>1. T \subseteq 0..n /\ 0 \in T
  OBVIOUS
<1>2. \A i \in T : i \in Nat /\ i + 1 \in T \ {0}
  OBVIOUS
<1>3. up \in [T -> T \ {0}] /\ \A i, j \in T : up[i] = up[j] => i = j
  BY <1>2
<1> HIDE DEF T, up
<1>4. IsFiniteSet(T) /\ Cardinality(T) \in Nat
  <2>1. IsFiniteSet(0..n)
    BY FS_Interval
  <2> QED
    BY <1>1, <2>1, FS_Subset, FS_CardinalityType
<1>5. IsFiniteSet(T \ {0}) /\ Cardinality(T \ {0}) = Cardinality(T) - 1
  BY <1>1, <1>4, FS_RemoveElement
<1>6. up \in Injection(T, T \ {0})
  BY <1>3 DEF Injection, IsInjective
<1>7. Cardinality(T) <= Cardinality(T \ {0})
  BY <1>5, <1>6, FS_Injection
<1> QED
  BY <1>4, <1>5, <1>7

(* A set of indexes that is not empty has a last one.                      *)
LEMMA MaxIsLast ==
  ASSUME NEW n \in Nat, NEW S, S \subseteq 1..n, S # {}
  PROVE  Max(S) \in S /\ \A i \in S : i <= Max(S)
<1> DEFINE Bounded == {k \in Nat : (\E i \in S : i <= k) =>
                          \E i \in S : i <= k /\ \A j \in S : j <= k => j <= i}
<1>1. 0 \in Bounded
  OBVIOUS
<1>2. ASSUME NEW k \in Nat, k \in Bounded PROVE k + 1 \in Bounded
  <2>1. CASE k + 1 \in S
    BY <2>1
  <2>2. CASE k + 1 \notin S
    <3>1. \A i \in S : i <= k + 1 <=> i <= k
      BY <2>2
    <3> QED
      BY <1>2, <3>1
  <2> QED
    BY <2>1, <2>2
<1> HIDE DEF Bounded
<1>3. n \in Bounded
  BY <1>1, <1>2, Induct
<1>4. \A i \in S : i \in Nat /\ i <= n
  OBVIOUS
<1>5. PICK i \in S : \A j \in S : j <= n => j <= i
  BY <1>3, <1>4 DEF Bounded
<1>6. \A j \in S : i >= j
  BY <1>4, <1>5
<1> QED
  BY <1>4, <1>6 DEF Max

(* Without computes a deck of what is not in S.                            *)
LEMMA WithoutIsDeck ==
  ASSUME NEW T, NEW deck \in Seq(T), NEW S
  PROVE  Without(deck, S) \in Seq(T \ S)
<1> DEFINE L == Len(deck)
           D == Seq(T \ S)
           Step(g, n) == IF n = 0 THEN <<>>
                         ELSE IF deck[n] \in S THEN g[n - 1] ELSE Append(g[n - 1], deck[n])
           Upto(n, g) == g \in [0..n -> D] /\ \A i \in 0..n : g[i] = Step(g, i)
           Fine == {n \in Nat : n <= L => \E g : Upto(n, g)}
<1>0. L \in Nat /\ \A i \in 1..L : deck[i] \in T
  OBVIOUS
<1>1. <<>> \in D /\ \A d \in D : \A e \in T \ S : Append(d, e) \in D
  OBVIOUS
<1> HIDE DEF L, D
<1>2. \E g : Upto(0, g)
  <2>1. Upto(0, [i \in 0..0 |-> <<>>])
    BY <1>1
  <2> QED
    BY <2>1
<1>3. ASSUME NEW n \in Nat, n + 1 <= L, NEW g, Upto(n, g) PROVE \E h : Upto(n + 1, h)
  <2> DEFINE top == Step(g, n + 1)
             h == [i \in 0..(n + 1) |-> IF i = n + 1 THEN top ELSE g[i]]
  <2>1. g[n] \in D /\ deck[n + 1] \in T
    BY <1>0, <1>3
  <2>2. top = IF deck[n + 1] \in S THEN g[n] ELSE Append(g[n], deck[n + 1])
    OBVIOUS
  <2>3. top \in D
    BY <1>1, <2>1, <2>2
  <2> HIDE DEF top
  <2>4. h \in [0..(n + 1) -> D]
    BY <1>3, <2>3
  <2>5. h[n + 1] = Step(h, n + 1)
    BY <2>2
  <2>6. ASSUME NEW i \in 0..n PROVE h[i] = Step(h, i)
    <3>1. h[i] = g[i] /\ (i # 0 => h[i - 1] = g[i - 1])
      OBVIOUS
    <3> QED
      BY <1>3, <3>1
  <2>7. \A i \in 0..(n + 1) : i \in 0..n \/ i = n + 1
    OBVIOUS
  <2> HIDE DEF h, Step
  <2>8. Upto(n + 1, h)
    BY <2>4, <2>5, <2>6, <2>7
  <2> QED
    BY <2>8
<1>4. PICK g : Upto(L, g)
  <2> HIDE DEF Upto
  <2>1. 0 \in Fine /\ \A n \in Nat : n \in Fine => n + 1 \in Fine
    BY <1>2, <1>3, <1>0
  <2> HIDE DEF Fine
  <2>2. L \in Fine
    BY <1>0, <2>1, Induct
  <2> QED
    BY <1>0, <2>2 DEF Fine
<1> DEFINE kept == CHOOSE f : f = [n \in 0..L |-> Step(f, n)]
<1>5. kept = [n \in 0..L |-> Step(kept, n)]
  <2>1. g = [n \in 0..L |-> Step(g, n)]
    BY <1>4
  <2> QED
    BY <2>1
<1> HIDE DEF kept
<1>6. Without(deck, S) = kept[L]
  BY DEF Without, kept, L
<1> DEFINE Same == {n \in Nat : n <= L => kept[n] = g[n]}
<1>7. 0 \in Same
  BY <1>0, <1>4, <1>5
<1>8. ASSUME NEW n \in Nat, n + 1 <= L, kept[n] = g[n] PROVE kept[n + 1] = g[n + 1]
  <2>1. n + 1 \in 0..L
    BY <1>0, <1>8
  <2>2. kept[n + 1] = Step(kept, n + 1) /\ g[n + 1] = Step(g, n + 1)
    BY <1>4, <1>5, <2>1
  <2> QED
    BY <1>8, <2>2
<1>9. \A n \in Nat : n \in Same => n + 1 \in Same
  BY <1>0, <1>8
<1> HIDE DEF Same
<1>10. L \in Same
  BY <1>0, <1>7, <1>9, Induct
<1> QED
  BY <1>0, <1>4, <1>6, <1>10 DEF Same, D

-----------------------------------------------------------------------------

(* What the variables hold.                                                *)
InCall == {"call", "wire", "record", "put"}

Lanes == [armed : BOOLEAN, verdict : States \cup {None}, rest : States \cup {None},
          moving : BOOLEAN]

Cards == [status : States \cup {"not run", "queued", "running"}, fire : BOOLEAN, seq : Nat,
          confirmed : Confirmations]

Records == [id : Ids, state : States, confirmed : Confirmations]

Entries == [of : {"card", "all", "stage"}, show : Nat, id : Ids, state : States, seq : Nat]

Messages ==
  [do : {"arm"}, id : Available]
    \cup [do : {"result"}, id : Available, state : States, seq : Nat]
    \cup [do : {"done"}]

Stages ==
  [open : BOOLEAN, show : Nat, deck : Seq(Ids), index : Nat \ {0}, busy : BOOLEAN,
   mail : [id : Ids, state : States] \cup {NoMail}, results : [Ids -> States \cup {None}],
   word : States \cup {None}, lane : Lanes]

(* A worker knows what it is for: only a run-all loops, a call has a       *)
(* trigger and a caller, and no surface but the presenter fires a trigger  *)
(* that is unavailable.                                                    *)
WorkerFine(w) ==
  /\ w \in Workers
  /\ w.at = "idle" => w.of = None
  /\ w.at = "loop" => w.of = "all"
  /\ w.at \in InCall => w.id \in Ids /\ w.of # None
  /\ w.at \in InCall /\ w.of # "stage" => w.id \in Available
  /\ w.at \in {"record", "put"} => w.state \in States
  /\ w.at # "put" => w.seq = 0
  /\ w.todo \in Seq(Available)

StageFine(st) ==
  /\ st \in Stages
  /\ st.deck \in StageDecks \cup {<<>>}
  /\ st.index <= Len(st.deck) + 1

WorkersOK == worker \in [Threads -> Workers] /\ \A t \in Threads : WorkerFine(worker[t])

EngineOK ==
  /\ runLock \in Threads \cup {NoThread}
  /\ records \in Seq(Records)
  /\ ended \in Seq(Entries)

WindowOK ==
  /\ queue \in Seq(Messages)
  /\ running \in BOOLEAN /\ stop \in BOOLEAN
  /\ card \in [Ids -> Cards]
  /\ \A id \in Unavailable : ~card[id].fire
  /\ lane \in [Ids -> Lanes]
  /\ observed \in [States -> Nat]
  /\ late \in Nat /\ gestures \in 0..MaxGestures

DeskTypes == WorkersOK /\ EngineOK /\ WindowOK /\ StageFine(stage)

LEMMA TypesGiveTypeOK == DeskTypes => TypeOK
<1> SUFFICES ASSUME DeskTypes PROVE TypeOK
  OBVIOUS
<1> USE DEF DeskTypes
<1>1. \A i \in 1..Len(queue) : queue[i].do \in {"arm", "result", "done"}
  <2>1. \A i \in 1..Len(queue) : queue[i] \in Messages
    BY DEF WindowOK
  <2> QED
    BY <2>1 DEF Messages
<1>2. stage.index \in 1..(Len(stage.deck) + 1)
  BY DEF StageFine, Stages
<1> QED
  BY <1>1, <1>2 DEF TypeOK, WorkersOK, EngineOK, WindowOK, StageFine, Stages, Records, Cards, Lanes

LEMMA DecksOfIds ==
  /\ RunAllDeck \in Seq(Available)
  /\ \A deck \in StageDecks : deck \in Seq(Ids) /\ deck # <<>>
<1>1. \A deck \in Profiles \cup {Catalog} : deck \in Seq(Ids)
  BY DeskAssumption
<1>2. \A deck \in Profiles \cup {Catalog} : Without(deck, Gated) \in Seq(Ids)
  <2>1. \A deck \in Profiles \cup {Catalog} : Without(deck, Gated) \in Seq(Ids \ Gated)
    BY <1>1, WithoutIsDeck
  <2> QED
    BY <2>1, SeqMonotonic
<1>3. RunAllDeck \in Seq(Available)
  BY DeskAssumption, WithoutIsDeck DEF RunAllDeck, Available
<1> QED
  BY <1>2, <1>3 DEF StageDecks

LEMMA LanesKept ==
  /\ Wire!Unfired \in Lanes /\ Wire!LaneFired \in Lanes
  /\ \A ln \in Lanes : Wire!LaneCleared(ln) \in Lanes /\ Wire!LaneAtRest(ln) \in Lanes
  /\ \A ln \in Lanes, state \in States : Wire!LaneResolved(ln, state) \in Lanes
BY DEF Lanes, Wire!Unfired, Wire!LaneFired, Wire!LaneCleared, Wire!LaneAtRest, Wire!LaneResolved, None

LEMMA LifeIsWire ==
  ASSUME NEW id \in Ids
  PROVE  /\ Life(id)!Unfired = Wire!Unfired /\ Life(id)!LaneFired = Wire!LaneFired
         /\ \A ln : Life(id)!LaneCleared(ln) = Wire!LaneCleared(ln)
         /\ \A ln : Life(id)!LaneAtRest(ln) = Wire!LaneAtRest(ln)
         /\ \A ln, state : Life(id)!LaneResolved(ln, state) = Wire!LaneResolved(ln, state)
BY DEF Wire!Unfired, Wire!LaneFired, Wire!LaneCleared, Wire!LaneAtRest, Wire!LaneResolved,
       Life!Unfired, Life!LaneFired, Life!LaneCleared, Life!LaneAtRest, Life!LaneResolved

LEMMA InitTypes == Init => DeskTypes
<1> SUFFICES ASSUME Init PROVE DeskTypes
  OBVIOUS
<1>1. Resting \in Workers /\ WorkerFine(Resting)
  BY DEF Resting, Workers, WorkerFine, InCall, None
<1>2. WorkersOK
  BY <1>1 DEF Init, WorkersOK
<1>3. EngineOK
  BY DEF Init, EngineOK
<1>4. \A id \in Ids : NewCard(id) \in Cards
  BY DEF NewCard, Cards, Confirmations
<1>5. \A id \in Ids : id \in Unavailable => ~NewCard(id).fire
  BY DEF NewCard, Available
<1>6. WindowOK
  <2>1. card \in [Ids -> Cards] /\ \A id \in Unavailable : ~card[id].fire
    BY <1>4, <1>5, DeskAssumption DEF Init
  <2>2. lane \in [Ids -> Lanes]
    BY LanesKept, LifeIsWire DEF Init
  <2>3. queue \in Seq(Messages) /\ observed \in [States -> Nat] /\ gestures \in 0..MaxGestures
    BY DeskAssumption DEF Init
  <2> QED
    BY <2>1, <2>2, <2>3 DEF Init, WindowOK
<1>7. StageFine(NoStage)
  BY LanesKept DEF StageFine, NoStage, Stages, NoMail
<1> QED
  BY <1>2, <1>3, <1>6, <1>7 DEF Init, DeskTypes

LEMMA SpawnDoes ==
  ASSUME NEW w, Spawn(w)
  PROVE  \E t \in Threads : worker[t].at = "idle" /\ worker' = [worker EXCEPT ![t] = w]
BY DEF Spawn

(* One worker goes on, the others stay.                                    *)
LEMMA OneWorker ==
  ASSUME WorkersOK, NEW t \in Threads, NEW w, WorkerFine(w), worker' = [worker EXCEPT ![t] = w]
  PROVE  WorkersOK'
BY DEF WorkersOK, WorkerFine

LEMMA SpawnOK ==
  ASSUME WorkersOK, NEW w, WorkerFine(w), Spawn(w)
  PROVE  WorkersOK'
BY SpawnDoes, OneWorker

LEMMA RestingFine == WorkerFine(Resting)
BY DEF Resting, Workers, WorkerFine, InCall, None

LEMMA ClickWorkers ==
  ASSUME DeskTypes, Click
  PROVE  WorkersOK'
<1> USE DEF DeskTypes
<1>1. ASSUME NEW id \in Ids, Fire(id) PROVE WorkersOK'
  <2> DEFINE w == [Resting EXCEPT !.at = "call", !.of = "card", !.id = id]
  <2>1. id \in Available
    BY <1>1 DEF Fire, WindowOK, Available
  <2>2. <<>> \in Seq(Ids) /\ <<>> \in Seq(Available)
    OBVIOUS
  <2>3. WorkerFine(w)
    BY <2>1, <2>2 DEF Resting, Workers, WorkerFine, InCall, None
  <2> QED
    BY <1>1, <2>3, SpawnOK DEF Fire
<1>2. CASE StartRunAll
  <2> DEFINE w == [Resting EXCEPT !.at = "loop", !.of = "all", !.todo = RunAllDeck]
  <2>1. RunAllDeck \in Seq(Available) /\ RunAllDeck \in Seq(Ids)
    BY DecksOfIds, SeqMonotonic DEF Available
  <2>2. WorkerFine(w)
    BY <2>1 DEF Resting, Workers, WorkerFine, InCall, None
  <2> QED
    BY <1>2, <2>2, SpawnOK DEF StartRunAll
<1>3. CASE StageFire
  <2> DEFINE id == stage.deck[stage.index]
             w == [Resting EXCEPT !.at = "call", !.of = "stage", !.show = stage.show, !.id = id]
  <2>1. id \in Ids /\ stage.show \in Nat
    BY <1>3 DEF StageFire, MayFireStage, OnTrigger, StageFine, Stages
  <2> HIDE DEF id
  <2>2. <<>> \in Seq(Ids) /\ <<>> \in Seq(Available)
    OBVIOUS
  <2>3. WorkerFine(w)
    BY <2>1, <2>2 DEF Resting, Workers, WorkerFine, InCall, None
  <2>4. Spawn(w)
    BY <1>3 DEF StageFire, id
  <2> QED
    BY <2>3, <2>4, SpawnOK
<1>4. CASE UNCHANGED worker
  BY <1>4 DEF WorkersOK
<1> QED
  BY <1>1, <1>2, <1>3, <1>4 DEF Click, CycleConfirmed, StopRunAll, StageOpen, StageClose, StageGoto

LEMMA WorkWorkers ==
  ASSUME DeskTypes, NEW t \in Threads, Work(t)
  PROVE  WorkersOK'
<1> DEFINE w == worker[t]
<1>0. WorkersOK /\ WorkerFine(w) /\ EngineOK
  BY DEF DeskTypes, WorkersOK
<1>1. CASE RunAllTurn(t)
  <2>1. CASE MustEnd(w)
    BY <1>0, <1>1, <2>1, OneWorker, RestingFine DEF RunAllTurn
  <2>2. CASE ~MustEnd(w)
    <3> DEFINE v == [w EXCEPT !.at = "call", !.id = Head(w.todo), !.todo = Tail(w.todo)]
    <3>1. worker' = [worker EXCEPT ![t] = v] /\ w.at = "loop"
      BY <1>0, <1>1, <2>2 DEF RunAllTurn, WorkersOK
    <3>2. w.todo \in Seq(Available) /\ w.todo # <<>>
      BY <1>0, <2>2 DEF WorkerFine, MustEnd
    <3>3. Head(w.todo) \in Available /\ Tail(w.todo) \in Seq(Available)
      BY <3>2
    <3>4. Tail(w.todo) \in Seq(Ids)
      BY <3>3, SeqMonotonic DEF Available
    <3>5. WorkerFine(v)
      BY <1>0, <3>1, <3>3, <3>4 DEF WorkerFine, Workers, InCall, Available, None
    <3> QED
      BY <1>0, <3>1, <3>5, OneWorker
  <2> QED
    BY <2>1, <2>2
<1>2. CASE RunRefused(t)
  <2> DEFINE state == IF w.id \in Declined THEN "invalid" ELSE "error"
  <2>1. state \in States
    BY DEF States
  <2>2. w.at = "call" /\ worker' = [worker EXCEPT ![t] = [w EXCEPT !.at = "record", !.state = state]]
    BY <1>2 DEF RunRefused, Begins
  <2> HIDE DEF state
  <2>3. WorkerFine([w EXCEPT !.at = "record", !.state = state])
    BY <1>0, <2>1, <2>2 DEF WorkerFine, Workers, InCall
  <2> QED
    BY <1>0, <2>2, <2>3, OneWorker
<1>3. CASE RunBegins(t)
  <2>1. w.at = "call" /\ w.seq = 0
    BY <1>0, <1>3 DEF RunBegins, Begins, WorkerFine
  <2>2. WorkerFine([w EXCEPT !.at = "wire"])
    BY <1>0, <2>1 DEF WorkerFine, Workers, InCall
  <2> QED
    BY <1>0, <1>3, <2>2, OneWorker DEF RunBegins
<1>4. CASE RunReturns(t)
  <2>1. PICK state \in Outcomes[w.id] : worker' = [worker EXCEPT ![t] = [w EXCEPT !.at = "record", !.state = state]]
    BY <1>4 DEF RunReturns
  <2>2. w.at = "wire" /\ w.id \in Ids
    BY <1>0, <1>4 DEF RunReturns, WorkerFine, InCall
  <2>3. state \in States
    BY <2>1, <2>2, DeskAssumption DEF States
  <2>4. WorkerFine([w EXCEPT !.at = "record", !.state = state])
    BY <1>0, <2>2, <2>3 DEF WorkerFine, Workers, InCall
  <2> QED
    BY <1>0, <2>1, <2>4, OneWorker
<1>5. CASE RunRaises(t)
  <2>1. w.at = "wire" /\ worker' = [worker EXCEPT ![t] = [w EXCEPT !.at = "put", !.state = "error"]]
    BY <1>5 DEF RunRaises
  <2>2. WorkerFine([w EXCEPT !.at = "put", !.state = "error"])
    BY <1>0, <2>1 DEF WorkerFine, Workers, InCall, States
  <2> QED
    BY <1>0, <2>1, <2>2, OneWorker
<1>6. CASE RunRecorded(t)
  <2> DEFINE seq == Len(records) + 1
  <2>1. w.at = "record" /\ seq \in Nat
    BY <1>0, <1>6 DEF RunRecorded, EngineOK
  <2>2. worker' = [worker EXCEPT ![t] = [w EXCEPT !.at = "put", !.seq = seq]]
    BY <1>6 DEF RunRecorded
  <2> HIDE DEF seq
  <2>3. WorkerFine([w EXCEPT !.at = "put", !.seq = seq])
    BY <1>0, <2>1 DEF WorkerFine, Workers, InCall
  <2> QED
    BY <1>0, <2>2, <2>3, OneWorker
<1>7. CASE PutResult(t)
  <2>1. CASE w.of = "all"
    <3> DEFINE v == [Resting EXCEPT !.at = "loop", !.of = "all", !.todo = w.todo]
    <3>1. worker' = [worker EXCEPT ![t] = v]
      BY <1>7, <2>1 DEF PutResult
    <3>2. WorkerFine(v)
      BY <1>0 DEF WorkerFine, Resting, Workers, InCall, None
    <3> QED
      BY <1>0, <3>1, <3>2, OneWorker
  <2>2. CASE w.of # "all"
    BY <1>0, <1>7, <2>2, OneWorker, RestingFine DEF PutResult
  <2> QED
    BY <2>1, <2>2
<1>8. CASE PutOutcome(t)
  BY <1>0, <1>8, OneWorker, RestingFine DEF PutOutcome
<1> QED
  BY <1>1, <1>2, <1>3, <1>4, <1>5, <1>6, <1>7, <1>8 DEF Work

LEMMA EngineStep ==
  ASSUME DeskTypes, Next
  PROVE  EngineOK'
<1> USE DEF DeskTypes
<1>1. ASSUME NEW id \in Ids, CycleConfirmed(id) PROVE EngineOK'
  <2> DEFINE k == card[id].seq
             mark == ConfirmCycle(card[id].confirmed)
  <2>1. mark \in Confirmations
    BY DEF WindowOK, Cards, Confirmations, ConfirmCycle
  <2>2. records' = [records EXCEPT ![k] = [records[k] EXCEPT !.confirmed = mark]]
    BY <1>1 DEF CycleConfirmed
  <2> HIDE DEF k, mark
  <2>3. records' \in Seq(Records)
    <3>1. CASE k \in 1..Len(records)
      <4>1. records[k] \in Records
        BY <3>1 DEF EngineOK
      <4>2. [records[k] EXCEPT !.confirmed = mark] \in Records
        BY <2>1, <4>1 DEF Records
      <4> QED
        BY <2>2, <3>1, <4>2, ExceptSeq DEF EngineOK
    <3>2. CASE k \notin 1..Len(records)
      <4>1. DOMAIN records = 1..Len(records) /\ records = [i \in DOMAIN records |-> records[i]]
        BY DEF EngineOK
      <4>2. records' = [i \in DOMAIN records |-> records[i]]
        BY <2>2, <3>2, <4>1
      <4> QED
        BY <4>1, <4>2 DEF EngineOK
    <3> QED
      BY <3>1, <3>2
  <2> QED
    BY <1>1, <2>3 DEF CycleConfirmed, EngineOK
<1>2. ASSUME NEW t \in Threads, RunRecorded(t) PROVE EngineOK'
  <2> DEFINE w == worker[t]
  <2>1. WorkerFine(w) /\ w \in Workers /\ w.at = "record"
    BY <1>2 DEF RunRecorded, WorkersOK, WorkerFine
  <2>2. w.id \in Ids /\ w.of \in {"card", "all", "stage"} /\ w.state \in States /\ w.show \in Nat
    BY <2>1 DEF WorkerFine, Workers, InCall
  <2>3. [id |-> w.id, state |-> w.state, confirmed |-> "unset"] \in Records
    BY <2>2 DEF Records, Confirmations
  <2>4. [of |-> w.of, show |-> w.show, id |-> w.id, state |-> w.state, seq |-> Len(records) + 1] \in Entries
    BY <2>2 DEF Entries, EngineOK
  <2> QED
    BY <1>2, <2>3, <2>4 DEF RunRecorded, Over, EngineOK
<1>3. ASSUME NEW t \in Threads, RunRaises(t) PROVE EngineOK'
  <2> DEFINE w == worker[t]
  <2>1. WorkerFine(w) /\ w \in Workers /\ w.at = "wire"
    BY <1>3 DEF RunRaises, WorkersOK, WorkerFine
  <2>2. w.id \in Ids /\ w.of \in {"card", "all", "stage"} /\ w.show \in Nat
    BY <2>1 DEF WorkerFine, Workers, InCall
  <2>3. [of |-> w.of, show |-> w.show, id |-> w.id, state |-> "error", seq |-> 0] \in Entries
    BY <2>2 DEF Entries, States
  <2> QED
    BY <1>3, <2>3 DEF RunRaises, Over, EngineOK
<1>4. ASSUME NEW t \in Threads, UNCHANGED <<records, ended>>, runLock' \in {runLock, t, NoThread}
      PROVE  EngineOK'
  BY <1>4 DEF EngineOK
<1>5. CASE UNCHANGED engineVars
  BY <1>5 DEF engineVars, EngineOK
<1>6. ASSUME NEW t \in Threads, Work(t) PROVE EngineOK'
  BY <1>2, <1>3, <1>4, <1>5, <1>6
     DEF Work, RunAllTurn, RunRefused, RunBegins, Begins, RunReturns, PutResult, PutOutcome
<1>7. CASE Click
  BY <1>1, <1>5, <1>7 DEF Click, Fire, StartRunAll, StopRunAll, StageOpen, StageClose, StageGoto,
     StageFire, StageStep
<1> QED
  BY <1>5, <1>6, <1>7 DEF Next, PumpOnce, ArmLane, SetResult, RunAllDone, Pump, StagePoll, StageStep,
     LaneFrame, StageFrame

(* The presenter's stage.                                                  *)
LEMMA RenderedFine ==
  ASSUME NEW st, StageFine(st)
  PROVE  StageFine(Rendered(st))
<1>1. CASE OnTrigger(st)
  <2> DEFINE id == st.deck[st.index]
  <2>1. id \in Ids
    BY <1>1 DEF OnTrigger, StageFine, Stages
  <2>2. Rendered(st) = [st EXCEPT !.word = st.results[id]]
    BY <1>1 DEF Rendered
  <2> HIDE DEF id
  <2> QED
    BY <2>1, <2>2 DEF StageFine, Stages
<1>2. CASE ~OnTrigger(st)
  <2>1. Rendered(st) = [st EXCEPT !.word = None, !.lane = Wire!LaneCleared(st.lane)]
    BY <1>2 DEF Rendered
  <2>2. Wire!LaneCleared(st.lane) \in Lanes
    BY LanesKept DEF StageFine, Stages
  <2> QED
    BY <2>1, <2>2 DEF StageFine, Stages
<1> QED
  BY <1>1, <1>2

LEMMA StageSteps ==
  ASSUME DeskTypes, Next
  PROVE  StageFine(stage')
<1> USE DEF DeskTypes
<1>0. StageFine(NoStage) /\ stage.show \in Nat
  BY LanesKept DEF StageFine, NoStage, Stages, NoMail
<1>1. CASE StageOpen
  <2>1. PICK deck \in StageDecks :
          stage' = Rendered([NoStage EXCEPT !.open = TRUE, !.show = stage.show + 1, !.deck = deck])
    BY <1>1 DEF StageOpen, StageStep
  <2>2. deck \in Seq(Ids) /\ Len(deck) \in Nat
    BY DecksOfIds
  <2>3. NoStage.index = 1
    BY DEF NoStage
  <2> DEFINE show == stage.show + 1
             st == [NoStage EXCEPT !.open = TRUE, !.show = show, !.deck = deck]
  <2>4. show \in Nat
    BY <1>0
  <2> HIDE DEF show
  <2>5. st \in Stages
    BY <1>0, <2>2, <2>4 DEF StageFine, Stages
  <2>6. st.deck = deck /\ st.index = 1
    BY <2>3 DEF NoStage
  <2>7. StageFine(st)
    <3> HIDE DEF st
    <3> QED
      BY <2>2, <2>5, <2>6 DEF StageFine
  <2> QED
    BY <2>1, <2>7, RenderedFine DEF show
<1>2. CASE StageClose
  <2>1. stage' = [NoStage EXCEPT !.show = stage.show]
    BY <1>2 DEF StageClose, StageStep
  <2> QED
    BY <1>0, <2>1 DEF StageFine, Stages
<1>3. ASSUME NEW delta \in {-1, 1}, StageGoto(stage.index + delta) PROVE StageFine(stage')
  <2> DEFINE i == stage.index + delta
  <2>1. i \in 1..(Len(stage.deck) + 1) /\ stage' = Rendered(SteppedTo(stage, i))
    BY <1>3 DEF StageGoto, StageStep
  <2>2. Wire!LaneCleared(stage.lane) \in Lanes
    BY LanesKept DEF StageFine, Stages
  <2>3. i \in Nat \ {0} /\ i <= Len(stage.deck) + 1
    BY <2>1 DEF StageFine, Stages
  <2> HIDE DEF i
  <2>4. StageFine(SteppedTo(stage, i))
    BY <2>2, <2>3 DEF SteppedTo, StageFine, Stages
  <2> QED
    BY <2>1, <2>4, RenderedFine
<1>4. CASE StageFire
  <2>1. stage' = Rendered([stage EXCEPT !.busy = TRUE, !.lane = Wire!LaneFired])
    BY <1>4 DEF StageFire, StageStep
  <2>2. StageFine([stage EXCEPT !.busy = TRUE, !.lane = Wire!LaneFired])
    BY LanesKept DEF StageFine, Stages
  <2> QED
    BY <2>1, <2>2, RenderedFine
<1>5. CASE StagePoll
  <2> DEFINE back == stage.mail
             st == [stage EXCEPT !.mail = NoMail, !.busy = FALSE, !.results[back.id] = back.state,
                                 !.lane = Wire!LaneResolved(stage.lane, back.state)]
  <2>1. stage' = Rendered(st)
    BY <1>5 DEF StagePoll, StageStep
  <2>2. back.id \in Ids /\ back.state \in States
    BY <1>5 DEF StagePoll, StageFine, Stages
  <2>3. Wire!LaneResolved(stage.lane, back.state) \in Lanes
    BY <2>2, LanesKept DEF StageFine, Stages
  <2>4. StageFine(st)
    BY <2>2, <2>3 DEF StageFine, Stages
  <2> QED
    BY <2>1, <2>4, RenderedFine
<1>6. CASE StageFrame
  <2>1. Wire!LaneAtRest(stage.lane) \in Lanes
    BY LanesKept DEF StageFine, Stages
  <2>2. stage' = [stage EXCEPT !.lane = Wire!LaneAtRest(stage.lane)]
    BY <1>6 DEF StageFrame
  <2> QED
    BY <2>1, <2>2 DEF StageFine, Stages
<1>7. ASSUME NEW t \in Threads, PutOutcome(t) PROVE StageFine(stage')
  <2> DEFINE w == worker[t]
  <2>1. w.id \in Ids /\ w.state \in States
    BY <1>7 DEF PutOutcome, WorkersOK, WorkerFine, InCall
  <2>2. stage' \in {stage, [stage EXCEPT !.mail = [id |-> w.id, state |-> w.state]]}
    BY <1>7 DEF PutOutcome
  <2> QED
    BY <2>1, <2>2 DEF StageFine, Stages
<1>8. CASE UNCHANGED stage
  BY <1>8
<1>9. ASSUME NEW t \in Threads, Work(t) PROVE StageFine(stage')
  BY <1>7, <1>8, <1>9
     DEF Work, RunAllTurn, RunRefused, RunBegins, Begins, RunReturns, RunRaises, RunRecorded, PutResult
<1>10. CASE Click
  BY <1>1, <1>2, <1>3, <1>4, <1>8, <1>10 DEF Click, Fire, CycleConfirmed, StartRunAll, StopRunAll
<1> QED
  BY <1>5, <1>6, <1>8, <1>9, <1>10 DEF Next, PumpOnce, ArmLane, SetResult, RunAllDone, Pump, LaneFrame

(* The main window.                                                        *)
LEMMA QueueStep ==
  ASSUME DeskTypes, Next
  PROVE  queue' \in Seq(Messages)
<1> USE DEF DeskTypes
<1>1. queue \in Seq(Messages)
  BY DEF WindowOK
<1>2. ASSUME NEW t \in Threads, RunAllTurn(t) PROVE queue' \in Seq(Messages)
  <2> DEFINE w == worker[t]
  <2>1. [do |-> "done"] \in Messages
    BY DEF Messages
  <2>2. ASSUME ~MustEnd(w) PROVE [do |-> "arm", id |-> Head(w.todo)] \in Messages
    <3>1. w.todo \in Seq(Available) /\ w.todo # <<>>
      BY <2>2 DEF WorkersOK, WorkerFine, MustEnd
    <3>2. Head(w.todo) \in Available
      BY <3>1
    <3> QED
      BY <3>2 DEF Messages
  <2>3. CASE MustEnd(w)
    <3>1. queue' = Append(queue, [do |-> "done"])
      BY <1>2, <2>3 DEF RunAllTurn
    <3> QED
      BY <1>1, <2>1, <3>1
  <2>4. CASE ~MustEnd(w)
    <3> DEFINE arm == [do |-> "arm", id |-> Head(w.todo)]
    <3>1. queue' = Append(queue, arm) /\ arm \in Messages
      BY <1>2, <2>2, <2>4 DEF RunAllTurn
    <3> HIDE DEF arm
    <3> QED
      BY <1>1, <3>1
  <2> QED
    BY <2>3, <2>4
<1>3. ASSUME NEW t \in Threads, PutResult(t) PROVE queue' \in Seq(Messages)
  <2> DEFINE w == worker[t]
  <2>1. WorkerFine(w) /\ w.at = "put" /\ w.of # "stage"
    BY <1>3 DEF PutResult, WorkersOK
  <2>2. w.id \in Available /\ w.state \in States /\ w.seq \in Nat
    BY <2>1 DEF WorkerFine, Workers, InCall
  <2>3. [do |-> "result", id |-> w.id, state |-> w.state, seq |-> w.seq] \in Messages
    BY <2>2 DEF Messages
  <2>4. ResultOf(w) \in Seq(Messages)
    BY <2>3 DEF ResultOf
  <2> QED
    BY <1>1, <1>3, <2>4, ConcatProperties DEF PutResult
<1>4. CASE UNCHANGED queue
  BY <1>1, <1>4
<1>5. ASSUME NEW do, Pump(do) PROVE queue' \in Seq(Messages)
  BY <1>1, <1>5 DEF Pump
<1>6. ASSUME NEW t \in Threads, Work(t) PROVE queue' \in Seq(Messages)
  BY <1>2, <1>3, <1>4, <1>6
     DEF Work, RunRefused, RunBegins, Begins, RunReturns, RunRaises, RunRecorded, PutOutcome
<1>7. CASE Click
  BY <1>4, <1>7 DEF Click, Fire, CycleConfirmed, StartRunAll, StopRunAll, StageOpen, StageClose, StageGoto,
     StageFire, StageStep
<1> QED
  BY <1>4, <1>5, <1>6, <1>7 DEF Next, PumpOnce, ArmLane, SetResult, RunAllDone, StagePoll, StageStep,
     LaneFrame, StageFrame

(* What comes out of the queue.                                            *)
LEMMA HeadOfQueue ==
  ASSUME queue \in Seq(Messages), queue # <<>>
  PROVE  /\ Head(queue) \in Messages
         /\ Head(queue).do \in {"arm", "result"} => Head(queue).id \in Available
         /\ Head(queue).do = "result" => Head(queue).state \in States /\ Head(queue).seq \in Nat
<1>1. Head(queue) \in Messages
  OBVIOUS
<1> QED
  BY <1>1 DEF Messages

CardsOK ==
  /\ card \in [Ids -> Cards] /\ \A id \in Unavailable : ~card[id].fire
  /\ lane \in [Ids -> Lanes]
  /\ observed \in [States -> Nat]

LEMMA CardsStep ==
  ASSUME DeskTypes, Next
  PROVE  CardsOK'
<1> USE DEF DeskTypes
<1>1. CardsOK
  BY DEF CardsOK, WindowOK
<1>2. ASSUME NEW id \in Ids, Fire(id) PROVE CardsOK'
  <2>1. card' = [card EXCEPT ![id] = [card[id] EXCEPT !.fire = FALSE, !.status = "running"]]
    BY <1>1, <1>2 DEF Fire, CardsOK
  <2>2. card' \in [Ids -> Cards] /\ \A u \in Unavailable : ~card'[u].fire
    BY <1>1, <2>1, DeskAssumption DEF CardsOK, Cards
  <2>3. lane' \in [Ids -> Lanes]
    BY <1>1, <1>2, LanesKept, LifeIsWire DEF Fire, CardsOK
  <2> QED
    BY <1>1, <1>2, <2>2, <2>3 DEF Fire, CardsOK
<1>3. CASE StartRunAll
  <2>1. card' = [id \in Ids |-> IF id \in Available THEN [card[id] EXCEPT !.fire = FALSE, !.status = "queued"]
                               ELSE card[id]]
    BY <1>3 DEF StartRunAll
  <2>2. card' \in [Ids -> Cards] /\ \A u \in Unavailable : ~card'[u].fire
    BY <1>1, <2>1, DeskAssumption DEF CardsOK, Cards, Available
  <2> QED
    BY <1>1, <1>3, <2>2 DEF StartRunAll, CardsOK
<1>4. ASSUME NEW id \in Ids, CycleConfirmed(id) PROVE CardsOK'
  <2> DEFINE mark == ConfirmCycle(card[id].confirmed)
  <2>1. mark \in Confirmations
    BY <1>1 DEF CardsOK, Cards, Confirmations, ConfirmCycle
  <2>2. card' = [card EXCEPT ![id] = [card[id] EXCEPT !.confirmed = mark]]
    BY <1>1, <1>4 DEF CycleConfirmed, CardsOK
  <2> HIDE DEF mark
  <2>3. card' \in [Ids -> Cards] /\ \A u \in Unavailable : ~card'[u].fire
    BY <1>1, <2>1, <2>2, DeskAssumption DEF CardsOK, Cards
  <2> QED
    BY <1>1, <1>4, <2>3 DEF CycleConfirmed, CardsOK
<1>5. CASE ArmLane
  <2> DEFINE id == Head(queue).id
  <2>1. id \in Ids
    BY <1>5, HeadOfQueue DEF ArmLane, Pump, WindowOK, Available
  <2>2. /\ lane' = [lane EXCEPT ![id] = Life(id)!LaneFired]
        /\ card' = [card EXCEPT ![id] = [card[id] EXCEPT !.status = "running"]] /\ UNCHANGED observed
    BY <1>1, <1>5, <2>1 DEF ArmLane, CardsOK
  <2> HIDE DEF id
  <2>3. card' \in [Ids -> Cards] /\ \A u \in Unavailable : ~card'[u].fire
    BY <1>1, <2>1, <2>2, DeskAssumption DEF CardsOK, Cards
  <2>4. lane' \in [Ids -> Lanes]
    BY <1>1, <2>1, <2>2, LanesKept, LifeIsWire DEF CardsOK
  <2> QED
    BY <1>1, <2>2, <2>3, <2>4 DEF CardsOK
<1>6. CASE SetResult
  <2> DEFINE m == Head(queue)
             c == card[m.id]
             now == [status |-> m.state, fire |-> TRUE, seq |-> m.seq,
                     confirmed |-> IF m.seq # 0 THEN "unset" ELSE c.confirmed]
  <2>1. m.id \in Available /\ m.id \in Ids /\ m.state \in States /\ m.seq \in Nat
    BY <1>6, HeadOfQueue DEF SetResult, Pump, WindowOK, Available
  <2>2. /\ card' = [card EXCEPT ![m.id] = now]
        /\ lane' = [lane EXCEPT ![m.id] = Life(m.id)!LaneResolved(lane[m.id], m.state)]
        /\ observed' = [observed EXCEPT ![m.state] = observed[m.state] + 1]
    BY <1>1, <1>6 DEF SetResult, SeqNow, CardsOK
  <2>3. now \in Cards
    BY <1>1, <2>1 DEF CardsOK, Cards, Confirmations
  <2> HIDE DEF m, now
  <2>4. card' \in [Ids -> Cards] /\ \A u \in Unavailable : ~card'[u].fire
    BY <1>1, <2>1, <2>2, <2>3, DeskAssumption DEF CardsOK, Available
  <2>5. lane' \in [Ids -> Lanes]
    BY <1>1, <2>1, <2>2, LanesKept, LifeIsWire DEF CardsOK
  <2>6. observed' \in [States -> Nat]
    BY <1>1, <2>1, <2>2 DEF CardsOK
  <2> QED
    BY <2>4, <2>5, <2>6 DEF CardsOK
<1>7. CASE RunAllDone
  <2>1. /\ card' = [id \in Ids |-> IF id \in Available THEN [card[id] EXCEPT !.fire = TRUE] ELSE card[id]]
        /\ lane' = [id \in Ids |-> IF id \in Available /\ lane[id].rest = None
                                   THEN Life(id)!LaneCleared(lane[id]) ELSE lane[id]]
        /\ UNCHANGED observed
    BY <1>7 DEF RunAllDone, FireableCards, FireAgain
  <2>2. card' \in [Ids -> Cards] /\ \A u \in Unavailable : ~card'[u].fire
    BY <1>1, <2>1, DeskAssumption DEF CardsOK, Cards, Available
  <2>3. lane' \in [Ids -> Lanes]
    BY <1>1, <2>1, LanesKept, LifeIsWire DEF CardsOK
  <2> QED
    BY <1>1, <2>1, <2>2, <2>3 DEF CardsOK
<1>8. ASSUME NEW id \in Ids, LaneFrame(id) PROVE CardsOK'
  BY <1>1, <1>8, LanesKept, LifeIsWire DEF LaneFrame, CardsOK
<1>9. CASE UNCHANGED <<card, lane, observed>>
  BY <1>1, <1>9 DEF CardsOK
<1>10. ASSUME NEW t \in Threads, Work(t) PROVE CardsOK'
  BY <1>9, <1>10 DEF Work, RunAllTurn, RunRefused, RunBegins, Begins, RunReturns, RunRaises, RunRecorded,
     PutResult, PutOutcome, windowVars
<1>11. CASE Click
  BY <1>2, <1>3, <1>4, <1>9, <1>11 DEF Click, StopRunAll, StageOpen, StageClose, StageGoto, StageFire,
     StageStep, windowVars
<1> QED
  BY <1>5, <1>6, <1>7, <1>8, <1>9, <1>10, <1>11 DEF Next, PumpOnce, StagePoll, StageStep, StageFrame, windowVars

LEMMA FlagsStep ==
  ASSUME DeskTypes, Next
  PROVE  running' \in BOOLEAN /\ stop' \in BOOLEAN /\ late' \in Nat /\ gestures' \in 0..MaxGestures
<1>1. running \in BOOLEAN /\ stop \in BOOLEAN /\ late \in Nat /\ gestures \in 0..MaxGestures
  BY DEF DeskTypes, WindowOK
<1>2. Gesture => gestures' \in 0..MaxGestures
  BY <1>1, DeskAssumption DEF Gesture
<1>3. ASSUME NEW t \in Threads, Work(t) PROVE UNCHANGED <<running, stop, gestures>> /\ late' \in Nat
  BY <1>1, <1>3 DEF Work, RunAllTurn, RunRefused, RunBegins, Begins, RunReturns, RunRaises, RunRecorded,
     PutResult, PutOutcome, windowVars
<1>4. CASE Click
  <2>1. CASE StageClose \/ StageFire
    BY <1>1, <1>2, <2>1 DEF StageClose, StageFire, StageStep, windowVars
  <2>2. CASE StageOpen
    BY <1>1, <1>2, <2>2 DEF StageOpen, StageStep, windowVars
  <2>3. ASSUME NEW i, StageGoto(i)
        PROVE  UNCHANGED <<running, stop, late>> /\ gestures' \in 0..MaxGestures
    BY <1>2, <2>3 DEF StageGoto, StageStep, windowVars
  <2>4. CASE StartRunAll \/ StopRunAll
    <3>1. running' \in BOOLEAN /\ stop' \in BOOLEAN
      BY <1>1, <2>4, Zenon DEF StartRunAll, StopRunAll
    <3>2. (late' = late \/ late' = 0) /\ Gesture
      BY <2>4 DEF StartRunAll, StopRunAll
    <3> QED
      BY <1>1, <1>2, <3>1, <3>2
  <2>5. ASSUME NEW id \in Ids, Fire(id) \/ CycleConfirmed(id)
        PROVE  UNCHANGED <<running, stop, late>> /\ gestures' \in 0..MaxGestures
    BY <1>2, <2>5 DEF Fire, CycleConfirmed
  <2> QED
    BY <1>1, <1>4, <2>1, <2>2, <2>3, <2>4, <2>5 DEF Click
<1>5. ASSUME ~Click, \A t \in Threads : ~Work(t)
      PROVE  UNCHANGED <<stop, late, gestures>> /\ running' \in {running, FALSE}
  BY <1>5 DEF Next, PumpOnce, ArmLane, SetResult, RunAllDone, Pump, StagePoll, StageStep,
     LaneFrame, StageFrame, windowVars
<1> QED
  BY <1>1, <1>3, <1>4, <1>5

LEMMA TypesStep ==
  ASSUME DeskTypes, [Next]_vars
  PROVE  DeskTypes'
<1>1. CASE UNCHANGED vars
  BY <1>1 DEF vars, engineVars, windowVars, DeskTypes, WorkersOK, EngineOK, WindowOK
<1>2. CASE Next
  <2>1. WorkersOK'
    <3>1. UNCHANGED worker => WorkersOK'
      BY DEF DeskTypes, WorkersOK
    <3> QED
      BY <1>2, <3>1, ClickWorkers, WorkWorkers DEF Next, PumpOnce, ArmLane, SetResult, RunAllDone, Pump,
         StagePoll, StageStep, LaneFrame, StageFrame
  <2>2. WindowOK'
    BY <1>2, QueueStep, CardsStep, FlagsStep DEF WindowOK, CardsOK
  <2> QED
    BY <1>2, <2>1, <2>2, EngineStep, StageSteps DEF DeskTypes
<1> QED
  BY <1>1, <1>2

(* Everything the two windows hold is what the code can hold there, and no *)
(* card whose trigger is gated or not configured ever has a live Fire.     *)
THEOREM WindowsWellTyped == Spec => []TypeOK
<1>1. Spec => []DeskTypes
  BY InitTypes, TypesStep, PTL DEF Spec
<1> QED
  BY <1>1, TypesGiveTypeOK, PTL

-----------------------------------------------------------------------------
(* Stop.                                                                   *)

LEMMA Appended ==
  ASSUME NEW S, NEW s \in Seq(S), NEW e \in S
  PROVE  /\ Append(s, e) \in Seq(S) /\ Len(Append(s, e)) = Len(s) + 1
         /\ DOMAIN Append(s, e) = DOMAIN s \cup {Len(s) + 1} /\ Len(s) + 1 \notin DOMAIN s
         /\ \A i \in DOMAIN s : Append(s, e)[i] = s[i]
         /\ Append(s, e)[Len(s) + 1] = e
OBVIOUS

LEMMA Shortened ==
  ASSUME NEW S, NEW s \in Seq(S), s # <<>>
  PROVE  /\ Tail(s) \in Seq(S) /\ 1 \in DOMAIN s /\ Head(s) = s[1]
         /\ \A i \in DOMAIN Tail(s) : i \in Nat /\ i + 1 \in DOMAIN s /\ i + 1 # 1 /\ Tail(s)[i] = s[i + 1]
         /\ \A i \in DOMAIN s : i \in Nat /\ (i # 1 => i - 1 \in DOMAIN Tail(s) /\ Tail(s)[i - 1] = s[i])
OBVIOUS

RunsAll(t) == worker[t].of = "all"

(* A run-all is on from the click to the message that says it is over: one *)
(* worker, and then one message.                                           *)
OneRunAll ==
  /\ \A t, u \in Threads : RunsAll(t) /\ RunsAll(u) => t = u
  /\ \A i, j \in DOMAIN queue : queue[i].do = "done" /\ queue[j].do = "done" => i = j
  /\ \A t \in Threads : RunsAll(t) => running /\ \A i \in DOMAIN queue : queue[i].do # "done"
  /\ \A i \in DOMAIN queue : queue[i].do = "done" => running

(* Once its worker has begun a call after Stop it is not about to again.   *)
StopInv ==
  /\ OneRunAll
  /\ late \in {0, 1}
  /\ late = 1 => stop /\ \A t \in Threads : RunsAll(t) => worker[t].at # "call"

(* A worker goes on without the run-all changing hands.                    *)
LEMMA StopWorker ==
  ASSUME DeskTypes, StopInv, NEW t \in Threads, NEW v, worker' = [worker EXCEPT ![t] = v],
         v.of = "all" => RunsAll(t) /\ (v.at # "call" \/ worker[t].at = "call"),
         UNCHANGED <<queue, running, stop, late>>
  PROVE  StopInv'
BY DEF DeskTypes, WorkersOK, StopInv, OneRunAll, RunsAll

LEMMA StopClick ==
  ASSUME DeskTypes, StopInv, Click
  PROVE  StopInv'
<1>1. CASE StartRunAll
  <2>1. \A t \in Threads : ~RunsAll(t)
    BY <1>1 DEF StartRunAll, StopInv, OneRunAll
  <2>2. PICK t \in Threads : worker' = [worker EXCEPT ![t] = [Resting EXCEPT !.at = "loop", !.of = "all",
                                                                   !.todo = RunAllDeck]]
    BY <1>1, SpawnDoes DEF StartRunAll
  <2>3. \A i \in DOMAIN queue : queue[i].do # "done"
    BY <1>1 DEF StartRunAll, StopInv, OneRunAll
  <2>4. UNCHANGED queue /\ running' = TRUE /\ late' = 0
    BY <1>1 DEF StartRunAll
  <2>5. \A u \in Threads : RunsAll(u)' => u = t
    BY <2>1, <2>2 DEF RunsAll, DeskTypes, WorkersOK
  <2> QED
    BY <2>3, <2>4, <2>5 DEF StopInv, OneRunAll
<1>2. CASE StopRunAll
  BY <1>2 DEF StopRunAll, StopInv, OneRunAll, RunsAll
<1>3. ASSUME NEW id \in Ids, Fire(id) PROVE StopInv'
  <2>1. PICK t \in Threads : worker' = [worker EXCEPT ![t] = [Resting EXCEPT !.at = "call", !.of = "card", !.id = id]]
    BY <1>3, SpawnDoes DEF Fire
  <2>2. UNCHANGED <<queue, running, stop, late>>
    BY <1>3 DEF Fire
  <2> QED
    BY <2>1, <2>2, StopWorker DEF Resting
<1>4. CASE StageFire
  <2>1. PICK t \in Threads : worker' = [worker EXCEPT ![t] = [Resting EXCEPT
             !.at = "call", !.of = "stage", !.show = stage.show, !.id = stage.deck[stage.index]]]
    BY <1>4, SpawnDoes DEF StageFire
  <2>2. UNCHANGED <<queue, running, stop, late>>
    BY <1>4 DEF StageFire, StageStep, windowVars
  <2> QED
    BY <2>1, <2>2, StopWorker DEF Resting
<1>5. CASE UNCHANGED <<worker, queue, running, stop, late>>
  BY <1>5 DEF StopInv, OneRunAll, RunsAll
<1> QED
  BY <1>1, <1>2, <1>3, <1>4, <1>5 DEF Click, CycleConfirmed, StageOpen, StageClose, StageGoto, StageStep, windowVars

LEMMA StopWork ==
  ASSUME DeskTypes, StopInv, NEW t \in Threads, Work(t)
  PROVE  StopInv'
<1> DEFINE w == worker[t]
<1>0. /\ worker \in [Threads -> Workers] /\ WorkerFine(w) /\ queue \in Seq(Messages)
      /\ running \in BOOLEAN /\ stop \in BOOLEAN
  BY DEF DeskTypes, WorkersOK, WindowOK
<1>1. CASE RunAllTurn(t)
  <2>1. RunsAll(t)
    BY <1>0, <1>1 DEF RunAllTurn, RunsAll, WorkerFine
  <2>2. UNCHANGED <<running, stop, late>>
    BY <1>1 DEF RunAllTurn, windowVars
  <2>3. CASE MustEnd(w)
    <3>1. queue' = Append(queue, [do |-> "done"]) /\ worker' = [worker EXCEPT ![t] = Resting]
      BY <1>1, <2>3 DEF RunAllTurn
    <3>2. \A u \in Threads : ~RunsAll(u)'
      BY <1>0, <2>1, <3>1 DEF RunsAll, StopInv, OneRunAll, Resting, None
    <3>3. [do |-> "done"] \in Messages
      BY DEF Messages
    <3>4. \A i \in DOMAIN queue' : queue'[i].do = "done" => i = Len(queue) + 1
      BY <1>0, <2>1, <3>1, <3>3, Appended DEF StopInv, OneRunAll
    <3> QED
      BY <2>1, <2>2, <3>2, <3>4 DEF StopInv, OneRunAll
  <2>4. CASE ~MustEnd(w)
    <3> DEFINE arm == [do |-> "arm", id |-> Head(w.todo)]
    <3>1. queue' = Append(queue, arm)
      BY <1>1, <2>4 DEF RunAllTurn
    <3>2. worker' = [worker EXCEPT ![t] = [w EXCEPT !.at = "call", !.id = Head(w.todo), !.todo = Tail(w.todo)]]
      BY <1>0, <1>1, <2>4 DEF RunAllTurn
    <3>3. \A u \in Threads : RunsAll(u)' = RunsAll(u)
      BY <1>0, <3>2 DEF RunsAll
    <3>4. \A i \in DOMAIN queue' : queue'[i].do # "done"
      <4>1. arm \in Messages
        BY <1>0, <2>4 DEF WorkerFine, MustEnd, Messages
      <4>2. arm.do # "done"
        OBVIOUS
      <4> HIDE DEF arm
      <4> QED
        BY <1>0, <2>1, <3>1, <4>1, <4>2, Appended DEF StopInv, OneRunAll
    <3>5. late = 0
      BY <2>4 DEF MustEnd, StopInv
    <3> QED
      BY <2>2, <3>3, <3>4, <3>5 DEF StopInv, OneRunAll
  <2> QED
    BY <2>3, <2>4
<1>2. CASE RunRefused(t) \/ RunBegins(t)
  <2>1. Begins(t) /\ UNCHANGED <<queue, running, stop>>
    BY <1>2 DEF RunRefused, RunBegins, Begins, windowVars
  <2>2. PICK v : worker' = [worker EXCEPT ![t] = v] /\ v.of = w.of /\ v.at \in {"record", "wire"}
    <3>1. CASE RunRefused(t)
      <4> DEFINE v == [w EXCEPT !.at = "record", !.state = IF w.id \in Declined THEN "invalid" ELSE "error"]
      <4>1. worker' = [worker EXCEPT ![t] = v]
        BY <1>0, <3>1 DEF RunRefused
      <4>2. v.of = w.of /\ v.at = "record"
        BY <1>0 DEF WorkerFine, Workers
      <4> QED
        BY <4>1, <4>2
    <3>2. CASE RunBegins(t)
      <4>1. worker' = [worker EXCEPT ![t] = [w EXCEPT !.at = "wire"]]
        BY <1>0, <3>2 DEF RunBegins
      <4>2. [w EXCEPT !.at = "wire"].of = w.of /\ [w EXCEPT !.at = "wire"].at = "wire"
        BY <1>0 DEF WorkerFine, Workers
      <4> QED
        BY <4>1, <4>2
    <3> QED
      BY <1>2, <3>1, <3>2
  <2>3. OneRunAll'
    BY <1>0, <2>1, <2>2 DEF StopInv, OneRunAll, RunsAll
  <2>4. CASE w.of = "all" /\ stop
    <3>1. late = 0 /\ late' = 1
      BY <2>1, <2>4 DEF Begins, StopInv, RunsAll
    <3>2. \A u \in Threads : RunsAll(u)' => worker'[u].at # "call"
      BY <1>0, <2>2, <2>4 DEF StopInv, OneRunAll, RunsAll
    <3> QED
      BY <2>1, <2>3, <2>4, <3>1, <3>2 DEF StopInv
  <2>5. CASE ~(w.of = "all" /\ stop)
    <3>1. late' = late
      BY <2>1, <2>5 DEF Begins, StopInv
    <3> QED
      BY <1>0, <2>1, <2>2, <2>3, <3>1 DEF StopInv, RunsAll
  <2> QED
    BY <2>4, <2>5
<1>3. CASE RunReturns(t) \/ RunRaises(t) \/ RunRecorded(t)
  <2>1. UNCHANGED <<queue, running, stop, late>>
    BY <1>3 DEF RunReturns, RunRaises, RunRecorded, windowVars
  <2>2. PICK v : worker' = [worker EXCEPT ![t] = v] /\ v.of = w.of /\ v.at # "call"
    <3>1. CASE RunReturns(t)
      <4>1. PICK state \in Outcomes[w.id] : worker' = [worker EXCEPT ![t] = [w EXCEPT !.at = "record", !.state = state]]
        BY <1>0, <3>1 DEF RunReturns
      <4> DEFINE v == [w EXCEPT !.at = "record", !.state = state]
      <4>2. v.of = w.of /\ v.at = "record"
        BY <1>0 DEF WorkerFine, Workers
      <4> QED
        BY <4>1, <4>2
    <3>2. CASE RunRaises(t)
      <4> DEFINE v == [w EXCEPT !.at = "put", !.state = "error"]
      <4>1. worker' = [worker EXCEPT ![t] = v]
        BY <1>0, <3>2 DEF RunRaises
      <4>2. v.of = w.of /\ v.at = "put"
        BY <1>0 DEF WorkerFine, Workers
      <4> QED
        BY <4>1, <4>2
    <3>3. CASE RunRecorded(t)
      <4> DEFINE v == [w EXCEPT !.at = "put", !.seq = Len(records) + 1]
      <4>1. worker' = [worker EXCEPT ![t] = v]
        BY <1>0, <3>3 DEF RunRecorded
      <4>2. v.of = w.of /\ v.at = "put"
        BY <1>0 DEF WorkerFine, Workers
      <4> QED
        BY <4>1, <4>2
    <3> QED
      BY <1>3, <3>1, <3>2, <3>3
  <2> QED
    BY <2>1, <2>2, StopWorker DEF RunsAll
<1>4. CASE PutResult(t)
  <2> DEFINE m == [do |-> "result", id |-> w.id, state |-> w.state, seq |-> w.seq]
  <2>1. queue' = Append(queue, m)
    BY <1>0, <1>4 DEF PutResult, ResultOf
  <2>2. m \in Messages /\ m.do # "done"
    BY <1>0, <1>4 DEF PutResult, WorkerFine, Workers, InCall, Messages
  <2> HIDE DEF m
  <2>3. PICK v : worker' = [worker EXCEPT ![t] = v] /\ (v.of = "all" => w.of = "all" /\ v.at = "loop")
    <3>1. Resting.of # "all" /\ [Resting EXCEPT !.at = "loop", !.of = "all", !.todo = w.todo].at = "loop"
      BY DEF Resting, None
    <3> QED
      BY <1>4, <3>1 DEF PutResult
  <2>4. \A i \in DOMAIN queue' : queue'[i].do = "done" => i \in DOMAIN queue /\ queue[i].do = "done"
    BY <1>0, <2>1, <2>2, Appended
  <2>5. UNCHANGED <<running, stop, late>>
    BY <1>4 DEF PutResult, windowVars
  <2> QED
    BY <1>0, <2>3, <2>4, <2>5 DEF StopInv, OneRunAll, RunsAll
<1>5. CASE PutOutcome(t)
  <2>1. worker' = [worker EXCEPT ![t] = Resting] /\ UNCHANGED <<queue, running, stop, late>>
    BY <1>5 DEF PutOutcome, windowVars
  <2> QED
    BY <2>1, StopWorker DEF Resting, None
<1> QED
  BY <1>1, <1>2, <1>3, <1>4, <1>5 DEF Work

LEMMA StopStep ==
  ASSUME DeskTypes, StopInv, [Next]_vars
  PROVE  StopInv'
<1>1. CASE UNCHANGED <<worker, queue, running, stop, late>>
  BY <1>1 DEF StopInv, OneRunAll, RunsAll
<1>2. ASSUME NEW do, Pump(do), IF do = "done" THEN running' = FALSE ELSE UNCHANGED running, UNCHANGED late
      PROVE  StopInv'
  <2>1. queue \in Seq(Messages) /\ queue # <<>> /\ queue' = Tail(queue) /\ Head(queue).do = do
    BY <1>2 DEF Pump, DeskTypes, WindowOK
  <2>2. UNCHANGED <<worker, stop>>
    BY <1>2 DEF Pump
  <2>3. CASE do = "done"
    <3>1. 1 \in DOMAIN queue /\ queue[1].do = "done"
      BY <2>1, <2>3, Shortened
    <3>2. \A i \in DOMAIN queue' : queue'[i].do # "done"
      BY <2>1, <3>1, Shortened DEF StopInv, OneRunAll
    <3>3. \A t \in Threads : ~RunsAll(t)
      BY <3>1 DEF StopInv, OneRunAll
    <3> QED
      BY <1>2, <2>2, <3>2, <3>3 DEF StopInv, OneRunAll, RunsAll
  <2>4. CASE do # "done"
    <3>1. \A i \in DOMAIN queue' : i \in Nat /\ i + 1 \in DOMAIN queue /\ queue'[i] = queue[i + 1]
      BY <2>1, Shortened
    <3>2. \A i, j \in DOMAIN queue' : queue'[i].do = "done" /\ queue'[j].do = "done" => i = j
      <4> SUFFICES ASSUME NEW i \in DOMAIN queue', NEW j \in DOMAIN queue',
                          queue'[i].do = "done", queue'[j].do = "done"
                   PROVE  i = j
        OBVIOUS
      <4>1. i + 1 = j + 1
        BY <3>1 DEF StopInv, OneRunAll
      <4> QED
        BY <3>1, <4>1
    <3> QED
      BY <1>2, <2>2, <2>4, <3>1, <3>2 DEF StopInv, OneRunAll, RunsAll
  <2> QED
    BY <2>3, <2>4
<1>3. CASE PumpOnce
  BY <1>2, <1>3 DEF PumpOnce, ArmLane, SetResult, RunAllDone, Pump
<1> QED
  BY <1>1, <1>3, StopClick, StopWork DEF Next, StagePoll, StageStep, LaneFrame, StageFrame, vars, windowVars

(* Once Stop is pressed, at most the trigger already on its way is fired:  *)
(* the run-all has one worker, which looks at the flag before each.        *)
THEOREM StopIsHonoured == Spec => []StopHonoured
<1>1. Init => StopInv
  BY DEF Init, Resting, None, StopInv, OneRunAll, RunsAll
<1>2. StopInv => StopHonoured
  BY DEF StopInv, StopHonoured
<1> QED
  BY <1>1, <1>2, InitTypes, TypesStep, StopStep, PTL DEF Spec

-----------------------------------------------------------------------------
(* Cards and records.                                                      *)

(* Results on their way to a card: with a worker, and in the queue.        *)
Brings(t)  == worker[t].at = "put" /\ worker[t].of # "stage" /\ worker[t].seq # 0
Carries(i) == queue[i].do = "result" /\ queue[i].seq # 0

(* They name a record nobody has annotated, as no card stands for it yet.  *)
Fresh(m) ==
  /\ m.seq \in 1..Len(records)
  /\ records[m.seq].id = m.id /\ records[m.seq].state = m.state
  /\ records[m.seq].confirmed = "unset"
  /\ \A id \in Ids : card[id].seq # m.seq

(* And each a record of its own.                                           *)
PendingInv ==
  /\ \A t \in Threads : Brings(t) => Fresh(worker[t])
  /\ \A i \in DOMAIN queue : Carries(i) => Fresh(queue[i])
  /\ \A t, u \in Threads : Brings(t) /\ Brings(u) /\ worker[t].seq = worker[u].seq => t = u
  /\ \A i, j \in DOMAIN queue : Carries(i) /\ Carries(j) /\ queue[i].seq = queue[j].seq => i = j
  /\ \A t \in Threads, i \in DOMAIN queue : Brings(t) /\ Carries(i) => worker[t].seq # queue[i].seq

CardStands(id) ==
  card[id].seq # 0 =>
    /\ card[id].seq \in 1..Len(records)
    /\ records[card[id].seq].id = id
    /\ records[card[id].seq].confirmed = card[id].confirmed
    /\ card[id].status \in States => card[id].status = records[card[id].seq].state

RecordInv == PendingInv /\ \A id \in Ids : CardStands(id)

(* Nothing new in the ledger, nothing new on its way, and the cards keep   *)
(* what they stand for.                                                    *)
LEMMA RecordKept ==
  ASSUME DeskTypes, RecordInv, UNCHANGED records, NEW d \in {0, 1},
         \A t \in Threads : Brings(t)' => Brings(t) /\ worker'[t] = worker[t],
         \A i \in DOMAIN queue' : Carries(i)' => i \in Nat /\ i + d \in DOMAIN queue /\ queue'[i] = queue[i + d],
         \A id \in Ids : /\ card'[id].seq = card[id].seq /\ card'[id].confirmed = card[id].confirmed
                         /\ card'[id].status \in States => card'[id].status = card[id].status
  PROVE  RecordInv'
<1>1. \A id \in Ids : CardStands(id)'
  BY DEF RecordInv, CardStands
<1>2. \A i \in DOMAIN queue' : Carries(i)' => Carries(i + d)
  BY DEF Carries
<1>3. ASSUME NEW m, Fresh(m)
      PROVE  /\ m.seq \in 1..Len(records') /\ records'[m.seq].id = m.id /\ records'[m.seq].state = m.state
             /\ records'[m.seq].confirmed = "unset" /\ \A id \in Ids : card'[id].seq # m.seq
  BY <1>3 DEF Fresh
<1>4. \A t \in Threads : Brings(t)' => Fresh(worker[t])'
  BY <1>3 DEF RecordInv, PendingInv, Fresh
<1>5. \A i \in DOMAIN queue' : Carries(i)' => Fresh(queue[i])'
  BY <1>2, <1>3 DEF RecordInv, PendingInv, Fresh
<1>6. ASSUME NEW i \in DOMAIN queue', NEW j \in DOMAIN queue', Carries(i)', Carries(j)', queue'[i].seq = queue'[j].seq
      PROVE  i = j
  <2>1. i + d = j + d /\ i \in Nat /\ j \in Nat
    BY <1>2, <1>6 DEF RecordInv, PendingInv
  <2> QED
    BY <2>1
<1>7. \A t, u \in Threads : Brings(t)' /\ Brings(u)' /\ worker'[t].seq = worker'[u].seq => t = u
  BY DEF RecordInv, PendingInv
<1>8. \A t \in Threads, i \in DOMAIN queue' : Brings(t)' /\ Carries(i)' => worker'[t].seq # queue'[i].seq
  BY <1>2 DEF RecordInv, PendingInv
<1> QED
  BY <1>1, <1>4, <1>5, <1>6, <1>7, <1>8 DEF RecordInv, PendingInv

LEMMA SpawnBrings ==
  ASSUME DeskTypes, NEW w, Spawn(w), w.at # "put"
  PROVE  \A u \in Threads : Brings(u)' => Brings(u) /\ worker'[u] = worker[u]
BY SpawnDoes DEF DeskTypes, WorkersOK, Brings

LEMMA RecordClick ==
  ASSUME DeskTypes, RecordInv, Click
  PROVE  RecordInv'
<1>0. worker \in [Threads -> Workers] /\ card \in [Ids -> Cards] /\ queue \in Seq(Messages) /\ records \in Seq(Records)
  BY DEF DeskTypes, WorkersOK, WindowOK, EngineOK
<1>2. UNCHANGED worker => \A u \in Threads : Brings(u)' => Brings(u) /\ worker'[u] = worker[u]
  BY DEF Brings
<1>3. ASSUME UNCHANGED queue
      PROVE  \A i \in DOMAIN queue' : Carries(i)' => i \in Nat /\ i + 0 \in DOMAIN queue /\ queue'[i] = queue[i + 0]
  BY <1>0, <1>3
<1>4. CASE StartRunAll
  <2> DEFINE w == [Resting EXCEPT !.at = "loop", !.of = "all", !.todo = RunAllDeck]
  <2>1. Spawn(w) /\ w.at # "put"
    BY <1>4 DEF StartRunAll, Resting
  <2> HIDE DEF w
  <2>2. /\ UNCHANGED <<queue, records>>
        /\ card' = [id \in Ids |-> IF id \in Available THEN [card[id] EXCEPT !.fire = FALSE, !.status = "queued"]
                                   ELSE card[id]]
    BY <1>4 DEF StartRunAll, engineVars
  <2>3. \A id \in Ids : /\ card'[id].seq = card[id].seq /\ card'[id].confirmed = card[id].confirmed
                        /\ card'[id].status \in States => card'[id].status = card[id].status
    BY <1>0, <2>2 DEF Cards, States
  <2>4. \A u \in Threads : Brings(u)' => Brings(u) /\ worker'[u] = worker[u]
    BY <2>1, SpawnBrings
  <2> QED
    BY <1>3, <2>2, <2>3, <2>4, RecordKept
<1>5. ASSUME NEW id \in Ids, Fire(id) PROVE RecordInv'
  <2> DEFINE w == [Resting EXCEPT !.at = "call", !.of = "card", !.id = id]
  <2>1. Spawn(w) /\ w.at # "put"
    BY <1>5 DEF Fire, Resting
  <2> HIDE DEF w
  <2>2. UNCHANGED <<queue, records>> /\ card' = [card EXCEPT ![id] = [card[id] EXCEPT !.fire = FALSE, !.status = "running"]]
    BY <1>0, <1>5 DEF Fire, engineVars
  <2>3. \A u \in Ids : /\ card'[u].seq = card[u].seq /\ card'[u].confirmed = card[u].confirmed
                       /\ card'[u].status \in States => card'[u].status = card[u].status
    BY <1>0, <2>2 DEF Cards, States
  <2>4. \A u \in Threads : Brings(u)' => Brings(u) /\ worker'[u] = worker[u]
    BY <2>1, SpawnBrings
  <2> QED
    BY <1>3, <2>2, <2>3, <2>4, RecordKept
<1>6. CASE StageFire
  <2> DEFINE w == [Resting EXCEPT !.at = "call", !.of = "stage", !.show = stage.show, !.id = stage.deck[stage.index]]
  <2>1. Spawn(w) /\ w.at # "put"
    BY <1>6 DEF StageFire, Resting
  <2> HIDE DEF w
  <2>2. UNCHANGED <<queue, records, card>>
    BY <1>6 DEF StageFire, StageStep, windowVars, engineVars
  <2>3. \A u \in Threads : Brings(u)' => Brings(u) /\ worker'[u] = worker[u]
    BY <2>1, SpawnBrings
  <2> QED
    BY <1>3, <2>2, <2>3, RecordKept
<1>7. ASSUME NEW id \in Ids, CycleConfirmed(id) PROVE RecordInv'
  <2> DEFINE k == card[id].seq
             mark == ConfirmCycle(card[id].confirmed)
  <2>1. /\ card' = [card EXCEPT ![id] = [card[id] EXCEPT !.confirmed = mark]]
        /\ records' = [records EXCEPT ![k] = [records[k] EXCEPT !.confirmed = mark]]
        /\ UNCHANGED <<worker, queue>>
    BY <1>0, <1>7 DEF CycleConfirmed
  <2>2. k # 0 /\ k \in 1..Len(records)
    BY <1>7 DEF CycleConfirmed, RecordInv, CardStands
  <2> HIDE DEF mark
  <2>3. /\ Len(records') = Len(records) /\ DOMAIN records' = 1..Len(records)
        /\ \A i \in 1..Len(records) : /\ records'[i].id = records[i].id /\ records'[i].state = records[i].state
                                      /\ i # k => records'[i] = records[i]
                                      /\ i = k => records'[i].confirmed = mark
    <3>1. \A i \in 1..Len(records) : records[i] \in Records
      BY <1>0
    <3> QED
      BY <1>0, <2>1, <2>2, <3>1 DEF Records
  <2>4. \A u \in Ids : /\ card'[u].seq = card[u].seq /\ card'[u].status = card[u].status
                       /\ u # id => card'[u] = card[u]
                       /\ u = id => card'[u].confirmed = mark
    BY <1>0, <2>1 DEF Cards
  <2>5. ASSUME NEW u \in Ids PROVE CardStands(u)'
    <3>1. u # id /\ card[u].seq # 0 => card[u].seq # k
      BY <2>2 DEF RecordInv, CardStands
    <3> HIDE DEF k
    <3>2. CardStands(u)
      BY DEF RecordInv
    <3>3. CASE u = id
      BY <2>3, <2>4, <3>2, <3>3 DEF CardStands, k
    <3>4. CASE u # id
      BY <2>3, <2>4, <3>1, <3>2, <3>4 DEF CardStands
    <3> QED
      BY <3>3, <3>4
  <2>6. ASSUME NEW m, Fresh(m)
        PROVE  /\ m.seq \in 1..Len(records') /\ records'[m.seq].id = m.id /\ records'[m.seq].state = m.state
               /\ records'[m.seq].confirmed = "unset" /\ \A u \in Ids : card'[u].seq # m.seq
    <3>1. m.seq # k
      BY <2>6 DEF Fresh
    <3> QED
      BY <2>3, <2>4, <2>6, <3>1 DEF Fresh
  <2>7. PendingInv'
    <3>1. (\A t \in Threads : Brings(t)' => Fresh(worker[t])') /\ \A i \in DOMAIN queue' : Carries(i)' => Fresh(queue[i])'
      BY <2>1, <2>6 DEF RecordInv, PendingInv, Brings, Carries, Fresh
    <3> QED
      BY <2>1, <3>1 DEF RecordInv, PendingInv, Brings, Carries
  <2> QED
    BY <2>5, <2>7 DEF RecordInv
<1>8. CASE UNCHANGED <<worker, queue, records, card>>
  BY <1>2, <1>3, <1>8, RecordKept
<1> QED
  BY <1>4, <1>5, <1>6, <1>7, <1>8 DEF Click, StopRunAll, StageOpen, StageClose, StageGoto, StageStep, windowVars, engineVars

LEMMA RecordWork ==
  ASSUME DeskTypes, RecordInv, NEW t \in Threads, Work(t)
  PROVE  RecordInv'
<1> DEFINE w == worker[t]
<1>0. /\ worker \in [Threads -> Workers] /\ WorkerFine(w) /\ w \in Workers /\ queue \in Seq(Messages)
      /\ card \in [Ids -> Cards] /\ records \in Seq(Records) /\ UNCHANGED card
  BY DEF DeskTypes, WorkersOK, WindowOK, EngineOK, WorkerFine, Work, RunAllTurn, RunRefused, RunBegins, Begins,
     RunReturns, RunRaises, RunRecorded, PutResult, PutOutcome, windowVars
<1>1. ASSUME NEW v, worker' = [worker EXCEPT ![t] = v], v.at # "put" \/ v.seq = 0
      PROVE  \A u \in Threads : Brings(u)' => u # t /\ Brings(u) /\ worker'[u] = worker[u]
  BY <1>0, <1>1 DEF Brings
<1>2. ASSUME UNCHANGED queue
      PROVE  \A i \in DOMAIN queue' : Carries(i)' => i \in Nat /\ i + 0 \in DOMAIN queue /\ queue'[i] = queue[i + 0]
  BY <1>0, <1>2
<1>3. ASSUME NEW m \in Messages, queue' = Append(queue, m), m.do # "result"
      PROVE  \A i \in DOMAIN queue' : Carries(i)' => i \in Nat /\ i + 0 \in DOMAIN queue /\ queue'[i] = queue[i + 0]
  <2>1. \A i \in DOMAIN queue' : queue'[i].do = "result" => i \in DOMAIN queue /\ i \in Nat /\ queue'[i] = queue[i]
    BY <1>0, <1>3, Appended
  <2> QED
    BY <2>1 DEF Carries
<1>4. CASE RunAllTurn(t)
  <2>1. UNCHANGED records
    BY <1>4 DEF RunAllTurn, engineVars
  <2>2. CASE MustEnd(w)
    <3>1. queue' = Append(queue, [do |-> "done"]) /\ worker' = [worker EXCEPT ![t] = Resting]
      BY <1>4, <2>2 DEF RunAllTurn
    <3>2. [do |-> "done"] \in Messages /\ Resting.at # "put"
      BY DEF Messages, Resting
    <3>3. \A i \in DOMAIN queue' : Carries(i)' => i \in Nat /\ i + 0 \in DOMAIN queue /\ queue'[i] = queue[i + 0]
      BY <1>3, <3>1, <3>2
    <3> QED
      BY <1>0, <1>1, <2>1, <3>1, <3>2, <3>3, RecordKept
  <2>3. CASE ~MustEnd(w)
    <3> DEFINE arm == [do |-> "arm", id |-> Head(w.todo)]
               v == [w EXCEPT !.at = "call", !.id = Head(w.todo), !.todo = Tail(w.todo)]
    <3>1. queue' = Append(queue, arm)
      BY <1>4, <2>3 DEF RunAllTurn
    <3>2. worker' = [worker EXCEPT ![t] = v] /\ v.at = "call"
      BY <1>0, <1>4, <2>3 DEF RunAllTurn, Workers
    <3>3. arm \in Messages /\ arm.do # "result"
      BY <1>0, <2>3 DEF WorkerFine, MustEnd, Messages
    <3> HIDE DEF arm, v
    <3>4. \A i \in DOMAIN queue' : Carries(i)' => i \in Nat /\ i + 0 \in DOMAIN queue /\ queue'[i] = queue[i + 0]
      BY <1>3, <3>1, <3>3
    <3>5. \A u \in Threads : Brings(u)' => Brings(u) /\ worker'[u] = worker[u]
      BY <1>1, <3>2
    <3> QED
      BY <1>0, <2>1, <3>4, <3>5, RecordKept
  <2> QED
    BY <2>2, <2>3
<1>5. ASSUME NEW v, worker' = [worker EXCEPT ![t] = v], v.at # "put" \/ v.seq = 0, UNCHANGED <<queue, records>>
      PROVE  RecordInv'
  <2>1. \A u \in Threads : Brings(u)' => Brings(u) /\ worker'[u] = worker[u]
    BY <1>1, <1>5
  <2> QED
    BY <1>0, <1>2, <1>5, <2>1, RecordKept
<1>6. CASE RunRefused(t)
  <2> DEFINE v == [w EXCEPT !.at = "record", !.state = IF w.id \in Declined THEN "invalid" ELSE "error"]
  <2>1. worker' = [worker EXCEPT ![t] = v] /\ v.at = "record" /\ UNCHANGED <<queue, records>>
    BY <1>0, <1>6 DEF RunRefused, Begins, Workers
  <2> HIDE DEF v
  <2> QED
    BY <1>5, <2>1
<1>7. CASE RunBegins(t)
  <2> DEFINE v == [w EXCEPT !.at = "wire"]
  <2>1. worker' = [worker EXCEPT ![t] = v] /\ v.at = "wire" /\ UNCHANGED <<queue, records>>
    BY <1>0, <1>7 DEF RunBegins, Begins, Workers
  <2> HIDE DEF v
  <2> QED
    BY <1>5, <2>1
<1>8. CASE RunReturns(t)
  <2>1. PICK state \in Outcomes[w.id] : worker' = [worker EXCEPT ![t] = [w EXCEPT !.at = "record", !.state = state]]
    BY <1>0, <1>8 DEF RunReturns
  <2> DEFINE v == [w EXCEPT !.at = "record", !.state = state]
  <2>2. worker' = [worker EXCEPT ![t] = v] /\ v.at = "record" /\ UNCHANGED <<queue, records>>
    BY <1>0, <1>8, <2>1 DEF RunReturns, Workers
  <2> HIDE DEF v
  <2> QED
    BY <1>5, <2>2
<1>9. CASE RunRaises(t)
  <2> DEFINE v == [w EXCEPT !.at = "put", !.state = "error"]
  <2>1. worker' = [worker EXCEPT ![t] = v] /\ v.seq = w.seq /\ w.at = "wire" /\ UNCHANGED <<queue, records>>
    BY <1>0, <1>9 DEF RunRaises, Workers
  <2> HIDE DEF v
  <2> QED
    BY <1>0, <1>5, <2>1 DEF WorkerFine
<1>10. CASE RunRecorded(t)
  <2> DEFINE seq == Len(records) + 1
             r == [id |-> w.id, state |-> w.state, confirmed |-> "unset"]
             v == [w EXCEPT !.at = "put", !.seq = seq]
  <2>1. worker' = [worker EXCEPT ![t] = v] /\ records' = Append(records, r) /\ UNCHANGED queue
    BY <1>0, <1>10 DEF RunRecorded
  <2>2. v.seq = seq /\ v.id = w.id /\ v.state = w.state /\ v.of = w.of
    BY <1>0 DEF Workers
  <2>3. r \in Records
    BY <1>0, <1>10 DEF RunRecorded, Records, WorkerFine, InCall, Confirmations
  <2>4. r.id = w.id /\ r.state = w.state /\ r.confirmed = "unset"
    OBVIOUS
  <2>5. seq \in Nat /\ seq # 0
    BY <1>0
  <2> HIDE DEF r, v
  <2>6. /\ Len(records') = seq /\ records'[seq] = r
        /\ \A i \in 1..Len(records) : records'[i] = records[i]
    BY <1>0, <2>1, <2>3, Appended
  <2>7. \A i \in 1..Len(records) : i \in 1..seq /\ i # seq
    BY <1>0
  <2>8. \A id \in Ids : CardStands(id)'
    BY <1>0, <2>6, <2>7 DEF RecordInv, CardStands
  <2>9. \A id \in Ids : card[id].seq # seq
    BY <1>0, <2>5, <2>7 DEF RecordInv, CardStands
  <2>10. ASSUME NEW m, Fresh(m)
         PROVE  /\ m.seq \in 1..Len(records') /\ records'[m.seq].id = m.id /\ records'[m.seq].state = m.state
                /\ records'[m.seq].confirmed = "unset" /\ \A u \in Ids : card'[u].seq # m.seq
                /\ m.seq # seq
    BY <1>0, <2>6, <2>7, <2>10 DEF Fresh
  <2>11. \A u \in Threads : IF u = t THEN worker'[u] = v ELSE worker'[u] = worker[u]
    BY <1>0, <2>1
  <2>12. \A u \in Threads : u # t /\ Brings(u)' => Brings(u)
    BY <2>11 DEF Brings
  <2>13. \A u \in Threads : Brings(u)' => Fresh(worker[u])'
    <3>1. \A u \in Threads : u # t /\ Brings(u)' => Fresh(worker[u])'
      BY <2>10, <2>11, <2>12 DEF RecordInv, PendingInv, Fresh
    <3>2. Fresh(worker[t])'
      BY <1>0, <2>2, <2>4, <2>5, <2>6, <2>9, <2>11 DEF Fresh
    <3> QED
      BY <3>1, <3>2
  <2> HIDE DEF seq
  <2>14. \A i \in DOMAIN queue' : Carries(i)' => Fresh(queue[i])'
    BY <2>1, <2>10 DEF RecordInv, PendingInv, Fresh, Carries
  <2>15. \A u \in Threads : u # t /\ Brings(u)' => worker'[u].seq # seq /\ worker'[u].seq = worker[u].seq
    BY <2>10, <2>11, <2>12 DEF RecordInv, PendingInv
  <2>16. worker'[t].seq = seq
    BY <2>2, <2>11
  <2>17. \A i \in DOMAIN queue' : Carries(i)' => Carries(i) /\ queue'[i].seq = queue[i].seq /\ queue[i].seq # seq
    BY <2>1, <2>10 DEF RecordInv, PendingInv, Carries
  <2>18. \A a, b \in Threads : Brings(a)' /\ Brings(b)' /\ worker'[a].seq = worker'[b].seq => a = b
    BY <2>12, <2>15, <2>16 DEF RecordInv, PendingInv
  <2>19. \A i, j \in DOMAIN queue' : Carries(i)' /\ Carries(j)' /\ queue'[i].seq = queue'[j].seq => i = j
    BY <2>1, <2>17 DEF RecordInv, PendingInv
  <2>20. \A u \in Threads, i \in DOMAIN queue' : Brings(u)' /\ Carries(i)' => worker'[u].seq # queue'[i].seq
    BY <2>1, <2>12, <2>15, <2>16, <2>17 DEF RecordInv, PendingInv
  <2> QED
    BY <2>8, <2>13, <2>14, <2>18, <2>19, <2>20 DEF RecordInv, PendingInv
<1>11. CASE PutResult(t)
  <2> DEFINE m == [do |-> "result", id |-> w.id, state |-> w.state, seq |-> w.seq]
             n == Len(queue) + 1
  <2>1. queue' = Append(queue, m) /\ UNCHANGED records
    BY <1>0, <1>11 DEF PutResult, ResultOf, engineVars
  <2>2. m \in Messages
    BY <1>0, <1>11 DEF PutResult, WorkerFine, Workers, InCall, Messages
  <2>3. m.id = w.id /\ m.state = w.state /\ m.seq = w.seq
    OBVIOUS
  <2>4. PICK v : worker' = [worker EXCEPT ![t] = v] /\ v.at # "put"
    <3>1. Resting.at # "put" /\ [Resting EXCEPT !.at = "loop", !.of = "all", !.todo = w.todo].at # "put"
      BY DEF Resting
    <3> QED
      BY <1>11, <3>1 DEF PutResult
  <2>5. Brings(t) \/ w.seq = 0
    BY <1>11 DEF PutResult, Brings
  <2> HIDE DEF m, w
  <2>6. DOMAIN queue' = DOMAIN queue \cup {n} /\ queue'[n] = m /\ \A i \in DOMAIN queue : queue'[i] = queue[i] /\ i # n
    BY <1>0, <2>1, <2>2, Appended
  <2> HIDE DEF n
  <2>7. \A u \in Threads : Brings(u)' => u # t /\ Brings(u) /\ worker'[u] = worker[u]
    BY <1>1, <2>4
  <2>8. \A i \in DOMAIN queue' : Carries(i)' =>
           \/ i = n /\ queue'[i] = m /\ Brings(t)
           \/ i \in DOMAIN queue /\ queue'[i] = queue[i] /\ Carries(i)
    BY <2>3, <2>5, <2>6 DEF Carries
  <2>9. \A id \in Ids : CardStands(id)'
    BY <1>0, <2>1 DEF RecordInv, CardStands
  <2>11. \A u \in Threads : Brings(u)' => Fresh(worker[u])'
    BY <1>0, <2>1, <2>7 DEF RecordInv, PendingInv, Fresh
  <2>12. Brings(t) => Fresh(m)
    BY <2>3 DEF RecordInv, PendingInv, Fresh, w
  <2>13. \A i \in DOMAIN queue' : Carries(i)' => Fresh(queue'[i])
    BY <2>8, <2>12 DEF RecordInv, PendingInv
  <2>14. \A i \in DOMAIN queue' : Carries(i)' => Fresh(queue[i])'
    BY <1>0, <2>1, <2>13 DEF Fresh
  <2>15. \A a, b \in Threads : Brings(a)' /\ Brings(b)' /\ worker'[a].seq = worker'[b].seq => a = b
    BY <2>7 DEF RecordInv, PendingInv
  <2>16. \A i, j \in DOMAIN queue' : Carries(i)' /\ Carries(j)' /\ queue'[i].seq = queue'[j].seq => i = j
    BY <2>3, <2>8 DEF RecordInv, PendingInv, w
  <2>17. \A u \in Threads, i \in DOMAIN queue' : Brings(u)' /\ Carries(i)' => worker'[u].seq # queue'[i].seq
    BY <2>3, <2>7, <2>8 DEF RecordInv, PendingInv, w
  <2> QED
    BY <2>9, <2>11, <2>14, <2>15, <2>16, <2>17 DEF RecordInv, PendingInv
<1>12. CASE PutOutcome(t)
  <2>1. worker' = [worker EXCEPT ![t] = Resting] /\ Resting.at # "put" /\ UNCHANGED <<queue, records>>
    BY <1>12 DEF PutOutcome, engineVars, Resting
  <2> QED
    BY <1>5, <2>1
<1> QED
  BY <1>4, <1>6, <1>7, <1>8, <1>9, <1>10, <1>11, <1>12 DEF Work

LEMMA RecordPump ==
  ASSUME DeskTypes, RecordInv, PumpOnce
  PROVE  RecordInv'
<1>0. /\ queue \in Seq(Messages) /\ queue # <<>> /\ queue' = Tail(queue)
      /\ card \in [Ids -> Cards] /\ UNCHANGED <<worker, records>>
  BY DEF DeskTypes, WindowOK, PumpOnce, ArmLane, SetResult, RunAllDone, Pump, engineVars
<1>1. \A i \in DOMAIN queue' : i \in Nat /\ i + 1 \in DOMAIN queue /\ i + 1 # 1 /\ queue'[i] = queue[i + 1]
  BY <1>0, Shortened
<1>2. \A i \in DOMAIN queue' : Carries(i)' => Carries(i + 1)
  BY <1>1 DEF Carries
<1>3. 1 \in DOMAIN queue /\ Head(queue) = queue[1]
  BY <1>0, Shortened
<1>4. ASSUME \A id \in Ids : /\ card'[id].seq = card[id].seq /\ card'[id].confirmed = card[id].confirmed
                             /\ card'[id].status \in States => card'[id].status = card[id].status
      PROVE  RecordInv'
  <2>1. \A u \in Threads : Brings(u)' => Brings(u) /\ worker'[u] = worker[u]
    BY <1>0 DEF Brings
  <2> QED
    BY <1>0, <1>1, <1>4, <2>1, RecordKept
<1>5. CASE ArmLane
  <2> DEFINE id == Head(queue).id
  <2>1. card' = [card EXCEPT ![id].status = "running"]
    BY <1>5 DEF ArmLane
  <2>2. \A u \in Ids : /\ card'[u].seq = card[u].seq /\ card'[u].confirmed = card[u].confirmed
                       /\ card'[u].status \in States => card'[u].status = card[u].status
    BY <1>0, <2>1 DEF Cards, States
  <2> QED
    BY <1>4, <2>2
<1>6. CASE RunAllDone
  <2>1. card' = [id \in Ids |-> IF id \in Available THEN [card[id] EXCEPT !.fire = TRUE] ELSE card[id]]
    BY <1>6 DEF RunAllDone, FireableCards, FireAgain
  <2>2. \A u \in Ids : /\ card'[u].seq = card[u].seq /\ card'[u].confirmed = card[u].confirmed
                       /\ card'[u].status \in States => card'[u].status = card[u].status
    BY <1>0, <2>1 DEF Cards
  <2> QED
    BY <1>4, <2>2
<1>7. CASE SetResult
  <2> DEFINE m == Head(queue)
             now == [status |-> m.state, fire |-> TRUE, seq |-> m.seq,
                     confirmed |-> IF m.seq # 0 THEN "unset" ELSE card[m.id].confirmed]
  <2>1. m = queue[1] /\ m.do = "result" /\ m.id \in Ids /\ m.state \in States /\ m.seq \in Nat
    BY <1>0, <1>3, <1>7, HeadOfQueue DEF SetResult, Pump, Available
  <2>2. card' = [card EXCEPT ![m.id] = now]
    BY <1>0, <1>7 DEF SetResult, SeqNow
  <2>3. m.seq # 0 => Carries(1)
    BY <2>1 DEF Carries
  <2>4. m.seq # 0 => Fresh(m)
    BY <1>3, <2>1, <2>3 DEF RecordInv, PendingInv
  <2>5. /\ now.seq = m.seq /\ now.status = m.state
        /\ m.seq # 0 => now.confirmed = "unset"
    OBVIOUS
  <2> HIDE DEF m, now
  <2>6. card'[m.id] = now /\ \A u \in Ids : u # m.id => card'[u] = card[u]
    BY <1>0, <2>1, <2>2
  <2>7. ASSUME NEW u \in Ids PROVE CardStands(u)'
    <3>1. CASE u = m.id
      BY <1>0, <2>4, <2>5, <2>6, <3>1 DEF CardStands, Fresh
    <3>2. CASE u # m.id
      BY <1>0, <2>6, <3>2 DEF RecordInv, CardStands
    <3> QED
      BY <3>1, <3>2
  <2>8. ASSUME NEW x, Fresh(x), x.seq # m.seq
        PROVE  /\ x.seq \in 1..Len(records') /\ records'[x.seq].id = x.id /\ records'[x.seq].state = x.state
               /\ records'[x.seq].confirmed = "unset" /\ \A u \in Ids : card'[u].seq # x.seq
    BY <1>0, <2>5, <2>6, <2>8 DEF Fresh
  <2>9. \A t \in Threads : Brings(t)' => Brings(t) /\ worker'[t] = worker[t] /\ worker[t].seq # m.seq
    BY <1>0, <1>3, <2>1, <2>3 DEF RecordInv, PendingInv, Brings
  <2>10. \A i \in DOMAIN queue' : Carries(i)' => queue[i + 1].seq # m.seq
    BY <1>1, <1>2, <1>3, <2>1, <2>3 DEF RecordInv, PendingInv, Carries
  <2>11. \A t \in Threads : Brings(t)' => Fresh(worker[t])'
    BY <2>8, <2>9 DEF RecordInv, PendingInv, Fresh
  <2>12. \A i \in DOMAIN queue' : Carries(i)' => Fresh(queue[i])'
    BY <1>1, <1>2, <2>8, <2>10 DEF RecordInv, PendingInv, Fresh
  <2>13. ASSUME NEW i \in DOMAIN queue', NEW j \in DOMAIN queue', Carries(i)', Carries(j)', queue'[i].seq = queue'[j].seq
         PROVE  i = j
    <3>1. i + 1 = j + 1
      BY <1>1, <1>2, <2>13 DEF RecordInv, PendingInv
    <3> QED
      BY <1>1, <3>1
  <2>14. \A t \in Threads, i \in DOMAIN queue' : Brings(t)' /\ Carries(i)' => worker'[t].seq # queue'[i].seq
    BY <1>1, <1>2, <2>9 DEF RecordInv, PendingInv
  <2>15. \A t, u \in Threads : Brings(t)' /\ Brings(u)' /\ worker'[t].seq = worker'[u].seq => t = u
    BY <2>9 DEF RecordInv, PendingInv
  <2> QED
    BY <2>7, <2>11, <2>12, <2>13, <2>14, <2>15 DEF RecordInv, PendingInv
<1> QED
  BY <1>5, <1>6, <1>7 DEF PumpOnce

LEMMA RecordStep ==
  ASSUME DeskTypes, RecordInv, [Next]_vars
  PROVE  RecordInv'
<1>1. CASE UNCHANGED <<worker, queue, records, card>>
  <2>1. queue \in Seq(Messages)
    BY DEF DeskTypes, WindowOK
  <2>2. \A i \in DOMAIN queue' : Carries(i)' => i \in Nat /\ i + 0 \in DOMAIN queue /\ queue'[i] = queue[i + 0]
    BY <1>1, <2>1
  <2>3. \A u \in Threads : Brings(u)' => Brings(u) /\ worker'[u] = worker[u]
    BY <1>1 DEF Brings
  <2> QED
    BY <1>1, <2>2, <2>3, RecordKept
<1> QED
  BY <1>1, RecordClick, RecordWork, RecordPump
     DEF Next, StagePoll, StageStep, LaneFrame, StageFrame, vars, windowVars, engineVars

(* The lane of a card.                                                     *)
LaneShows(id) ==
  /\ card[id].status \in States => lane[id].verdict \in {None, card[id].status}
  /\ card[id].status = "running" => lane[id].verdict = None

LaneInv == \A id \in Ids : LaneShows(id)

LEMMA LaneStep ==
  ASSUME DeskTypes, LaneInv, [Next]_vars
  PROVE  LaneInv'
<1>0. queue \in Seq(Messages) /\ card \in [Ids -> Cards] /\ lane \in [Ids -> Lanes]
  BY DEF DeskTypes, WindowOK
<1>1. \A id \in Ids : Life(id)!LaneFired.verdict = None
  BY LifeIsWire DEF Wire!LaneFired, Wire!Unfired
<1>2. ASSUME NEW id \in Ids, NEW ln \in Lanes
      PROVE  Life(id)!LaneCleared(ln).verdict = None /\ Life(id)!LaneAtRest(ln).verdict = ln.verdict
  <2>1. Life(id)!LaneCleared(ln) = Wire!LaneCleared(ln) /\ Life(id)!LaneAtRest(ln) = Wire!LaneAtRest(ln)
    BY LifeIsWire
  <2>2. Wire!LaneCleared(ln).verdict = None /\ Wire!LaneAtRest(ln).verdict = ln.verdict
    BY DEF Wire!LaneCleared, Wire!Unfired, Wire!LaneAtRest, Lanes
  <2> QED
    BY <2>1, <2>2
<1>3. ASSUME NEW id \in Ids, NEW ln \in Lanes, NEW state \in States
      PROVE  Life(id)!LaneResolved(ln, state).verdict = state
  <2>1. Life(id)!LaneResolved(ln, state) = Wire!LaneResolved(ln, state)
    BY LifeIsWire
  <2> QED
    BY <2>1 DEF Wire!LaneResolved, Lanes
<1>4. ASSUME NEW id \in Ids, Fire(id) PROVE LaneInv'
  <2>1. /\ card' = [card EXCEPT ![id] = [card[id] EXCEPT !.fire = FALSE, !.status = "running"]]
        /\ lane' = [lane EXCEPT ![id] = Life(id)!LaneFired]
    BY <1>0, <1>4 DEF Fire
  <2>2. card'[id].status = "running" /\ lane'[id].verdict = None
    BY <1>0, <1>1, <2>1 DEF Cards
  <2>3. \A u \in Ids : u # id => card'[u] = card[u] /\ lane'[u] = lane[u]
    BY <1>0, <2>1
  <2> QED
    BY <2>2, <2>3 DEF LaneInv, LaneShows, States
<1>5. CASE StartRunAll
  <2>1. card' = [id \in Ids |-> IF id \in Available THEN [card[id] EXCEPT !.fire = FALSE, !.status = "queued"]
                                ELSE card[id]] /\ UNCHANGED lane
    BY <1>5 DEF StartRunAll
  <2>2. \A id \in Ids : card'[id].status \in {card[id].status, "queued"}
    BY <1>0, <2>1 DEF Cards
  <2> QED
    BY <2>1, <2>2 DEF LaneInv, LaneShows, States
<1>6. ASSUME NEW id \in Ids, CycleConfirmed(id) PROVE LaneInv'
  <2>1. card' = [card EXCEPT ![id] = [card[id] EXCEPT !.confirmed = ConfirmCycle(card[id].confirmed)]]
        /\ UNCHANGED lane
    BY <1>0, <1>6 DEF CycleConfirmed
  <2>2. \A u \in Ids : card'[u].status = card[u].status
    BY <1>0, <2>1 DEF Cards
  <2> QED
    BY <2>1, <2>2 DEF LaneInv, LaneShows
<1>7. CASE ArmLane
  <2> DEFINE id == Head(queue).id
  <2>1. /\ lane' = [lane EXCEPT ![id] = Life(id)!LaneFired]
        /\ card' = [card EXCEPT ![id].status = "running"] /\ id \in Ids
    BY <1>0, <1>7, HeadOfQueue DEF ArmLane, Pump, Available
  <2> HIDE DEF id
  <2>2. card'[id].status = "running" /\ lane'[id].verdict = None
    BY <1>0, <1>1, <2>1 DEF Cards
  <2>3. \A u \in Ids : u # id => card'[u] = card[u] /\ lane'[u] = lane[u]
    BY <1>0, <2>1
  <2> QED
    BY <2>2, <2>3 DEF LaneInv, LaneShows, States
<1>8. CASE SetResult
  <2> DEFINE m == Head(queue)
  <2>1. m.id \in Ids /\ m.state \in States
    BY <1>0, <1>8, HeadOfQueue DEF SetResult, Pump, Available
  <2>2. PICK now : card' = [card EXCEPT ![m.id] = now] /\ now.status = m.state
    <3> DEFINE now == [status |-> m.state, fire |-> TRUE, seq |-> m.seq,
                       confirmed |-> IF m.seq # 0 THEN "unset" ELSE card[m.id].confirmed]
    <3>1. card' = [card EXCEPT ![m.id] = now] /\ now.status = m.state
      BY <1>8 DEF SetResult, SeqNow
    <3> QED
      BY <3>1
  <2>3. lane' = [lane EXCEPT ![m.id] = Life(m.id)!LaneResolved(lane[m.id], m.state)]
    BY <1>8 DEF SetResult
  <2> HIDE DEF m
  <2>4. card'[m.id].status = m.state /\ lane'[m.id].verdict = m.state
    BY <1>0, <1>3, <2>1, <2>2, <2>3
  <2>5. \A u \in Ids : u # m.id => card'[u] = card[u] /\ lane'[u] = lane[u]
    BY <1>0, <2>1, <2>2, <2>3
  <2> QED
    BY <2>1, <2>4, <2>5 DEF LaneInv, LaneShows, States
<1>9. CASE RunAllDone
  <2>1. /\ card' = [id \in Ids |-> IF id \in Available THEN [card[id] EXCEPT !.fire = TRUE] ELSE card[id]]
        /\ lane' = [id \in Ids |-> IF id \in Available /\ lane[id].rest = None
                                   THEN Life(id)!LaneCleared(lane[id]) ELSE lane[id]]
    BY <1>9 DEF RunAllDone, FireableCards, FireAgain
  <2>2. \A id \in Ids : card'[id].status = card[id].status
    BY <1>0, <2>1 DEF Cards
  <2>3. \A id \in Ids : lane'[id].verdict \in {lane[id].verdict, None}
    BY <1>0, <1>2, <2>1
  <2> QED
    BY <2>2, <2>3 DEF LaneInv, LaneShows
<1>10. ASSUME NEW id \in Ids, LaneFrame(id) PROVE LaneInv'
  <2>1. lane' = [lane EXCEPT ![id] = Life(id)!LaneAtRest(lane[id])] /\ UNCHANGED card
    BY <1>10 DEF LaneFrame
  <2>2. \A u \in Ids : lane'[u].verdict = lane[u].verdict
    BY <1>0, <1>2, <2>1
  <2> QED
    BY <2>1, <2>2 DEF LaneInv, LaneShows
<1>11. CASE UNCHANGED <<card, lane>>
  BY <1>11 DEF LaneInv, LaneShows
<1>12. CASE Click
  BY <1>4, <1>5, <1>6, <1>11, <1>12 DEF Click, StopRunAll, StageOpen, StageClose, StageGoto, StageFire, StageStep, windowVars
<1>13. ASSUME NEW t \in Threads, Work(t) PROVE LaneInv'
  BY <1>11, <1>13 DEF Work, RunAllTurn, RunRefused, RunBegins, Begins, RunReturns, RunRaises, RunRecorded,
     PutResult, PutOutcome, windowVars
<1> QED
  BY <1>7, <1>8, <1>9, <1>10, <1>11, <1>12, <1>13 DEF Next, PumpOnce, StagePoll, StageStep, StageFrame, vars, windowVars

(* A card's Confirm annotates the record of the very run the card shows,   *)
(* and the lane plays that run's verdict: a result goes from its worker to *)
(* its card with the number of a record that is its own.                   *)
THEOREM CardsAreTheirRecords == Spec => []CardIsItsRecord
<1>1. Init => RecordInv /\ LaneInv
  <2> SUFFICES ASSUME Init PROVE RecordInv /\ LaneInv
    OBVIOUS
  <2>1. \A t \in Threads : ~Brings(t)
    BY DEF Init, Resting, Brings
  <2>2. \A id \in Ids : card[id].seq = 0 /\ card[id].status = "not run"
    BY DEF Init, NewCard
  <2>3. DOMAIN queue = {}
    BY DEF Init
  <2> QED
    BY <2>1, <2>2, <2>3 DEF RecordInv, PendingInv, CardStands, LaneInv, LaneShows, States
<1>2. RecordInv /\ LaneInv => CardIsItsRecord
  BY DEF RecordInv, CardStands, LaneInv, LaneShows, CardIsItsRecord
<1> QED
  BY <1>1, <1>2, InitTypes, TypesStep, RecordStep, LaneStep, PTL DEF Spec

-----------------------------------------------------------------------------
(* The presenter's scoreboard.                                             *)

LEMMA LastSame ==
  ASSUME NEW id, UNCHANGED ended, stage'.show = stage.show
  PROVE  LastOnStage(id)' = LastOnStage(id)
BY DEF LastOnStage

LEMMA LastOver ==
  ASSUME ended \in Seq(Entries), NEW e \in Entries, ended' = Append(ended, e), stage'.show = stage.show, NEW id
  PROVE  LastOnStage(id)' = IF e.of = "stage" /\ e.show = stage.show /\ e.id = id
                            THEN e.state ELSE LastOnStage(id)
<1> DEFINE Mine(es) == {i \in DOMAIN es : es[i].of = "stage" /\ es[i].show = stage.show /\ es[i].id = id}
           n == Len(ended) + 1
           L(es) == IF Mine(es) = {} THEN None ELSE es[Max(Mine(es))].state
<1>1. LastOnStage(id) = L(ended) /\ LastOnStage(id)' = L(ended')
  BY DEF LastOnStage
<1>2. /\ DOMAIN ended' = DOMAIN ended \cup {n} /\ n \notin DOMAIN ended /\ ended'[n] = e
      /\ \A i \in DOMAIN ended : ended'[i] = ended[i]
  BY Appended
<1>3. n \in Nat /\ DOMAIN ended = 1..(n - 1) /\ DOMAIN ended' = 1..n
  BY <1>2
<1>4. Mine(ended) \subseteq 1..(n - 1) /\ Mine(ended') \subseteq 1..n
  BY <1>3
<1>5. CASE e.of = "stage" /\ e.show = stage.show /\ e.id = id
  <2>1. n \in Mine(ended')
    BY <1>2, <1>5
  <2> DEFINE m == Max(Mine(ended'))
  <2>2. m \in 1..n /\ n <= m
    BY <1>3, <1>4, <2>1, MaxIsLast
  <2>3. m = n
    <3> HIDE DEF m, n
    <3> QED
      BY <1>3, <2>2
  <2> QED
    BY <1>1, <1>2, <1>5, <2>1, <2>3
<1>6. CASE ~(e.of = "stage" /\ e.show = stage.show /\ e.id = id)
  <2>1. Mine(ended') = Mine(ended)
    BY <1>2, <1>6
  <2>2. CASE Mine(ended) = {}
    BY <1>1, <1>6, <2>1, <2>2
  <2>3. CASE Mine(ended) # {}
    <3>1. Max(Mine(ended)) \in Mine(ended)
      <4>1. n - 1 \in Nat
        BY <1>2
      <4> HIDE DEF n, Mine
      <4> QED
        BY <1>4, <2>3, <4>1, MaxIsLast
    <3>2. Max(Mine(ended)) \in DOMAIN ended
      BY <3>1
    <3> HIDE DEF Mine
    <3> QED
      BY <1>1, <1>2, <1>6, <2>1, <2>3, <3>2
  <2> QED
    BY <2>2, <2>3
<1> QED
  BY <1>5, <1>6

(* A worker that fires for the window that is open.                        *)
OnStageNow(t) == worker[t].of = "stage" /\ worker[t].show = stage.show

(* What the window shows follows from what its session holds.              *)
WallTrue(st) ==
  IF ~st.open THEN st.mail = NoMail
  ELSE /\ st.busy => OnTrigger(st) /\ st.lane.verdict = None
       /\ ~st.busy => /\ st.mail = NoMail
                      /\ st.word = IF OnTrigger(st) THEN st.results[st.deck[st.index]] ELSE None
                      /\ st.lane.verdict \in {None, st.word}
       /\ st.mail # NoMail => st.mail.id = st.deck[st.index]

(* No run of a window that is still to come.                               *)
ShowsSoFar ==
  /\ \A t \in Threads : worker[t].of = "stage" => worker[t].show <= stage.show
  /\ \A i \in DOMAIN ended : ended[i].of = "stage" => ended[i].show <= stage.show

(* A session has one run at most, of the trigger on stage; what it came to *)
(* is with the worker, then in the slot, then on the scoreboard.           *)
SessionInv ==
  /\ ~stage.busy \/ stage.mail # NoMail => \A t \in Threads : ~OnStageNow(t)
  /\ stage.mail # NoMail => LastOnStage(stage.mail.id) = stage.mail.state
  /\ \A t, u \in Threads : OnStageNow(t) /\ OnStageNow(u) => t = u
  /\ \A t \in Threads : OnStageNow(t) =>
       /\ worker[t].id = stage.deck[stage.index]
       /\ worker[t].at = "put" => LastOnStage(worker[t].id) = worker[t].state
  /\ \A id \in Ids :
       \/ stage.results[id] = LastOnStage(id)
       \/ stage.mail # NoMail /\ stage.mail.id = id
       \/ \E t \in Threads : OnStageNow(t) /\ worker[t].at = "put" /\ worker[t].id = id

ScoreInv == WallTrue(stage) /\ ShowsSoFar /\ (stage.open => SessionInv)

(* A worker goes on, with nothing in hand for the presenter.               *)
LEMMA ScoreWorker ==
  ASSUME DeskTypes, ScoreInv, NEW t \in Threads, NEW v, worker' = [worker EXCEPT ![t] = v],
         worker[t].at # "put" \/ worker[t].of # "stage", v.at # "put",
         v.of = "stage" => worker[t].of = "stage" /\ v.show = worker[t].show /\ v.id = worker[t].id,
         UNCHANGED <<stage, ended>>
  PROVE  ScoreInv'
<1>1. \A u \in Threads : IF u = t THEN worker'[u] = v ELSE worker'[u] = worker[u]
  BY DEF DeskTypes, WorkersOK
<1>2. \A u \in Threads : OnStageNow(u)' => OnStageNow(u) /\ worker'[u].id = worker[u].id
  BY <1>1 DEF OnStageNow
<1>3. \A u \in Threads : OnStageNow(u) /\ worker[u].at = "put" => OnStageNow(u)' /\ worker'[u] = worker[u]
  BY <1>1 DEF OnStageNow
<1>4. \A u \in Threads : OnStageNow(u)' /\ worker'[u].at = "put" => worker'[u] = worker[u]
  BY <1>1
<1>5. \A id : LastOnStage(id)' = LastOnStage(id)
  BY LastSame
<1>6. ShowsSoFar'
  BY <1>1 DEF ScoreInv, ShowsSoFar
<1>7. stage.open => SessionInv'
  <2> SUFFICES ASSUME stage.open PROVE SessionInv'
    OBVIOUS
  <2>1. \A u \in Threads : OnStageNow(u)' =>
          /\ worker'[u].id = stage'.deck[stage'.index]
          /\ worker'[u].at = "put" => LastOnStage(worker[u].id)' = worker'[u].state
    BY <1>2, <1>4, <1>5 DEF ScoreInv, SessionInv
  <2>2. \A id \in Ids :
         \/ stage'.results[id] = LastOnStage(id)'
         \/ stage'.mail # NoMail /\ stage'.mail.id = id
         \/ \E u \in Threads : OnStageNow(u)' /\ worker'[u].at = "put" /\ worker'[u].id = id
    BY <1>3, <1>5 DEF ScoreInv, SessionInv
  <2>3. stage'.mail # NoMail => LastOnStage(stage.mail.id)' = stage'.mail.state
    BY <1>5 DEF ScoreInv, SessionInv
  <2> QED
    BY <1>2, <2>1, <2>2, <2>3 DEF ScoreInv, SessionInv
<1> QED
  BY <1>6, <1>7 DEF ScoreInv

(* A run is over.                                                          *)
LEMMA ScoreOver ==
  ASSUME DeskTypes, ScoreInv, NEW t \in Threads, NEW v, NEW e \in Entries,
         worker' = [worker EXCEPT ![t] = v], ended' = Append(ended, e), UNCHANGED stage,
         worker[t].at # "put", v.at = "put",
         v.of = worker[t].of, v.show = worker[t].show, v.id = worker[t].id,
         e.of = v.of, e.show = v.show, e.id = v.id, e.state = v.state
  PROVE  ScoreInv'
<1>0. ended \in Seq(Entries)
  BY DEF DeskTypes, EngineOK
<1>1. worker'[t] = v /\ \A u \in Threads : u # t => worker'[u] = worker[u]
  BY DEF DeskTypes, WorkersOK
<1>2. \A u \in Threads : OnStageNow(u)' <=> OnStageNow(u)
  BY <1>1 DEF OnStageNow
<1>3. \A id : LastOnStage(id)' = IF OnStageNow(t) /\ v.id = id THEN v.state ELSE LastOnStage(id)
  BY <1>0, LastOver DEF OnStageNow
<1>4. ShowsSoFar'
  <2>1. \A u \in Threads : worker'[u].of = "stage" => worker'[u].show <= stage.show
    BY <1>1 DEF ScoreInv, ShowsSoFar
  <2>2. \A i \in DOMAIN ended' : ended'[i] = e \/ (i \in DOMAIN ended /\ ended'[i] = ended[i])
    BY <1>0, Appended
  <2>3. e.of = "stage" => e.show <= stage.show
    BY DEF ScoreInv, ShowsSoFar
  <2> QED
    BY <2>1, <2>2, <2>3 DEF ScoreInv, ShowsSoFar
<1>5. stage.open => SessionInv'
  <2> SUFFICES ASSUME stage.open, SessionInv PROVE SessionInv'
    BY DEF ScoreInv
  <2>1. stage.mail # NoMail => ~OnStageNow(t)
    BY DEF SessionInv
  <2>2. stage.mail # NoMail => LastOnStage(stage.mail.id)' = stage'.mail.state
    BY <1>3, <2>1 DEF SessionInv
  <2>3. \A u \in Threads : OnStageNow(u) /\ u # t => ~OnStageNow(t)
    BY DEF SessionInv
  <2>4. ASSUME NEW u \in Threads, OnStageNow(u)
        PROVE  /\ worker'[u].id = stage'.deck[stage'.index]
               /\ worker'[u].at = "put" => LastOnStage(worker[u].id)' = worker'[u].state
    BY <1>1, <1>3, <2>3, <2>4 DEF SessionInv
  <2>5. \A u \in Threads : worker'[u].id = worker[u].id
    BY <1>1
  <2>6. ASSUME NEW id \in Ids
        PROVE  \/ stage'.results[id] = LastOnStage(id)'
               \/ stage'.mail # NoMail /\ stage'.mail.id = id
               \/ \E u \in Threads : OnStageNow(u) /\ worker'[u].at = "put" /\ worker'[u].id = id
    <3>1. CASE OnStageNow(t) /\ v.id = id
      BY <1>1, <3>1
    <3>2. CASE ~(OnStageNow(t) /\ v.id = id)
      <4>1. LastOnStage(id)' = LastOnStage(id)
        BY <1>3, <3>2
      <4>2. \A u \in Threads : worker[u].at = "put" => worker'[u] = worker[u]
        BY <1>1
      <4> QED
        BY <4>1, <4>2 DEF SessionInv
    <3> QED
      BY <3>1, <3>2
  <2> QED
    BY <1>2, <2>2, <2>4, <2>5, <2>6 DEF SessionInv
<1> QED
  BY <1>4, <1>5 DEF ScoreInv

LEMMA ScoreWork ==
  ASSUME DeskTypes, ScoreInv, NEW t \in Threads, Work(t)
  PROVE  ScoreInv'
<1> DEFINE w == worker[t]
<1>0. worker \in [Threads -> Workers] /\ WorkerFine(w) /\ w \in Workers /\ records \in Seq(Records)
  BY DEF DeskTypes, WorkersOK, EngineOK, WorkerFine
<1>1. CASE RunAllTurn(t)
  <2>1. w.of = "all" /\ w.at = "loop" /\ UNCHANGED <<stage, ended>>
    BY <1>0, <1>1 DEF RunAllTurn, WorkerFine, engineVars
  <2>2. PICK v : worker' = [worker EXCEPT ![t] = v] /\ v.of # "stage" /\ v.at # "put"
    <3>1. CASE MustEnd(w)
      <4>1. worker' = [worker EXCEPT ![t] = Resting] /\ Resting.of # "stage" /\ Resting.at # "put"
        BY <1>1, <3>1 DEF RunAllTurn, Resting, None
      <4> QED
        BY <4>1
    <3>2. CASE ~MustEnd(w)
      <4> DEFINE v == [w EXCEPT !.at = "call", !.id = Head(w.todo), !.todo = Tail(w.todo)]
      <4>1. worker' = [worker EXCEPT ![t] = v] /\ v.of = w.of /\ v.at = "call"
        BY <1>0, <1>1, <3>2 DEF RunAllTurn, Workers
      <4> QED
        BY <2>1, <4>1
    <3> QED
      BY <3>1, <3>2
  <2> QED
    BY <2>1, <2>2, ScoreWorker
<1>2. CASE RunRefused(t) \/ RunBegins(t) \/ RunReturns(t)
  <2>1. w.at \in {"call", "wire"} /\ UNCHANGED <<stage, ended>>
    BY <1>2 DEF RunRefused, RunBegins, Begins, RunReturns
  <2>2. PICK v : worker' = [worker EXCEPT ![t] = v] /\ v.of = w.of /\ v.show = w.show /\ v.id = w.id /\ v.at # "put"
    <3>1. CASE RunRefused(t)
      <4> DEFINE v == [w EXCEPT !.at = "record", !.state = IF w.id \in Declined THEN "invalid" ELSE "error"]
      <4>1. worker' = [worker EXCEPT ![t] = v]
        BY <1>0, <3>1 DEF RunRefused
      <4>2. v.of = w.of /\ v.show = w.show /\ v.id = w.id /\ v.at = "record"
        BY <1>0 DEF Workers
      <4> QED
        BY <4>1, <4>2
    <3>2. CASE RunBegins(t)
      <4> DEFINE v == [w EXCEPT !.at = "wire"]
      <4>1. worker' = [worker EXCEPT ![t] = v]
        BY <1>0, <3>2 DEF RunBegins
      <4>2. v.of = w.of /\ v.show = w.show /\ v.id = w.id /\ v.at = "wire"
        BY <1>0 DEF Workers
      <4> QED
        BY <4>1, <4>2
    <3>3. CASE RunReturns(t)
      <4>1. PICK state \in Outcomes[w.id] : worker' = [worker EXCEPT ![t] = [w EXCEPT !.at = "record", !.state = state]]
        BY <1>0, <3>3 DEF RunReturns
      <4> DEFINE v == [w EXCEPT !.at = "record", !.state = state]
      <4>2. v.of = w.of /\ v.show = w.show /\ v.id = w.id /\ v.at = "record"
        BY <1>0 DEF Workers
      <4> QED
        BY <4>1, <4>2
    <3> QED
      BY <1>2, <3>1, <3>2, <3>3
  <2> QED
    BY <2>1, <2>2, ScoreWorker
<1>3. CASE RunRaises(t)
  <2> DEFINE v == [w EXCEPT !.at = "put", !.state = "error"]
             e == [of |-> w.of, show |-> w.show, id |-> w.id, state |-> "error", seq |-> 0]
  <2>1. worker' = [worker EXCEPT ![t] = v] /\ ended' = Append(ended, e) /\ UNCHANGED stage /\ w.at = "wire"
    BY <1>0, <1>3 DEF RunRaises, Over
  <2>2. v.at = "put" /\ v.of = w.of /\ v.show = w.show /\ v.id = w.id /\ v.state = "error"
    BY <1>0 DEF Workers
  <2>3. e \in Entries /\ e.of = w.of /\ e.show = w.show /\ e.id = w.id /\ e.state = "error"
    BY <1>0, <2>1 DEF WorkerFine, Workers, InCall, Entries, States
  <2> HIDE DEF v, e
  <2> QED
    BY <2>1, <2>2, <2>3, ScoreOver
<1>4. CASE RunRecorded(t)
  <2> DEFINE seq == Len(records) + 1
             v == [w EXCEPT !.at = "put", !.seq = seq]
             e == [of |-> w.of, show |-> w.show, id |-> w.id, state |-> w.state, seq |-> seq]
  <2>1. worker' = [worker EXCEPT ![t] = v] /\ ended' = Append(ended, e) /\ UNCHANGED stage /\ w.at = "record"
    BY <1>0, <1>4 DEF RunRecorded, Over
  <2>2. v.at = "put" /\ v.of = w.of /\ v.show = w.show /\ v.id = w.id /\ v.state = w.state
    BY <1>0 DEF Workers
  <2>3. seq \in Nat
    BY <1>0
  <2> HIDE DEF seq
  <2>4. e \in Entries /\ e.of = w.of /\ e.show = w.show /\ e.id = w.id /\ e.state = w.state
    BY <1>0, <2>1, <2>3 DEF WorkerFine, Workers, InCall, Entries
  <2> HIDE DEF v, e
  <2> QED
    BY <2>1, <2>2, <2>4, ScoreOver
<1>5. CASE PutResult(t)
  <2>1. w.of # "stage" /\ UNCHANGED <<stage, ended>>
    BY <1>5 DEF PutResult, engineVars
  <2>2. PICK v : worker' = [worker EXCEPT ![t] = v] /\ v.of # "stage" /\ v.at # "put"
    <3> DEFINE v == [Resting EXCEPT !.at = "loop", !.of = "all", !.todo = w.todo]
    <3>1. Resting.of # "stage" /\ Resting.at # "put" /\ v.of # "stage" /\ v.at # "put"
      BY DEF Resting, None
    <3>2. worker' = [worker EXCEPT ![t] = Resting] \/ worker' = [worker EXCEPT ![t] = v]
      BY <1>5 DEF PutResult
    <3> QED
      BY <3>1, <3>2
  <2> QED
    BY <2>1, <2>2, ScoreWorker
<1>6. CASE PutOutcome(t)
  <2>1. /\ worker' = [worker EXCEPT ![t] = Resting] /\ UNCHANGED ended
        /\ w.at = "put" /\ w.of = "stage" /\ w.id \in Ids /\ w.state \in States
    BY <1>0, <1>6 DEF PutOutcome, engineVars, WorkerFine, InCall
  <2>2. worker'[t] = Resting /\ Resting.of # "stage" /\ \A u \in Threads : u # t => worker'[u] = worker[u]
    BY <1>0, <2>1 DEF Resting, None
  <2>3. CASE stage.open /\ stage.show = w.show
    <3> DEFINE mail == [id |-> w.id, state |-> w.state]
    <3>1. stage' = [stage EXCEPT !.mail = mail] /\ OnStageNow(t)
      BY <1>6, <2>1, <2>3 DEF PutOutcome, OnStageNow
    <3>2. mail # NoMail /\ mail.id = w.id /\ mail.state = w.state
      BY <2>1 DEF NoMail, States, None
    <3> HIDE DEF mail
    <3>3. /\ stage'.open = stage.open /\ stage'.show = stage.show /\ stage'.deck = stage.deck
          /\ stage'.index = stage.index /\ stage'.busy = stage.busy /\ stage'.results = stage.results
          /\ stage'.word = stage.word /\ stage'.lane = stage.lane /\ stage'.mail = mail
      BY <3>1 DEF DeskTypes, StageFine, Stages
    <3>4. SessionInv /\ stage.busy /\ stage.mail = NoMail
      BY <2>3, <3>1 DEF ScoreInv, SessionInv
    <3>5. \A u \in Threads : ~OnStageNow(u)'
      BY <2>2, <3>1, <3>3, <3>4 DEF SessionInv, OnStageNow
    <3>6. \A id : LastOnStage(id)' = LastOnStage(id)
      BY <2>1, <3>3, LastSame
    <3>7. mail.id = stage.deck[stage.index] /\ LastOnStage(mail.id) = mail.state
      BY <2>1, <3>1, <3>2, <3>4 DEF SessionInv
    <3>8. WallTrue(stage')
      BY <2>3, <3>3, <3>4, <3>7 DEF ScoreInv, WallTrue, OnTrigger
    <3>9. ShowsSoFar'
      BY <2>1, <2>2, <3>3 DEF ScoreInv, ShowsSoFar
    <3>10. ASSUME NEW id \in Ids PROVE stage'.results[id] = LastOnStage(id)' \/ mail.id = id
      <4>1. \A u \in Threads : OnStageNow(u) => u = t
        BY <3>1, <3>4 DEF SessionInv
      <4> QED
        BY <3>2, <3>3, <3>4, <3>6, <4>1 DEF SessionInv
    <3>11. LastOnStage(stage.mail.id)' = stage'.mail.state
      BY <3>3, <3>6, <3>7
    <3>12. SessionInv'
      BY <3>2, <3>3, <3>5, <3>10, <3>11 DEF SessionInv
    <3> QED
      BY <3>8, <3>9, <3>12 DEF ScoreInv
  <2>4. CASE ~(stage.open /\ stage.show = w.show)
    <3>1. UNCHANGED stage
      BY <1>6, <2>4 DEF PutOutcome
    <3>2. ShowsSoFar'
      BY <2>1, <2>2, <3>1 DEF ScoreInv, ShowsSoFar
    <3>3. stage.open => \A u \in Threads : /\ OnStageNow(u)' => OnStageNow(u) /\ worker'[u] = worker[u]
                                           /\ OnStageNow(u) => OnStageNow(u)' /\ worker'[u] = worker[u]
      BY <2>2, <2>4, <3>1 DEF OnStageNow
    <3>4. \A id : LastOnStage(id)' = LastOnStage(id)
      BY <2>1, <3>1, LastSame
    <3>5. stage.open => SessionInv'
      <4> SUFFICES ASSUME stage.open, SessionInv PROVE SessionInv'
        BY DEF ScoreInv
      <4>1. stage.mail # NoMail => LastOnStage(stage.mail.id)' = stage'.mail.state
        BY <3>1, <3>4 DEF SessionInv
      <4>2. \A u \in Threads : OnStageNow(u)' =>
              /\ worker'[u].id = stage'.deck[stage'.index]
              /\ worker'[u].at = "put" => LastOnStage(worker[u].id)' = worker'[u].state
        BY <3>1, <3>3, <3>4 DEF SessionInv
      <4>3. \A id \in Ids : \/ stage'.results[id] = LastOnStage(id)'
                            \/ stage'.mail # NoMail /\ stage'.mail.id = id
                            \/ \E u \in Threads : OnStageNow(u)' /\ worker'[u].at = "put" /\ worker'[u].id = id
        BY <3>1, <3>3, <3>4 DEF SessionInv
      <4> QED
        BY <3>1, <3>3, <4>1, <4>2, <4>3 DEF SessionInv
    <3> QED
      BY <3>1, <3>2, <3>5 DEF ScoreInv
  <2> QED
    BY <2>3, <2>4
<1> QED
  BY <1>1, <1>2, <1>3, <1>4, <1>5, <1>6 DEF Work

LEMMA RenderedKeeps ==
  ASSUME NEW st \in Stages, NEW r, r = Rendered(st)
  PROVE  /\ r.open = st.open /\ r.show = st.show /\ r.deck = st.deck /\ r.index = st.index
         /\ r.busy = st.busy /\ r.mail = st.mail /\ r.results = st.results
         /\ OnTrigger(r) = OnTrigger(st)
         /\ OnTrigger(st) => r.word = st.results[st.deck[st.index]] /\ r.lane = st.lane
         /\ ~OnTrigger(st) => r.word = None /\ r.lane.verdict = None
<1>1. CASE OnTrigger(st)
  <2>1. r = [st EXCEPT !.word = st.results[st.deck[st.index]]]
    BY <1>1 DEF Rendered
  <2> QED
    BY <1>1, <2>1 DEF Stages, OnTrigger
<1>2. CASE ~OnTrigger(st)
  <2>1. r = [st EXCEPT !.word = None, !.lane = Wire!Unfired]
    BY <1>2 DEF Rendered, Wire!LaneCleared
  <2>2. Wire!Unfired.verdict = None
    BY DEF Wire!Unfired
  <2> QED
    BY <1>2, <2>1, <2>2 DEF Stages, OnTrigger
<1> QED
  BY <1>1, <1>2

(* The scoreboard of a session without a run is complete, as long as the   *)
(* session is the one it was.                                              *)
LEMMA ScoreIdle ==
  ASSUME UNCHANGED <<worker, ended>>, SessionInv, ~stage.busy, stage.mail = NoMail,
         stage'.show = stage.show, stage'.results = stage.results, stage'.mail = NoMail
  PROVE  SessionInv'
<1>1. \A id : LastOnStage(id)' = LastOnStage(id)
  BY LastSame
<1>2. \A t \in Threads : ~OnStageNow(t) /\ ~OnStageNow(t)'
  BY DEF SessionInv, OnStageNow
<1>3. \A id \in Ids : stage'.results[id] = LastOnStage(id)'
  BY <1>1, <1>2 DEF SessionInv
<1> QED
  BY <1>2, <1>3 DEF SessionInv

LEMMA ScoreClick ==
  ASSUME DeskTypes, ScoreInv, Click
  PROVE  ScoreInv'
<1>0. /\ worker \in [Threads -> Workers] /\ ended \in Seq(Entries)
      /\ StageFine(stage) /\ stage \in Stages /\ stage.show \in Nat
  BY DEF DeskTypes, WorkersOK, EngineOK, StageFine, Stages
<1>1. ASSUME NEW w, Spawn(w), w.at # "put", w.of # "stage", UNCHANGED <<stage, ended>> PROVE ScoreInv'
  <2>1. PICK t \in Threads : worker[t].at = "idle" /\ worker' = [worker EXCEPT ![t] = w]
    BY <1>1, SpawnDoes
  <2> QED
    BY <1>1, <2>1, ScoreWorker
<1>2. ASSUME NEW id \in Ids, Fire(id) PROVE ScoreInv'
  <2> DEFINE w == [Resting EXCEPT !.at = "call", !.of = "card", !.id = id]
  <2>1. Spawn(w) /\ w.at # "put" /\ w.of # "stage" /\ UNCHANGED <<stage, ended>>
    BY <1>2 DEF Fire, Resting, engineVars
  <2> HIDE DEF w
  <2> QED
    BY <1>1, <2>1
<1>3. CASE StartRunAll
  <2> DEFINE w == [Resting EXCEPT !.at = "loop", !.of = "all", !.todo = RunAllDeck]
  <2>1. Spawn(w) /\ w.at # "put" /\ w.of # "stage" /\ UNCHANGED <<stage, ended>>
    BY <1>3 DEF StartRunAll, Resting, engineVars
  <2> HIDE DEF w
  <2> QED
    BY <1>1, <2>1
<1>4. CASE UNCHANGED <<worker, ended, stage>>
  <2>1. \A id : LastOnStage(id)' = LastOnStage(id)
    BY <1>4, LastSame
  <2>2. \A t \in Threads : OnStageNow(t)' = OnStageNow(t)
    BY <1>4 DEF OnStageNow
  <2>3. LastOnStage(stage.mail.id)' = LastOnStage(stage.mail.id)
        /\ \A t \in Threads : LastOnStage(worker[t].id)' = LastOnStage(worker[t].id)
    BY <1>4, <2>1
  <2>4. SessionInv => SessionInv'
    BY <1>4, <2>1, <2>2, <2>3 DEF SessionInv
  <2> QED
    BY <1>4, <2>4 DEF ScoreInv, ShowsSoFar
<1>5. CASE StageOpen
  <2>1. PICK deck \in StageDecks :
          stage' = Rendered([NoStage EXCEPT !.open = TRUE, !.show = stage.show + 1, !.deck = deck])
    BY <1>5 DEF StageOpen, StageStep
  <2> DEFINE show == stage.show + 1
             st == [NoStage EXCEPT !.open = TRUE, !.show = show, !.deck = deck]
  <2>2. deck \in Seq(Ids) /\ deck # <<>> /\ show \in Nat
    BY <1>0, DecksOfIds
  <2>3. show > stage.show
    BY <1>0
  <2> HIDE DEF show
  <2>4. NoStage \in Stages
    BY LanesKept DEF NoStage, Stages, NoMail
  <2>5. st \in Stages
    BY <2>2, <2>4 DEF Stages
  <2>6. /\ st.open = TRUE /\ st.show = show /\ st.deck = deck /\ st.index = 1 /\ st.busy = FALSE /\ st.mail = NoMail
        /\ st.results = [id \in Ids |-> None] /\ st.lane.verdict = None
    BY DEF NoStage, Wire!Unfired
  <2>7. stage' = Rendered(st)
    BY <2>1 DEF show
  <2> HIDE DEF st
  <2>8. OnTrigger(st) /\ deck[1] \in Ids
    BY <2>2, <2>6 DEF OnTrigger
  <2>9. /\ stage'.open = TRUE /\ stage'.show = show /\ stage'.deck = deck /\ stage'.index = 1 /\ stage'.busy = FALSE
        /\ stage'.mail = NoMail /\ stage'.results = [id \in Ids |-> None] /\ stage'.lane.verdict = None
        /\ stage'.word = None /\ OnTrigger(stage')
    BY <2>5, <2>6, <2>7, <2>8, RenderedKeeps
  <2>10. UNCHANGED <<worker, ended>>
    BY <1>5 DEF StageOpen, StageStep, engineVars
  <2>11. WallTrue(stage')
    BY <2>8, <2>9 DEF WallTrue
  <2>12. \A t \in Threads : worker[t].of = "stage" => worker[t].show < show
    <3>1. \A t \in Threads : worker[t].show \in Nat
      BY <1>0 DEF Workers
    <3>2. \A t \in Threads : worker[t].of = "stage" => worker[t].show <= stage.show
      BY DEF ScoreInv, ShowsSoFar
    <3> QED
      BY <1>0, <2>2, <2>3, <3>1, <3>2
  <2>13. \A i \in DOMAIN ended : ended[i].of = "stage" => ended[i].show < show
    <3>1. \A i \in DOMAIN ended : ended[i].show \in Nat
      <4>1. \A i \in DOMAIN ended : ended[i] \in Entries
        BY <1>0
      <4> QED
        BY <4>1 DEF Entries
    <3>2. \A i \in DOMAIN ended : ended[i].of = "stage" => ended[i].show <= stage.show
      BY DEF ScoreInv, ShowsSoFar
    <3> QED
      BY <1>0, <2>2, <2>3, <3>1, <3>2
  <2>14. ShowsSoFar'
    <3>1. \A t \in Threads : worker[t].show \in Nat
      BY <1>0 DEF Workers
    <3>2. \A i \in DOMAIN ended : ended[i].show \in Nat
      <4>1. \A i \in DOMAIN ended : ended[i] \in Entries
        BY <1>0
      <4> QED
        BY <4>1 DEF Entries
    <3> QED
      BY <2>2, <2>9, <2>10, <2>12, <2>13, <3>1, <3>2 DEF ShowsSoFar
  <2>15. \A t \in Threads : ~OnStageNow(t)'
    <3>1. \A t \in Threads : worker[t].show \in Nat
      BY <1>0 DEF Workers
    <3> QED
      BY <2>2, <2>9, <2>10, <2>12, <3>1 DEF OnStageNow
  <2>16. \A id : LastOnStage(id)' = None
    <3>1. \A i \in DOMAIN ended : ~(ended[i].of = "stage" /\ ended[i].show = show)
      <4>1. \A i \in DOMAIN ended : ended[i] \in Entries
        BY <1>0
      <4> QED
        BY <2>2, <2>13, <4>1 DEF Entries
    <3> QED
      BY <2>9, <2>10, <3>1 DEF LastOnStage
  <2>17. SessionInv'
    BY <2>9, <2>15, <2>16 DEF SessionInv
  <2> QED
    BY <2>11, <2>14, <2>17 DEF ScoreInv
<1>6. CASE StageClose
  <2>1. stage' = [NoStage EXCEPT !.show = stage.show] /\ UNCHANGED <<worker, ended>>
    BY <1>6 DEF StageClose, StageStep, engineVars
  <2>2. stage'.open = FALSE /\ stage'.mail = NoMail /\ stage'.show = stage.show
    BY <2>1 DEF NoStage
  <2> QED
    BY <2>1, <2>2 DEF ScoreInv, WallTrue, ShowsSoFar
<1>7. ASSUME NEW delta \in {-1, 1}, StageGoto(stage.index + delta) PROVE ScoreInv'
  <2> DEFINE i == stage.index + delta
             st == SteppedTo(stage, i)
  <2>1. /\ stage.open /\ ~stage.busy /\ i \in 1..(Len(stage.deck) + 1) /\ stage' = Rendered(st)
        /\ UNCHANGED <<worker, ended>>
    BY <1>7 DEF StageGoto, StageStep, engineVars
  <2>2. i \in Nat \ {0}
    BY <1>0, <2>1 DEF Stages
  <2> HIDE DEF i
  <2>3. Wire!Unfired \in Lanes /\ Wire!Unfired.verdict = None
    BY LanesKept DEF Wire!Unfired
  <2>4. st = [stage EXCEPT !.index = i, !.lane = Wire!Unfired]
    BY DEF SteppedTo, Wire!LaneCleared
  <2>5. st \in Stages
    BY <1>0, <2>2, <2>3, <2>4 DEF Stages
  <2>6. /\ st.open = stage.open /\ st.show = stage.show /\ st.busy = stage.busy /\ st.mail = stage.mail
        /\ st.results = stage.results /\ st.deck = stage.deck /\ st.lane.verdict = None
    BY <1>0, <2>3, <2>4 DEF Stages
  <2>7. stage.mail = NoMail /\ SessionInv
    BY <2>1 DEF ScoreInv, WallTrue
  <2> HIDE DEF st
  <2>8. /\ stage'.open = stage.open /\ stage'.show = stage.show /\ stage'.busy = stage.busy /\ stage'.mail = stage.mail
        /\ stage'.results = stage.results /\ stage'.lane.verdict = None
        /\ stage'.word = IF OnTrigger(stage') THEN stage'.results[stage'.deck[stage'.index]] ELSE None
    <3> DEFINE r == stage'
    <3>1. r = Rendered(st)
      BY <2>1
    <3> HIDE DEF r
    <3>2. /\ r.open = st.open /\ r.show = st.show /\ r.deck = st.deck /\ r.index = st.index
          /\ r.busy = st.busy /\ r.mail = st.mail /\ r.results = st.results
          /\ OnTrigger(r) = OnTrigger(st)
          /\ OnTrigger(st) => r.word = st.results[st.deck[st.index]] /\ r.lane = st.lane
          /\ ~OnTrigger(st) => r.word = None /\ r.lane.verdict = None
      BY <2>5, <3>1, RenderedKeeps
    <3> QED
      BY <2>6, <3>2 DEF r
  <2>9. WallTrue(stage')
    BY <2>1, <2>7, <2>8 DEF WallTrue
  <2>10. SessionInv'
    BY <2>1, <2>7, <2>8, ScoreIdle
  <2> QED
    BY <2>1, <2>8, <2>9, <2>10 DEF ScoreInv, ShowsSoFar
<1>8. CASE StageFire
  <2> DEFINE st == [stage EXCEPT !.busy = TRUE, !.lane = Wire!LaneFired]
             id == stage.deck[stage.index]
             w == [Resting EXCEPT !.at = "call", !.of = "stage", !.show = stage.show, !.id = id]
  <2>1. stage.open /\ OnTrigger(stage) /\ ~stage.busy /\ stage' = Rendered(st) /\ UNCHANGED ended /\ Spawn(w)
    BY <1>8 DEF StageFire, MayFireStage, StageStep, engineVars
  <2>2. w.at = "call" /\ w.of = "stage" /\ w.show = stage.show /\ w.id = id
    BY DEF Resting
  <2> HIDE DEF w
  <2>3. PICK t \in Threads : worker' = [worker EXCEPT ![t] = w]
    BY <2>1, SpawnDoes
  <2>4. worker'[t] = w /\ \A u \in Threads : u # t => worker'[u] = worker[u]
    BY <1>0, <2>3
  <2>5. st \in Stages
    BY <1>0, LanesKept DEF Stages
  <2>6. Wire!LaneFired.verdict = None
    BY DEF Wire!LaneFired, Wire!Unfired
  <2>7. /\ st.open = stage.open /\ st.show = stage.show /\ st.busy = TRUE /\ st.mail = stage.mail
        /\ st.results = stage.results /\ st.deck = stage.deck /\ st.index = stage.index /\ st.lane.verdict = None
    BY <1>0, <2>6 DEF Stages
  <2> HIDE DEF st, id
  <2>8. OnTrigger(st)
    BY <2>1, <2>7 DEF OnTrigger
  <2>9. /\ stage'.open = stage.open /\ stage'.show = stage.show /\ stage'.busy = TRUE /\ stage'.mail = stage.mail
        /\ stage'.results = stage.results /\ stage'.deck = stage.deck /\ stage'.index = stage.index
        /\ stage'.lane.verdict = None /\ OnTrigger(stage')
    BY <2>1, <2>5, <2>7, <2>8, RenderedKeeps
  <2>10. SessionInv /\ stage.mail = NoMail
    BY <2>1 DEF ScoreInv, WallTrue
  <2>11. \A u \in Threads : ~OnStageNow(u)
    BY <2>1, <2>10 DEF SessionInv
  <2>12. \A u \in Threads : OnStageNow(u)' <=> u = t
    BY <2>2, <2>4, <2>9, <2>11 DEF OnStageNow
  <2>13. \A x : LastOnStage(x)' = LastOnStage(x)
    BY <2>1, <2>9, LastSame
  <2>14. \A x \in Ids : stage'.results[x] = LastOnStage(x)'
    BY <2>9, <2>10, <2>11, <2>13 DEF SessionInv
  <2>15. worker'[t].id = stage'.deck[stage'.index] /\ worker'[t].at # "put"
    BY <2>2, <2>4, <2>9 DEF id
  <2>16. SessionInv'
    BY <2>9, <2>10, <2>12, <2>14, <2>15 DEF SessionInv
  <2>17. WallTrue(stage')
    BY <2>9, <2>10 DEF WallTrue
  <2>18. ShowsSoFar'
    BY <1>0, <2>1, <2>2, <2>4, <2>9 DEF ScoreInv, ShowsSoFar
  <2> QED
    BY <2>16, <2>17, <2>18 DEF ScoreInv
<1> QED
  BY <1>2, <1>3, <1>4, <1>5, <1>6, <1>7, <1>8 DEF Click, CycleConfirmed, StopRunAll, engineVars

LEMMA ScorePoll ==
  ASSUME DeskTypes, ScoreInv, StagePoll
  PROVE  ScoreInv'
<1> DEFINE back == stage.mail
           st == [stage EXCEPT !.mail = NoMail, !.busy = FALSE, !.results[back.id] = back.state,
                               !.lane = Wire!LaneResolved(stage.lane, back.state)]
<1>0. StageFine(stage) /\ stage \in Stages
  BY DEF DeskTypes, StageFine
<1>1. stage' = Rendered(st) /\ UNCHANGED <<worker, ended>> /\ back # NoMail
  BY DEF StagePoll, StageStep, engineVars
<1>2. stage.open /\ SessionInv /\ OnTrigger(stage) /\ back.id = stage.deck[stage.index]
  BY <1>1 DEF ScoreInv, WallTrue
<1>3. back.id \in Ids /\ back.state \in States
  BY <1>0, <1>1 DEF Stages
<1> HIDE DEF back
<1>4. Wire!LaneResolved(stage.lane, back.state) \in Lanes /\ Wire!LaneResolved(stage.lane, back.state).verdict = back.state
  <2>1. stage.lane \in Lanes
    BY <1>0 DEF Stages
  <2>2. Wire!LaneResolved(stage.lane, back.state).verdict = back.state
    BY <2>1 DEF Lanes, Wire!LaneResolved
  <2> QED
    BY <1>3, <2>1, <2>2, LanesKept
<1>5. st \in Stages
  BY <1>0, <1>3, <1>4 DEF Stages
<1>6. /\ st.open = stage.open /\ st.show = stage.show /\ st.busy = FALSE /\ st.mail = NoMail
      /\ st.results = [stage.results EXCEPT ![back.id] = back.state]
      /\ st.deck = stage.deck /\ st.index = stage.index /\ st.lane.verdict = back.state
  BY <1>0, <1>4 DEF Stages
<1> HIDE DEF st
<1>7. OnTrigger(st) /\ st.results[back.id] = back.state /\ \A id \in Ids : id # back.id => st.results[id] = stage.results[id]
  BY <1>0, <1>2, <1>3, <1>6 DEF OnTrigger, Stages
<1> DEFINE r == stage'
<1>8. r = Rendered(st)
  BY <1>1
<1> HIDE DEF r
<1>9. /\ r.open = st.open /\ r.show = st.show /\ r.deck = st.deck /\ r.index = st.index
      /\ r.busy = st.busy /\ r.mail = st.mail /\ r.results = st.results
      /\ OnTrigger(r) = OnTrigger(st)
      /\ OnTrigger(st) => r.word = st.results[st.deck[st.index]] /\ r.lane = st.lane
  BY <1>5, <1>8, RenderedKeeps
<1>10. WallTrue(r)
  BY <1>2, <1>6, <1>7, <1>9 DEF WallTrue
<1>11. stage'.show = stage.show /\ stage'.mail = NoMail /\ stage'.results = st.results
  BY <1>6, <1>9 DEF r
<1>12. ShowsSoFar'
  BY <1>1, <1>11 DEF ScoreInv, ShowsSoFar
<1>13. \A id : LastOnStage(id)' = LastOnStage(id)
  BY <1>1, <1>11, LastSame
<1>14. \A t \in Threads : ~OnStageNow(t) /\ ~OnStageNow(t)'
  BY <1>1, <1>2, <1>11 DEF SessionInv, OnStageNow, back
<1>15. LastOnStage(back.id) = back.state
  BY <1>1, <1>2 DEF SessionInv, back
<1>16. ASSUME NEW id \in Ids PROVE stage'.results[id] = LastOnStage(id)'
  <2>1. CASE id = back.id
    BY <1>7, <1>11, <1>13, <1>15, <2>1
  <2>2. CASE id # back.id
    <3>1. stage.results[id] = LastOnStage(id)
      BY <1>2, <1>14, <2>2 DEF SessionInv, back
    <3> QED
      BY <1>7, <1>11, <1>13, <2>2, <3>1
  <2> QED
    BY <2>1, <2>2
<1>17. SessionInv'
  BY <1>11, <1>14, <1>16 DEF SessionInv
<1> QED
  BY <1>10, <1>12, <1>17 DEF ScoreInv, r

LEMMA ScoreStep ==
  ASSUME DeskTypes, ScoreInv, [Next]_vars
  PROVE  ScoreInv'
<1>1. ASSUME UNCHANGED <<worker, ended>>, stage'.open = stage.open, stage'.show = stage.show,
             stage'.deck = stage.deck, stage'.index = stage.index, stage'.busy = stage.busy,
             stage'.mail = stage.mail, stage'.results = stage.results, stage'.word = stage.word,
             stage'.lane.verdict = stage.lane.verdict
      PROVE  ScoreInv'
  <2>1. \A id : LastOnStage(id)' = LastOnStage(id)
    BY <1>1, LastSame
  <2>2. \A t \in Threads : OnStageNow(t)' = OnStageNow(t)
    BY <1>1 DEF OnStageNow
  <2>3. LastOnStage(stage.mail.id)' = LastOnStage(stage.mail.id)
        /\ \A t \in Threads : LastOnStage(worker[t].id)' = LastOnStage(worker[t].id)
    BY <1>1, <2>1
  <2>4. SessionInv => SessionInv'
    BY <1>1, <2>1, <2>2, <2>3 DEF SessionInv
  <2>5. WallTrue(stage')
    BY <1>1 DEF ScoreInv, WallTrue, OnTrigger
  <2> QED
    BY <1>1, <2>4, <2>5 DEF ScoreInv, ShowsSoFar
<1>2. CASE StageFrame
  <2>1. stage' = [stage EXCEPT !.lane = Wire!LaneAtRest(stage.lane)] /\ UNCHANGED <<worker, ended>>
    BY <1>2 DEF StageFrame, engineVars
  <2>2. stage \in Stages
    BY DEF DeskTypes, StageFine
  <2>3. Wire!LaneAtRest(stage.lane).verdict = stage.lane.verdict
    BY <2>2 DEF Wire!LaneAtRest, Stages, Lanes
  <2> QED
    BY <1>1, <2>1, <2>2, <2>3 DEF Stages
<1>3. CASE UNCHANGED <<worker, ended, stage>>
  BY <1>1, <1>3
<1> QED
  BY <1>2, <1>3, ScoreClick, ScoreWork, ScorePoll
     DEF Next, PumpOnce, ArmLane, SetResult, RunAllDone, Pump, LaneFrame, vars, engineVars

(* Whenever the presenter can act, the scoreboard holds for each trigger   *)
(* how this session's last run of it ended and for no other a thing, and   *)
(* the word and the lane are those of the trigger on stage.                *)
THEOREM ScoreboardHolds == Spec => []ScoreboardIsTrue
<1>1. Init => ScoreInv
  BY DEF Init, Resting, None, NoStage, ScoreInv, WallTrue, ShowsSoFar
<1>2. DeskTypes /\ ScoreInv => ScoreboardIsTrue
  <2> SUFFICES ASSUME DeskTypes, ScoreInv, stage.open PROVE ScoreboardIsTrue
    BY DEF ScoreboardIsTrue
  <2>1. CASE stage.busy
    BY <2>1 DEF ScoreInv, WallTrue, ScoreboardIsTrue
  <2>2. CASE ~stage.busy
    <3>1. stage.mail = NoMail /\ \A t \in Threads : ~OnStageNow(t)
      BY <2>2 DEF ScoreInv, WallTrue, SessionInv
    <3>2. \A id \in Ids : stage.results[id] = LastOnStage(id)
      BY <3>1 DEF ScoreInv, SessionInv
    <3>3. OnTrigger(stage) => stage.deck[stage.index] \in Ids
      BY DEF DeskTypes, StageFine, Stages, OnTrigger
    <3> QED
      BY <2>2, <3>2, <3>3 DEF ScoreInv, WallTrue, ScoreboardIsTrue
  <2> QED
    BY <2>1, <2>2
<1> QED
  BY <1>1, <1>2, InitTypes, TypesStep, ScoreStep, PTL DEF Spec

-----------------------------------------------------------------------------
(* The tally.                                                              *)

LEMMA Shifted ==
  ASSUME NEW n \in Nat, NEW A, A \subseteq 2..n, NEW B, B = {i \in 1..(n - 1) : i + 1 \in A}
  PROVE  IsFiniteSet(A) /\ IsFiniteSet(B) /\ Cardinality(B) = Cardinality(A)
<1> DEFINE up == [i \in B |-> i + 1]
<1>1. IsFiniteSet(A) /\ IsFiniteSet(B)
  <2>1. IsFiniteSet(2..n) /\ IsFiniteSet(1..(n - 1))
    BY FS_Interval
  <2> QED
    BY <2>1, FS_Subset
<1>2. up \in Bijection(B, A)
  <2>1. up \in [B -> A] /\ \A i, j \in B : up[i] = up[j] => i = j
    OBVIOUS
  <2>2. \A a \in A : a - 1 \in B /\ up[a - 1] = a
    OBVIOUS
  <2> HIDE DEF up
  <2>3. up \in Injection(B, A)
    BY <2>1 DEF Injection, IsInjective
  <2>4. up \in Surjection(B, A)
    BY <2>1, <2>2 DEF Surjection
  <2> QED
    BY <2>3, <2>4 DEF Bijection
<1> HIDE DEF up
<1> QED
  BY <1>1, <1>2, FS_Bijection DEF ExistsBijection

LEMMA OneMore ==
  ASSUME NEW S, IsFiniteSet(S), NEW x, x \notin S
  PROVE  IsFiniteSet(S \cup {x}) /\ Cardinality(S) \in Nat /\ Cardinality(S \cup {x}) = Cardinality(S) + 1
BY FS_AddElement, FS_CardinalityType

LEMMA OneLess ==
  ASSUME NEW S, IsFiniteSet(S), NEW x \in S
  PROVE  IsFiniteSet(S \ {x}) /\ Cardinality(S) \in Nat /\ Cardinality(S) = Cardinality(S \ {x}) + 1
<1>1. IsFiniteSet(S \ {x}) /\ Cardinality(S \ {x}) = Cardinality(S) - 1
  BY FS_RemoveElement
<1>2. Cardinality(S) \in Nat
  BY FS_CardinalityType
<1> QED
  BY <1>1, <1>2

(* What is counted of a state: results over, with a worker, in the queue.  *)
Finished(state) == {i \in DOMAIN ended : ended[i].of \in {"card", "all"} /\ ended[i].state = state}

InHand(state) == {t \in Threads : /\ worker[t].at = "put" /\ worker[t].of \in {"card", "all"}
                                  /\ worker[t].state = state}

InQueue(state) == {i \in DOMAIN queue : queue[i].do = "result" /\ queue[i].state = state}

Sums(state) ==
  observed[state] + (Cardinality(InQueue(state)) + Cardinality(InHand(state))) = Cardinality(Finished(state))

LEMMA TallyMeans == TallyIsTrue <=> \A state \in States : Sums(state)
BY DEF TallyIsTrue, UnderWay, Count, Sums, InQueue, InHand, Finished

LEMMA CountsFinite ==
  ASSUME DeskTypes, NEW state
  PROVE  /\ IsFiniteSet(Finished(state)) /\ IsFiniteSet(InHand(state)) /\ IsFiniteSet(InQueue(state))
         /\ Cardinality(Finished(state)) \in Nat /\ Cardinality(InHand(state)) \in Nat
         /\ Cardinality(InQueue(state)) \in Nat
<1>1. queue \in Seq(Messages) /\ ended \in Seq(Entries)
  BY DEF DeskTypes, WindowOK, EngineOK
<1>2. Finished(state) \subseteq 1..Len(ended) /\ InQueue(state) \subseteq 1..Len(queue) /\ InHand(state) \subseteq Threads
  BY <1>1 DEF Finished, InQueue, InHand
<1>3. IsFiniteSet(1..Len(ended)) /\ IsFiniteSet(1..Len(queue)) /\ IsFiniteSet(Threads)
  <2>1. Len(ended) \in Nat /\ Len(queue) \in Nat
    BY <1>1
  <2> QED
    BY <2>1, FS_Interval, DeskAssumption
<1> QED
  BY <1>2, <1>3, FS_Subset, FS_CardinalityType

(* A worker holds a result for the tally.                                  *)
Holds(w, state) == w.at = "put" /\ w.of \in {"card", "all"} /\ w.state = state

LEMMA HandMoves ==
  ASSUME DeskTypes, NEW t \in Threads, NEW v, worker' = [worker EXCEPT ![t] = v], NEW state
  PROVE  /\ Holds(v, state) => InHand(state)' = InHand(state) \cup {t}
         /\ ~Holds(v, state) => InHand(state)' = InHand(state) \ {t}
         /\ t \in InHand(state) <=> Holds(worker[t], state)
<1>1. worker'[t] = v /\ \A u \in Threads : u # t => worker'[u] = worker[u]
  BY DEF DeskTypes, WorkersOK
<1> QED
  BY <1>1 DEF InHand, Holds

LEMMA TallyKept ==
  ASSUME NEW state, Sums(state), InHand(state)' = InHand(state), InQueue(state)' = InQueue(state),
         UNCHANGED <<ended, observed>>
  PROVE  Sums(state)'
BY DEF Sums, Finished

(* A worker goes on, with nothing for the tally before or after.           *)
LEMMA TallyWorker ==
  ASSUME DeskTypes, NEW t \in Threads, NEW v, worker' = [worker EXCEPT ![t] = v], NEW state, Sums(state),
         ~Holds(worker[t], state), ~Holds(v, state), InQueue(state)' = InQueue(state),
         UNCHANGED <<ended, observed>>
  PROVE  Sums(state)'
<1>1. InHand(state)' = InHand(state) \ {t} /\ t \notin InHand(state)
  BY HandMoves
<1>2. InHand(state)' = InHand(state)
  BY <1>1
<1> QED
  BY <1>2, TallyKept

(* A run is over.                                                          *)
LEMMA TallyOver ==
  ASSUME DeskTypes, NEW t \in Threads, NEW v, NEW e \in Entries, NEW state, Sums(state),
         worker' = [worker EXCEPT ![t] = v], ended' = Append(ended, e), UNCHANGED <<queue, observed>>,
         worker[t].at # "put", v.at = "put", e.of = v.of, e.state = v.state,
         observed[state] \in Nat
  PROVE  Sums(state)'
<1> DEFINE n == Len(ended) + 1
<1>1. ended \in Seq(Entries)
  BY DEF DeskTypes, EngineOK
<1>2. /\ DOMAIN ended' = DOMAIN ended \cup {n} /\ n \notin DOMAIN ended /\ ended'[n] = e
      /\ \A i \in DOMAIN ended : ended'[i] = ended[i]
  BY <1>1, Appended
<1> HIDE DEF n
<1>3. InQueue(state)' = InQueue(state)
  BY DEF InQueue
<1>4. t \notin InHand(state)
  BY DEF InHand
<1>5. n \notin Finished(state)
  BY <1>2 DEF Finished
<1>6. CASE Holds(v, state)
  <2>1. InHand(state)' = InHand(state) \cup {t}
    BY <1>6, HandMoves
  <2>2. Finished(state)' = Finished(state) \cup {n}
    BY <1>2, <1>6 DEF Finished, Holds
  <2>3. Cardinality(InHand(state)') = Cardinality(InHand(state)) + 1
    BY <1>4, <2>1, OneMore, CountsFinite
  <2>4. Cardinality(Finished(state)') = Cardinality(Finished(state)) + 1
    BY <1>5, <2>2, OneMore, CountsFinite
  <2>5. Cardinality(InHand(state)) \in Nat /\ Cardinality(InQueue(state)) \in Nat
    BY CountsFinite
  <2> QED
    BY <1>3, <2>3, <2>4, <2>5 DEF Sums
<1>7. CASE ~Holds(v, state)
  <2>1. InHand(state)' = InHand(state)
    <3>1. InHand(state)' = InHand(state) \ {t}
      BY <1>7, HandMoves
    <3> QED
      BY <1>4, <3>1
  <2>2. Finished(state)' = Finished(state)
    BY <1>2, <1>7 DEF Finished, Holds
  <2> QED
    BY <1>3, <2>1, <2>2 DEF Sums
<1> QED
  BY <1>6, <1>7

(* A message for the queue, or from it.                                    *)
LEMMA QueueGains ==
  ASSUME queue \in Seq(Messages), NEW m \in Messages, queue' = Append(queue, m), NEW state
  PROVE  /\ Len(queue) + 1 \notin InQueue(state)
         /\ InQueue(state)' = IF m.do = "result" /\ m.state = state
                              THEN InQueue(state) \cup {Len(queue) + 1} ELSE InQueue(state)
<1> DEFINE n == Len(queue) + 1
<1>1. /\ DOMAIN queue' = DOMAIN queue \cup {n} /\ n \notin DOMAIN queue /\ queue'[n] = m
      /\ \A i \in DOMAIN queue : queue'[i] = queue[i]
  BY Appended
<1> HIDE DEF n
<1>2. n \notin InQueue(state)
  BY <1>1 DEF InQueue
<1>3. InQueue(state)' = IF m.do = "result" /\ m.state = state THEN InQueue(state) \cup {n} ELSE InQueue(state)
  BY <1>1 DEF InQueue
<1> QED
  BY <1>2, <1>3 DEF n

LEMMA QueueLoses ==
  ASSUME DeskTypes, queue # <<>>, queue' = Tail(queue), NEW state
  PROVE  Cardinality(InQueue(state)) =
           Cardinality(InQueue(state)') + IF Head(queue).do = "result" /\ Head(queue).state = state THEN 1 ELSE 0
<1> DEFINE n == Len(queue)
           A == InQueue(state) \ {1}
           B == InQueue(state)'
<1>0. queue \in Seq(Messages) /\ n \in Nat
  BY DEF DeskTypes, WindowOK
<1>1. /\ DOMAIN queue = 1..n /\ DOMAIN queue' = 1..(n - 1) /\ Head(queue) = queue[1] /\ 1 \in DOMAIN queue
      /\ \A i \in 1..(n - 1) : queue'[i] = queue[i + 1]
  BY <1>0
<1>2. A \subseteq 2..n
  BY <1>0, <1>1 DEF InQueue
<1>3. B = {i \in 1..(n - 1) : i + 1 \in A}
  BY <1>0, <1>1 DEF InQueue
<1> HIDE DEF A, B, n
<1>4. IsFiniteSet(A) /\ IsFiniteSet(B) /\ Cardinality(B) = Cardinality(A)
  BY <1>0, <1>2, <1>3, Shifted
<1>5. Cardinality(A) \in Nat
  BY <1>4, FS_CardinalityType
<1>6. CASE Head(queue).do = "result" /\ Head(queue).state = state
  <2>1. 1 \in InQueue(state)
    BY <1>1, <1>6 DEF InQueue
  <2>2. Cardinality(InQueue(state)) = Cardinality(A) + 1
    BY <2>1, OneLess, CountsFinite DEF A
  <2> QED
    BY <1>4, <1>6, <2>2 DEF B
<1>7. CASE ~(Head(queue).do = "result" /\ Head(queue).state = state)
  <2>1. A = InQueue(state)
    BY <1>1, <1>7 DEF InQueue, A
  <2> QED
    BY <1>4, <1>5, <1>7, <2>1 DEF B
<1> QED
  BY <1>6, <1>7

LEMMA TallyWork ==
  ASSUME DeskTypes, NEW t \in Threads, Work(t), NEW state \in States, Sums(state)
  PROVE  Sums(state)'
<1> DEFINE w == worker[t]
<1>0. /\ worker \in [Threads -> Workers] /\ WorkerFine(w) /\ w \in Workers /\ records \in Seq(Records)
      /\ queue \in Seq(Messages) /\ observed[state] \in Nat
  BY DEF DeskTypes, WorkersOK, EngineOK, WindowOK, WorkerFine
<1>1. UNCHANGED observed
  BY DEF Work, RunAllTurn, RunRefused, RunBegins, Begins, RunReturns, RunRaises, RunRecorded, PutResult, PutOutcome, windowVars
<1>2. UNCHANGED queue => InQueue(state)' = InQueue(state)
  BY DEF InQueue
<1>3. ASSUME NEW v, worker' = [worker EXCEPT ![t] = v], w.at # "put", v.at # "put", UNCHANGED ended,
             InQueue(state)' = InQueue(state)
      PROVE  Sums(state)'
  <2>1. ~Holds(w, state) /\ ~Holds(v, state)
    BY <1>3 DEF Holds
  <2> QED
    BY <1>1, <1>3, <2>1, TallyWorker
<1>4. CASE RunAllTurn(t)
  <2>1. w.at = "loop" /\ UNCHANGED ended
    BY <1>4 DEF RunAllTurn, engineVars
  <2>2. CASE MustEnd(w)
    <3>1. worker' = [worker EXCEPT ![t] = Resting] /\ Resting.at # "put" /\ queue' = Append(queue, [do |-> "done"])
      BY <1>4, <2>2 DEF RunAllTurn, Resting
    <3>2. [do |-> "done"] \in Messages
      BY DEF Messages
    <3>3. InQueue(state)' = InQueue(state)
      BY <1>0, <3>1, <3>2, QueueGains
    <3> QED
      BY <1>3, <2>1, <3>1, <3>3
  <2>3. CASE ~MustEnd(w)
    <3> DEFINE v == [w EXCEPT !.at = "call", !.id = Head(w.todo), !.todo = Tail(w.todo)]
               arm == [do |-> "arm", id |-> Head(w.todo)]
    <3>1. worker' = [worker EXCEPT ![t] = v] /\ v.at = "call" /\ queue' = Append(queue, arm)
      BY <1>0, <1>4, <2>3 DEF RunAllTurn, Workers
    <3>2. arm \in Messages /\ arm.do # "result"
      BY <1>0, <2>3 DEF WorkerFine, MustEnd, Messages
    <3> HIDE DEF v, arm
    <3>3. InQueue(state)' = InQueue(state)
      BY <1>0, <3>1, <3>2, QueueGains
    <3> QED
      BY <1>3, <2>1, <3>1, <3>3
  <2> QED
    BY <2>2, <2>3
<1>5. CASE RunRefused(t)
  <2> DEFINE v == [w EXCEPT !.at = "record", !.state = IF w.id \in Declined THEN "invalid" ELSE "error"]
  <2>1. worker' = [worker EXCEPT ![t] = v] /\ v.at = "record" /\ w.at = "call" /\ UNCHANGED <<queue, ended>>
    BY <1>0, <1>5 DEF RunRefused, Begins, Workers
  <2> HIDE DEF v
  <2> QED
    BY <1>2, <1>3, <2>1
<1>6. CASE RunBegins(t)
  <2> DEFINE v == [w EXCEPT !.at = "wire"]
  <2>1. worker' = [worker EXCEPT ![t] = v] /\ v.at = "wire" /\ w.at = "call" /\ UNCHANGED <<queue, ended>>
    BY <1>0, <1>6 DEF RunBegins, Begins, Workers
  <2> HIDE DEF v
  <2> QED
    BY <1>2, <1>3, <2>1
<1>7. CASE RunReturns(t)
  <2>1. PICK s \in Outcomes[w.id] : worker' = [worker EXCEPT ![t] = [w EXCEPT !.at = "record", !.state = s]]
    BY <1>0, <1>7 DEF RunReturns
  <2> DEFINE v == [w EXCEPT !.at = "record", !.state = s]
  <2>2. worker' = [worker EXCEPT ![t] = v] /\ v.at = "record" /\ w.at = "wire" /\ UNCHANGED <<queue, ended>>
    BY <1>0, <1>7, <2>1 DEF RunReturns, Workers
  <2> HIDE DEF v
  <2> QED
    BY <1>2, <1>3, <2>2
<1>8. CASE RunRaises(t)
  <2> DEFINE v == [w EXCEPT !.at = "put", !.state = "error"]
             e == [of |-> w.of, show |-> w.show, id |-> w.id, state |-> "error", seq |-> 0]
  <2>1. worker' = [worker EXCEPT ![t] = v] /\ ended' = Append(ended, e) /\ UNCHANGED queue /\ w.at = "wire"
    BY <1>0, <1>8 DEF RunRaises, Over
  <2>2. v.at = "put" /\ v.of = w.of /\ v.state = "error"
    BY <1>0 DEF Workers
  <2>3. e \in Entries /\ e.of = w.of /\ e.state = "error"
    BY <1>0, <2>1 DEF WorkerFine, Workers, InCall, Entries, States
  <2> HIDE DEF v, e
  <2> QED
    BY <1>0, <1>1, <2>1, <2>2, <2>3, TallyOver
<1>9. CASE RunRecorded(t)
  <2> DEFINE seq == Len(records) + 1
             v == [w EXCEPT !.at = "put", !.seq = seq]
             e == [of |-> w.of, show |-> w.show, id |-> w.id, state |-> w.state, seq |-> seq]
  <2>1. worker' = [worker EXCEPT ![t] = v] /\ ended' = Append(ended, e) /\ UNCHANGED queue /\ w.at = "record"
    BY <1>0, <1>9 DEF RunRecorded, Over
  <2>2. v.at = "put" /\ v.of = w.of /\ v.state = w.state
    BY <1>0 DEF Workers
  <2>3. seq \in Nat
    BY <1>0
  <2> HIDE DEF seq
  <2>4. e \in Entries /\ e.of = w.of /\ e.state = w.state
    BY <1>0, <2>1, <2>3 DEF WorkerFine, Workers, InCall, Entries
  <2> HIDE DEF v, e
  <2> QED
    BY <1>0, <1>1, <2>1, <2>2, <2>4, TallyOver
<1>10. CASE PutResult(t)
  <2> DEFINE m == [do |-> "result", id |-> w.id, state |-> w.state, seq |-> w.seq]
  <2>1. queue' = Append(queue, m) /\ UNCHANGED ended /\ w.at = "put" /\ w.of \in {"card", "all"}
    BY <1>0, <1>10 DEF PutResult, ResultOf, engineVars
  <2>2. m \in Messages /\ m.do = "result" /\ m.state = w.state
    BY <1>0, <2>1 DEF WorkerFine, Workers, InCall, Messages
  <2>3. PICK v : worker' = [worker EXCEPT ![t] = v] /\ v.at # "put"
    <3> DEFINE v == [Resting EXCEPT !.at = "loop", !.of = "all", !.todo = w.todo]
    <3>1. Resting.at # "put" /\ v.at # "put"
      BY DEF Resting
    <3>2. worker' = [worker EXCEPT ![t] = Resting] \/ worker' = [worker EXCEPT ![t] = v]
      BY <1>10 DEF PutResult
    <3> QED
      BY <3>1, <3>2
  <2> HIDE DEF m
  <2>4. ~Holds(v, state)
    BY <2>3 DEF Holds
  <2>5. InHand(state)' = InHand(state) \ {t} /\ (t \in InHand(state) <=> w.state = state)
    <3>1. InHand(state)' = InHand(state) \ {t} /\ (t \in InHand(state) <=> Holds(w, state))
      BY <2>3, <2>4, HandMoves
    <3> QED
      BY <2>1, <3>1 DEF Holds
  <2>6. /\ Len(queue) + 1 \notin InQueue(state)
        /\ InQueue(state)' = IF w.state = state THEN InQueue(state) \cup {Len(queue) + 1} ELSE InQueue(state)
    BY <1>0, <2>1, <2>2, QueueGains
  <2>7. CASE w.state = state
    <3>1. Cardinality(InHand(state)) = Cardinality(InHand(state)') + 1
      BY <2>5, <2>7, OneLess, CountsFinite
    <3>2. Cardinality(InQueue(state)') = Cardinality(InQueue(state)) + 1
      BY <2>6, <2>7, OneMore, CountsFinite
    <3>3. Cardinality(InHand(state)') \in Nat
      <4>1. IsFiniteSet(InHand(state) \ {t})
        BY CountsFinite, FS_RemoveElement
      <4> QED
        BY <2>5, <4>1, FS_CardinalityType
    <3>4. Finished(state)' = Finished(state)
      BY <2>1 DEF Finished
    <3> QED
      BY <1>0, <1>1, <3>1, <3>2, <3>3, <3>4, CountsFinite DEF Sums
  <2>8. CASE w.state # state
    <3>1. InHand(state)' = InHand(state)
      BY <2>5, <2>8
    <3>2. InQueue(state)' = InQueue(state)
      BY <2>6, <2>8
    <3> QED
      BY <1>1, <2>1, <3>1, <3>2, TallyKept
  <2> QED
    BY <2>7, <2>8
<1>11. CASE PutOutcome(t)
  <2>1. worker' = [worker EXCEPT ![t] = Resting] /\ w.of = "stage" /\ UNCHANGED <<queue, ended>>
    BY <1>11 DEF PutOutcome, engineVars
  <2>2. ~Holds(w, state) /\ ~Holds(Resting, state)
    BY <2>1 DEF Holds, Resting
  <2> QED
    BY <1>1, <1>2, <2>1, <2>2, TallyWorker
<1> QED
  BY <1>4, <1>5, <1>6, <1>7, <1>8, <1>9, <1>10, <1>11 DEF Work

LEMMA TallyStep ==
  ASSUME DeskTypes, [Next]_vars, NEW state \in States, Sums(state)
  PROVE  Sums(state)'
<1>0. queue \in Seq(Messages) /\ observed \in [States -> Nat] /\ observed[state] \in Nat
  BY DEF DeskTypes, WindowOK
<1>1. UNCHANGED queue => InQueue(state)' = InQueue(state)
  BY DEF InQueue
<1>2. UNCHANGED worker => InHand(state)' = InHand(state)
  BY DEF InHand
<1>3. CASE UNCHANGED <<worker, queue, ended, observed>>
  BY <1>1, <1>2, <1>3, TallyKept
<1>4. ASSUME NEW w, Spawn(w), w.at # "put", UNCHANGED <<queue, ended, observed>> PROVE Sums(state)'
  <2>1. PICK t \in Threads : worker[t].at = "idle" /\ worker' = [worker EXCEPT ![t] = w]
    BY <1>4, SpawnDoes
  <2>2. ~Holds(worker[t], state) /\ ~Holds(w, state)
    BY <1>4, <2>1 DEF Holds
  <2> QED
    BY <1>1, <1>4, <2>1, <2>2, TallyWorker
<1>5. ASSUME NEW id \in Ids, Fire(id) PROVE Sums(state)'
  <2> DEFINE w == [Resting EXCEPT !.at = "call", !.of = "card", !.id = id]
  <2>1. Spawn(w) /\ w.at # "put" /\ UNCHANGED <<queue, ended, observed>>
    BY <1>5 DEF Fire, Resting, engineVars
  <2> HIDE DEF w
  <2> QED
    BY <1>4, <2>1
<1>6. CASE StartRunAll
  <2> DEFINE w == [Resting EXCEPT !.at = "loop", !.of = "all", !.todo = RunAllDeck]
  <2>1. Spawn(w) /\ w.at # "put" /\ UNCHANGED <<queue, ended, observed>>
    BY <1>6 DEF StartRunAll, Resting, engineVars
  <2> HIDE DEF w
  <2> QED
    BY <1>4, <2>1
<1>7. CASE StageFire
  <2> DEFINE w == [Resting EXCEPT !.at = "call", !.of = "stage", !.show = stage.show, !.id = stage.deck[stage.index]]
  <2>1. Spawn(w) /\ w.at # "put" /\ UNCHANGED <<queue, ended, observed>>
    BY <1>7 DEF StageFire, StageStep, Resting, engineVars, windowVars
  <2> HIDE DEF w
  <2> QED
    BY <1>4, <2>1
<1>8. CASE Click
  BY <1>3, <1>5, <1>6, <1>7, <1>8 DEF Click, CycleConfirmed, StopRunAll, StageOpen, StageClose, StageGoto,
     StageStep, engineVars, windowVars
<1>9. CASE PumpOnce
  <2>1. /\ queue # <<>> /\ queue' = Tail(queue) /\ UNCHANGED <<worker, ended>>
        /\ \/ Head(queue).do # "result" /\ UNCHANGED observed
           \/ Head(queue).do = "result" /\ observed' = [observed EXCEPT ![Head(queue).state] = @ + 1]
    BY <1>9 DEF PumpOnce, ArmLane, SetResult, RunAllDone, Pump, engineVars
  <2> DEFINE one == IF Head(queue).do = "result" /\ Head(queue).state = state THEN 1 ELSE 0
             q == Cardinality(InQueue(state)')
  <2>2. Cardinality(InQueue(state)) = q + one
    BY <2>1, QueueLoses
  <2>3. observed'[state] = observed[state] + one
    BY <1>0, <2>1
  <2>4. q \in Nat /\ one \in Nat
    <3>1. InQueue(state)' \subseteq 1..Len(queue')
      BY <1>0, <2>1 DEF InQueue
    <3>2. Len(queue') \in Nat
      BY <1>0, <2>1
    <3>3. IsFiniteSet(1..Len(queue'))
      BY <3>2, FS_Interval
    <3> QED
      BY <3>1, <3>3, FS_Subset, FS_CardinalityType
  <2>5. InHand(state)' = InHand(state) /\ Finished(state)' = Finished(state) /\ Cardinality(InHand(state)) \in Nat
    BY <1>2, <2>1, CountsFinite DEF Finished
  <2> HIDE DEF one, q
  <2> QED
    BY <1>0, <2>2, <2>3, <2>4, <2>5 DEF Sums, q
<1> QED
  BY <1>3, <1>8, <1>9, TallyWork DEF Next, StagePoll, StageStep, LaneFrame, StageFrame, vars, engineVars, windowVars

TallyInv == \A state \in States : Sums(state)

(* The header's tally counts every run of this window once, whichever      *)
(* worker brought it: what is not counted yet is on its way.               *)
THEOREM TallyHolds == Spec => []TallyIsTrue
<1>1. Init => TallyInv
  <2> SUFFICES ASSUME Init, NEW state \in States PROVE Sums(state)
    BY DEF TallyInv
  <2>1. Finished(state) = {} /\ InQueue(state) = {} /\ InHand(state) = {} /\ observed[state] = 0
    BY DEF Init, Finished, InQueue, InHand, Resting
  <2>2. Cardinality({}) = 0
    BY FS_EmptySet
  <2> QED
    BY <2>1, <2>2 DEF Sums
<1>2. DeskTypes /\ TallyInv /\ [Next]_vars => TallyInv'
  <2>1. ASSUME DeskTypes, TallyInv, [Next]_vars, NEW state \in States PROVE Sums(state)'
    BY <2>1, TallyStep DEF TallyInv
  <2> QED
    BY <2>1 DEF TallyInv
<1>3. TallyInv => TallyIsTrue
  BY TallyMeans DEF TallyInv
<1> QED
  BY <1>1, <1>2, <1>3, InitTypes, TypesStep, PTL DEF Spec
=============================================================================
