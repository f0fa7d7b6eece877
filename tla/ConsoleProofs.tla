--------------------------- MODULE ConsoleProofs ---------------------------
(***************************************************************************)
(* Proofs about Console, for every set of threads, every catalog, every    *)
(* interval and every number of calls.                                     *)
(***************************************************************************)
EXTENDS Console, SequenceTheorems, FiniteSetTheorems, TLAPS

USE DEF Idle, None

(* A record add() builds is a record.                                      *)
LEMMA NewRecordType ==
  ASSUME NEW rs \in Seq(Record), NEW id \in Triggers, NEW state \in States
  PROVE  NewRecord(rs, id, state) \in Record
<1>1. LastHash(rs) \in Digest
  <2>1. CASE rs = <<>>
    BY <2>1 DEF LastHash, Digest
  <2>2. CASE rs # <<>>
    <3>1. rs[Len(rs)] \in Record
      BY <2>2
    <3> QED
      BY <2>2, <3>1 DEF LastHash, Record
  <2> QED
    BY <2>1, <2>2
<1>2. Wire[id] \in Nat
  BY ConsoleAssumption
<1> DEFINE p == [seq |-> Len(rs) + 1, id |-> id, state |-> state, wire |-> Wire[id]]
<1>3. p \in Payload
  BY <1>2 DEF Payload
<1>4. Append(LastHash(rs), p) \in Digest
  BY <1>1, <1>3 DEF Digest
<1>5. NewRecord(rs, id, state)
        = [seq |-> Len(rs) + 1, id |-> id, state |-> state, wire |-> Wire[id],
           confirmed |-> "unset", prev |-> LastHash(rs),
           hash |-> Append(LastHash(rs), p)]
  <2> DEFINE r == [seq |-> Len(rs) + 1, id |-> id, state |-> state, wire |-> Wire[id],
                   confirmed |-> "unset", prev |-> LastHash(rs), hash |-> <<>>]
  <2>1. PayloadOf(r) = p /\ r.prev = LastHash(rs)
    BY DEF PayloadOf
  <2>2. RecordHash(r, r.prev) = Append(LastHash(rs), p)
    BY <2>1 DEF RecordHash
  <2>3. NewRecord(rs, id, state) = [r EXCEPT !.hash = RecordHash(r, r.prev)]
    BY DEF NewRecord
  <2> QED
    BY <2>2, <2>3
<1> HIDE DEF p
<1> QED
  BY <1>1, <1>2, <1>4, <1>5 DEF Record, Confirmations

(* Annotating one record leaves a sequence of records, and of that record  *)
(* only the annotation changes.                                            *)
LEMMA Annotated ==
  ASSUME NEW rs \in Seq(Record), NEW i \in DOMAIN rs, NEW said \in Confirmations
  PROVE  LET after == [rs EXCEPT ![i].confirmed = said]
         IN  /\ after \in Seq(Record)
             /\ Len(after) = Len(rs)
             /\ \A j \in 1..Len(rs) :
                  after[j] = IF j = i THEN [rs[j] EXCEPT !.confirmed = said] ELSE rs[j]
<1> DEFINE e == [rs[i] EXCEPT !.confirmed = said]
<1>1. rs[i] \in Record /\ i \in 1..Len(rs)
  OBVIOUS
<1>2. e \in Record
  BY <1>1 DEF Record
<1>3. [rs EXCEPT ![i].confirmed = said] = [rs EXCEPT ![i] = e]
  OBVIOUS
<1> HIDE DEF e
<1> QED
  BY <1>1, <1>2, <1>3, ExceptSeq DEF e

(* A set of numbers that holds 0 and each successor holds them all.        *)
LEMMA Induct ==
  ASSUME NEW S, 0 \in S, \A n \in Nat : n \in S => n + 1 \in S
  PROVE  \A n \in Nat : n \in S
<1> SUFFICES ASSUME NEW n \in Nat, n \notin S PROVE FALSE
  OBVIOUS
<1> DEFINE T == {i \in 0..n : i \in S}
           up == [i \in T |-> i + 1]
<1>1. T \subseteq 0..n /\ 0 \in T
  OBVIOUS
<1>2. \A i \in T : i \in Nat /\ i + 1 \in T \ {0}
  OBVIOUS
<1>3. up \in [T -> T \ {0}] /\ \A i, j \in T : up[i] = up[j] => i = j
  BY <1>2
<1> HIDE DEF T, up
<1>4. IsFiniteSet(T) /\ Cardinality(T) \in Nat
  <2>1. IsFiniteSet(0..n)
    BY FS_Interval
  <2> QED
    BY <1>1, <2>1, FS_Subset, FS_CardinalityType
<1>5. IsFiniteSet(T \ {0}) /\ Cardinality(T \ {0}) = Cardinality(T) - 1
  BY <1>1, <1>4, FS_RemoveElement
<1>6. up \in Injection(T, T \ {0})
  BY <1>3 DEF Injection, IsInjective
<1>7. Cardinality(T) <= Cardinality(T \ {0})
  BY <1>5, <1>6, FS_Injection
<1> QED
  BY <1>4, <1>5, <1>7

(* The tally of a ledger's signals, entry by entry.                        *)
Tallies(rs, g) ==
  /\ g \in [0..Len(rs) -> Nat]
  /\ g[0] = 0
  /\ \A n \in 1..Len(rs) : g[n] = g[n - 1] + rs[n].wire
  /\ SignalsFired(rs) = g[Len(rs)]

LEMMA SignalsTallied ==
  ASSUME NEW rs \in Seq(Record)
  PROVE  \E g : Tallies(rs, g)
<1> DEFINE L == Len(rs)
           Step(g, n) == IF n = 0 THEN 0 ELSE g[n - 1] + rs[n].wire
           Fine(n, g) == g \in [0..n -> Nat] /\ \A i \in 0..n : g[i] = Step(g, i)
           Reached == {n \in Nat : n <= L => \E g : Fine(n, g)}
<1>0. L \in Nat /\ \A i \in 1..L : rs[i].wire \in Nat
  <2>1. \A i \in 1..L : rs[i] \in Record
    OBVIOUS
  <2> QED
    BY <2>1 DEF Record
<1>1. \E g : Fine(0, g)
  <2> DEFINE g == [i \in 0..0 |-> 0]
  <2>1. Fine(0, g)
    OBVIOUS
  <2> QED
    BY <2>1
<1> HIDE DEF L
<1>2. ASSUME NEW n \in Nat, n + 1 <= L, NEW g, Fine(n, g) PROVE \E h : Fine(n + 1, h)
  <2> DEFINE top == g[n] + rs[n + 1].wire
             h == [i \in 0..(n + 1) |-> IF i = n + 1 THEN top ELSE g[i]]
  <2>1. top \in Nat
    BY <1>0, <1>2
  <2> HIDE DEF top
  <2>2. h \in [0..(n + 1) -> Nat]
    BY <1>2, <2>1
  <2>3. h[n + 1] = Step(h, n + 1)
    BY DEF top
  <2>4. ASSUME NEW i \in 0..n PROVE h[i] = Step(h, i)
    <3>1. h[i] = g[i] /\ (i # 0 => h[i - 1] = g[i - 1])
      OBVIOUS
    <3> QED
      BY <1>2, <3>1
  <2>5. \A i \in 0..(n + 1) : i \in 0..n \/ i = n + 1
    OBVIOUS
  <2> HIDE DEF h, Step
  <2>6. Fine(n + 1, h)
    BY <2>2, <2>3, <2>4, <2>5
  <2> QED
    BY <2>6
<1>3. PICK g : Fine(L, g)
  <2> HIDE DEF Fine
  <2>1. 0 \in Reached /\ \A n \in Nat : n \in Reached => n + 1 \in Reached
    BY <1>0, <1>1, <1>2
  <2> HIDE DEF Reached
  <2>2. L \in Reached
    BY <1>0, <2>1, Induct
  <2> QED
    BY <1>0, <2>2 DEF Reached
<1> DEFINE upto == CHOOSE f : f = [n \in 0..L |-> Step(f, n)]
<1>4. upto = [n \in 0..L |-> Step(upto, n)]
  <2>1. g = [n \in 0..L |-> Step(g, n)]
    BY <1>3
  <2> QED
    BY <2>1
<1> HIDE DEF upto
<1>5. SignalsFired(rs) = upto[L]
  BY DEF SignalsFired, upto, L
<1> DEFINE Same == {n \in Nat : n <= L => upto[n] = g[n]}
<1>6. 0 \in Same
  BY <1>0, <1>3, <1>4
<1>7. ASSUME NEW n \in Nat, n + 1 <= L, upto[n] = g[n] PROVE upto[n + 1] = g[n + 1]
  <2>1. n + 1 \in 0..L
    BY <1>0, <1>7
  <2>2. upto[n + 1] = Step(upto, n + 1) /\ g[n + 1] = Step(g, n + 1)
    BY <1>3, <1>4, <2>1
  <2> QED
    BY <1>7, <2>2
<1>8. \A n \in Nat : n \in Same => n + 1 \in Same
  BY <1>0, <1>7
<1> HIDE DEF Same
<1>9. L \in Same
  BY <1>0, <1>6, <1>8, Induct
<1>10. SignalsFired(rs) = g[L]
  BY <1>0, <1>5, <1>9 DEF Same
<1>11. g[0] = 0 /\ \A n \in 1..L : g[n] = g[n - 1] + rs[n].wire
  BY <1>0, <1>3
<1> QED
  BY <1>3, <1>10, <1>11 DEF Tallies, L

LEMMA SignalsAreCounted ==
  ASSUME NEW rs \in Seq(Record)
  PROVE  SignalsFired(rs) \in Nat
<1>1. PICK g : Tallies(rs, g)
  BY SignalsTallied
<1> QED
  BY <1>1 DEF Tallies

(* The ledger only grows: what it held, it holds at the same places, with  *)
(* the same count of signals.                                              *)
GrownFrom(rs, ts) ==
  /\ Len(rs) <= Len(ts)
  /\ \A i \in 1..Len(rs) : ts[i].wire = rs[i].wire

LEMMA MoreSignals ==
  ASSUME NEW rs \in Seq(Record), NEW ts \in Seq(Record), GrownFrom(rs, ts)
  PROVE  SignalsFired(rs) <= SignalsFired(ts)
<1>1. PICK g : Tallies(rs, g)
  BY SignalsTallied
<1>2. PICK h : Tallies(ts, h)
  BY SignalsTallied
<1> DEFINE A == Len(rs)
           B == Len(ts)
           Same == {n \in Nat : n <= A => g[n] = h[n]}
           Above == {n \in Nat : n <= B /\ A <= n => h[A] <= h[n]}
<1>3. /\ A \in Nat /\ B \in Nat /\ A <= B
      /\ \A n \in 1..B : h[n - 1] \in Nat /\ h[n] \in Nat /\ h[n - 1] <= h[n]
  <2>1. \A i \in 1..B : ts[i] \in Record
    OBVIOUS
  <2>2. \A i \in 1..B : ts[i].wire \in Nat
    BY <2>1 DEF Record
  <2>3. A \in Nat /\ B \in Nat /\ A <= B
    <3>1. A <= B
      BY Zenon DEF GrownFrom
    <3>2. \A s \in Seq(Record) : Len(s) \in Nat
      BY ONLY TRUE
    <3>3. A \in Nat /\ B \in Nat
      BY Zenon, <3>2
    <3> QED
      BY <3>1, <3>3
  <2>4. h \in [0..B -> Nat] /\ \A n \in 1..B : h[n] = h[n - 1] + ts[n].wire
    BY <1>2 DEF Tallies
  <2> HIDE DEF A, B
  <2>5. ASSUME NEW n \in 1..B
        PROVE  h[n - 1] \in Nat /\ h[n] \in Nat /\ h[n - 1] <= h[n]
    <3>1. n - 1 \in 0..B /\ n \in 0..B
      BY <2>3
    <3>2. h[n - 1] \in Nat /\ h[n] \in Nat /\ ts[n].wire \in Nat
      BY <2>2, <2>4, <3>1 DEF B
    <3> QED
      BY <2>4, <3>2
  <2> QED
    BY <2>3, <2>5
<1>4. /\ g[0] = 0 /\ h[0] = 0
      /\ \A n \in 1..A : g[n] = g[n - 1] + rs[n].wire
      /\ \A n \in 1..B : h[n] = h[n - 1] + ts[n].wire
      /\ \A n \in 1..A : ts[n].wire = rs[n].wire
  BY <1>1, <1>2 DEF Tallies, GrownFrom
<1>5. h[A] \in Nat
  <2>1. h \in [0..B -> Nat]
    BY <1>2 DEF Tallies
  <2> HIDE DEF A, B
  <2> QED
    BY <1>3, <2>1
<1>6. SignalsFired(rs) = g[A] /\ SignalsFired(ts) = h[B]
  BY <1>1, <1>2 DEF Tallies
<1> HIDE DEF A, B
<1>7. A \in Same
  <2>1. \A n \in Nat : n \in Same => n + 1 \in Same
    <3> SUFFICES ASSUME NEW n \in Nat, n + 1 <= A, g[n] = h[n] PROVE g[n + 1] = h[n + 1]
      BY <1>3
    <3>1. n + 1 \in 1..A /\ n + 1 \in 1..B /\ (n + 1) - 1 = n
      BY <1>3
    <3> QED
      BY <1>4, <3>1
  <2>2. 0 \in Same
    BY <1>4
  <2> HIDE DEF Same
  <2> QED
    BY <1>3, <2>1, <2>2, Induct
<1>8. B \in Above
  <2>1. \A n \in Nat : n \in Above => n + 1 \in Above
    <3> SUFFICES ASSUME NEW n \in Nat, n + 1 <= B, A <= n + 1,
                        A <= n => h[A] <= h[n]
                 PROVE  h[A] <= h[n + 1]
      BY <1>3
    <3>1. n + 1 \in 1..B /\ (n + 1) - 1 = n
      BY <1>3
    <3>2. h[n] \in Nat /\ h[n + 1] \in Nat /\ h[n] <= h[n + 1]
      BY <1>3, <3>1
    <3>3. CASE A = n + 1
      BY <1>5, <3>3
    <3>4. CASE A <= n
      BY <1>5, <3>2, <3>4
    <3> QED
      BY <1>3, <3>3, <3>4
  <2>2. 0 \in Above
    <3>1. A <= 0 => A = 0
      BY <1>3
    <3> QED
      BY <1>5, <3>1
  <2> HIDE DEF Above
  <2> QED
    BY <1>3, <2>1, <2>2, Induct
<1> QED
  BY <1>3, <1>6, <1>7, <1>8

LEMMA TypeCorrectInit == Init => TypeOK
  BY ConsoleAssumption DEF Init, TypeOK, NoReport, ReportType

LEMMA TypeCorrectStep == TypeOK /\ [Next]_vars => TypeOK'
<1> SUFFICES ASSUME TypeOK, [Next]_vars PROVE TypeOK'
  OBVIOUS
<1> USE ConsoleAssumption
<1>1. ASSUME NEW t \in Threads, NEW id \in Ids, RunUnknown(t, id) PROVE TypeOK'
  BY <1>1 DEF RunUnknown, vars, TypeOK, runVars, clockVars, ledgerVars, histVars
<1>2. ASSUME NEW t \in Threads, NEW id \in Ids, NEW state \in States,
             ReturnEarly(t, id, state)
      PROVE TypeOK'
  BY <1>2 DEF ReturnEarly, Enters, TypeOK, clockVars, ledgerVars
<1>3. ASSUME NEW t \in Threads, NEW id \in Ids, RunAcquire(t, id) PROVE TypeOK'
  BY <1>3 DEF RunAcquire, Enters, NapFor, Shorter, TypeOK, ledgerVars
<1>4. ASSUME NEW t \in Threads, Wake(t) PROVE TypeOK'
  BY <1>4 DEF Wake, TypeOK, clockVars, ledgerVars, histVars
<1>5. ASSUME NEW t \in Threads, Finish(t) PROVE TypeOK'
  <2>1. PICK state \in Outcomes[job[t]] : out' = [out EXCEPT ![t] = state]
    BY <1>5 DEF Finish
  <2>2. job[t] \in Triggers
    BY <1>5 DEF Finish, TypeOK, Idle
  <2>3. state \in States
    BY <2>1, <2>2 DEF States, PolicyStates
  <2>4. DOMAIN out' = Threads /\ out'[t] \in States /\ \A u \in Threads : u # t => out'[u] = out[u]
    BY <2>1, <2>3 DEF TypeOK
  <2> QED
    BY <1>5, <2>4 DEF Finish, LetGo, TypeOK, ledgerVars, histVars
<1>6. ASSUME NEW t \in Threads, Raise(t) PROVE TypeOK'
  BY <1>6 DEF Raise, LetGoRaising, LetGo, TypeOK, ledgerVars
<1>7. ASSUME NEW t \in Threads, AddBegin(t) PROVE TypeOK'
  <2>1. NewRecord(records, job[t], out[t]) \in Record
    BY <1>7, NewRecordType DEF AddBegin, TypeOK
  <2> QED
    BY <1>7, <2>1 DEF AddBegin, AddTakesLock, TypeOK, clockVars, histVars
<1>8. ASSUME NEW t \in Threads, AddAppend(t) PROVE TypeOK'
  <2>1. Append(records, draft[t]) \in Seq(Record)
    BY <1>8, AppendProperties DEF AddAppend, TypeOK
  <2> QED
    BY <1>8, <2>1 DEF AddAppend, TypeOK, clockVars, histVars
<1>9. ASSUME NEW t \in Threads, LogAndReturn(t) PROVE TypeOK'
  <2>1. Append(logged, draft[t].seq) \in Seq(Nat)
    BY <1>9 DEF LogAndReturn, TypeOK, Record
  <2> QED
    BY <1>9, <2>1 DEF LogAndReturn, TypeOK, clockVars, ledgerVars, histVars
<1>10. ASSUME NEW seq \in DOMAIN records, NEW value \in Confirmations, Attest(seq, value)
       PROVE TypeOK'
  <2>1. [records EXCEPT ![seq].confirmed = value] \in Seq(Record)
    BY Annotated DEF TypeOK
  <2> QED
    BY <1>10, <2>1 DEF Attest, TypeOK, runVars, clockVars, histVars
<1>11. ASSUME NEW from, NEW filled, ReportStep(from, filled),
              filled \in ReportType
       PROVE TypeOK'
  BY <1>11 DEF ReportStep, TypeOK, runVars, clockVars, ledgerVars, histVars
<1>12. ASSUME ReportVerify \/ ReportCount \/ ReportSum \/ ReportWrite \/ ReportDone
       PROVE TypeOK'
  <2>1. NoReport \in ReportType
    BY DEF NoReport, ReportType
  <2>2. VerifyChain(records) \in BOOLEAN
    <3>1. CASE VerifyChain(records)
      BY <3>1 DEF VerifyChain
    <3>2. CASE ~VerifyChain(records)
      BY <3>2 DEF VerifyChain
    <3> QED
      BY <3>1, <3>2
  <2>3. /\ report \in ReportType
        /\ Len(records) \in Nat
        /\ SignalsFired(records) \in Nat
        /\ records \in Seq(Record)
    BY SignalsAreCounted DEF TypeOK
  <2>4. ASSUME ReportVerify PROVE TypeOK'
    <3>1. PICK b \in BOOLEAN : b = VerifyChain(records)
      BY <2>2, Zenon
    <3>2. ReportStep("rest", [report EXCEPT !.at = "count", !.ok = b])
      BY <2>4, <3>1, Zenon DEF ReportVerify
    <3>3. [report EXCEPT !.at = "count", !.ok = b] \in ReportType
      BY <2>3 DEF ReportType
    <3> QED
      BY <1>11, <3>2, <3>3
  <2>5. [report EXCEPT !.at = "sum", !.triggers = Len(records)] \in ReportType
    BY <2>3 DEF ReportType
  <2>6. [report EXCEPT !.at = "write", !.signals = SignalsFired(records)] \in ReportType
    BY <2>3 DEF ReportType
  <2>7. [report EXCEPT !.at = "written", !.records = records] \in ReportType
    BY <2>3 DEF ReportType
  <2> QED
    BY <1>11, <1>12, <2>1, <2>4, <2>5, <2>6, <2>7
    DEF ReportCount, ReportSum, ReportWrite, ReportDone, RecordsShown
<1>16. ASSUME Tick PROVE TypeOK'
  BY <1>16 DEF Tick, Shorter, TypeOK, runVars, ledgerVars, histVars
<1>17. ASSUME UNCHANGED vars PROVE TypeOK'
  BY <1>17 DEF vars, TypeOK, runVars, clockVars, ledgerVars, histVars
<1> QED
  BY <1>1, <1>2, <1>3, <1>4, <1>5, <1>6, <1>7, <1>8, <1>9, <1>10, <1>12, <1>16, <1>17
  DEF Next, Run, Proceed, TkThread, RunUnavailable, RunNoCurl, RunBusy, States

(* Every variable of the console stays within its type: no run sleeps      *)
(* beyond the cap, every record is complete.                               *)
THEOREM TypeCorrect == Spec => []TypeOK
<1> QED
  BY TypeCorrectInit, TypeCorrectStep, PTL DEF Spec

-----------------------------------------------------------------------------
(* A lock is held exactly by the thread whose pc is inside its section.    *)
LocksMatch ==
  \A t \in Threads : /\ OnWire(t) <=> runLock = t
                     /\ pc[t] = "append" <=> ledgerLock = t

LEMMA LocksMatchStep == TypeOK /\ LocksMatch /\ [Next]_vars => LocksMatch'
<1> SUFFICES ASSUME TypeOK, LocksMatch, [Next]_vars PROVE LocksMatch'
  OBVIOUS
<1> USE ConsoleAssumption DEF LocksMatch, OnWire
<1>1. ASSUME UNCHANGED <<pc, runLock, ledgerLock>> PROVE LocksMatch'
  BY <1>1
<1>2. ASSUME NEW t \in Threads, NEW id \in Ids, NEW state, ReturnEarly(t, id, state)
      PROVE LocksMatch'
  BY <1>2 DEF ReturnEarly, Enters, TypeOK, ledgerVars
<1>3. ASSUME NEW t \in Threads, NEW id \in Ids, RunAcquire(t, id) PROVE LocksMatch'
  BY <1>3 DEF RunAcquire, LockIsFree, Enters, TypeOK, ledgerVars
<1>4. ASSUME NEW t \in Threads, Wake(t) PROVE LocksMatch'
  BY <1>4 DEF Wake, TypeOK, ledgerVars
<1>5. ASSUME NEW t \in Threads, Finish(t) PROVE LocksMatch'
  BY <1>5 DEF Finish, LetGo, TypeOK, ledgerVars
<1>6. ASSUME NEW t \in Threads, Raise(t) PROVE LocksMatch'
  BY <1>6 DEF Raise, LetGoRaising, LetGo, TypeOK, ledgerVars
<1>7. ASSUME NEW t \in Threads, AddBegin(t) PROVE LocksMatch'
  BY <1>7 DEF AddBegin, AddTakesLock, TypeOK
<1>8. ASSUME NEW t \in Threads, AddAppend(t) PROVE LocksMatch'
  BY <1>8 DEF AddAppend, TypeOK
<1>9. ASSUME NEW t \in Threads, LogAndReturn(t) PROVE LocksMatch'
  BY <1>9 DEF LogAndReturn, TypeOK, ledgerVars
<1>10. ASSUME TkThread \/ Tick \/ UNCHANGED vars PROVE LocksMatch'
  BY <1>1, <1>10
  DEF TkThread, Attest, ReportVerify, ReportCount, ReportSum, ReportWrite, ReportDone,
      ReportStep, Tick, vars, runVars, ledgerVars
<1> QED
  BY <1>2, <1>3, <1>4, <1>5, <1>6, <1>7, <1>8, <1>9, <1>10
  DEF Next, Run, Proceed, RunUnknown, RunUnavailable, RunNoCurl, RunBusy

LEMMA LocksMatchAlways == Spec => []LocksMatch
<1>1. Init => LocksMatch
  BY ConsoleAssumption DEF Init, LocksMatch, OnWire
<1> QED
  BY <1>1, LocksMatchStep, TypeCorrect, PTL DEF Spec

(* Two triggers are never on the wire together: the non-blocking run lock  *)
(* of App._run_one excludes every other caller, from acquire to release.   *)
THEOREM MutualExclusion == Spec => []OneTriggerAtATime
<1>1. LocksMatch => OneTriggerAtATime
  BY DEF LocksMatch, OneTriggerAtATime
<1> QED
  BY <1>1, LocksMatchAlways, PTL

-----------------------------------------------------------------------------
(* The record a thread is entering is the one the ledger needs next: no    *)
(* record came, and none was annotated, since add() took the ledger lock.  *)
DraftIsNext ==
  \A t \in Threads : pc[t] = "append" => draft[t] = NewRecord(records, job[t], out[t])

LEMMA NewRecordFields ==
  ASSUME NEW rs \in Seq(Record), NEW id, NEW state
  PROVE  LET r == NewRecord(rs, id, state)
         IN  /\ r.seq = Len(rs) + 1 /\ r.id = id /\ r.state = state
             /\ r.wire = Wire[id] /\ r.confirmed = "unset"
             /\ r.prev = LastHash(rs) /\ r.hash = RecordHash(r, r.prev)
<1> DEFINE r == [seq |-> Len(rs) + 1, id |-> id, state |-> state, wire |-> Wire[id],
                 confirmed |-> "unset", prev |-> LastHash(rs), hash |-> <<>>]
           h == RecordHash(r, r.prev)
           n == [r EXCEPT !.hash = h]
<1>1. NewRecord(rs, id, state) = n
  BY DEF NewRecord
<1> HIDE DEF h
<1>2. /\ n.seq = r.seq /\ n.id = r.id /\ n.state = r.state /\ n.wire = r.wire
      /\ n.confirmed = r.confirmed /\ n.prev = r.prev /\ n.hash = h
  OBVIOUS
<1>3. RecordHash(n, n.prev) = h
  BY <1>2 DEF RecordHash, PayloadOf, h
<1> HIDE DEF n
<1> QED
  BY <1>1, <1>2, <1>3

(* What ChainIntact says of any sequence of records.                       *)
Chained(rs) == VerifyChain(rs) /\ \A i \in 1..Len(rs) : rs[i].seq = i

LEMMA ChainExtended ==
  ASSUME NEW rs \in Seq(Record), Chained(rs), NEW id \in Triggers, NEW state \in States
  PROVE  Chained(Append(rs, NewRecord(rs, id, state)))
<1> DEFINE r == NewRecord(rs, id, state)
           more == Append(rs, r)
<1>1. r \in Record
  BY NewRecordType
<1>2. /\ r.seq = Len(rs) + 1 /\ r.prev = LastHash(rs) /\ r.hash = RecordHash(r, r.prev)
  BY NewRecordFields
<1> HIDE DEF r
<1>3. /\ Len(more) = Len(rs) + 1
      /\ \A i \in 1..Len(rs) : more[i] = rs[i]
      /\ more[Len(rs) + 1] = r
  BY <1>1, AppendProperties
<1> HIDE DEF more
<1>4. ASSUME NEW i \in 1..Len(more)
      PROVE  /\ more[i].prev = IF i = 1 THEN <<>> ELSE more[i - 1].hash
             /\ more[i].hash = RecordHash(more[i], more[i].prev)
             /\ more[i].seq = i
  <2>1. CASE i \in 1..Len(rs)
    <3>1. more[i] = rs[i] /\ (i # 1 => more[i - 1] = rs[i - 1])
      BY <2>1, <1>3
    <3> QED
      BY <2>1, <3>1 DEF Chained, VerifyChain
  <2>2. CASE i = Len(rs) + 1
    <3>1. LastHash(rs) = IF i = 1 THEN <<>> ELSE more[i - 1].hash
      BY <2>2, <1>3 DEF LastHash
    <3> QED
      BY <2>2, <1>2, <1>3, <3>1
  <2> QED
    BY <1>3, <2>1, <2>2
<1> QED
  BY <1>4 DEF Chained, VerifyChain, r, more

LEMMA ChainAnnotated ==
  ASSUME NEW rs \in Seq(Record), Chained(rs), NEW i \in DOMAIN rs,
         NEW said \in Confirmations
  PROVE  Chained([rs EXCEPT ![i].confirmed = said])
<1> DEFINE after == [rs EXCEPT ![i].confirmed = said]
<1>1. /\ Len(after) = Len(rs)
      /\ \A j \in 1..Len(rs) :
           after[j] = IF j = i THEN [rs[j] EXCEPT !.confirmed = said] ELSE rs[j]
  BY Annotated
<1> HIDE DEF after
<1>2. ASSUME NEW j \in 1..Len(rs)
      PROVE  /\ after[j].seq = rs[j].seq /\ after[j].prev = rs[j].prev
             /\ after[j].hash = rs[j].hash /\ PayloadOf(after[j]) = PayloadOf(rs[j])
  <2>1. rs[j] \in Record
    OBVIOUS
  <2> QED
    BY <1>1, <2>1 DEF Record, PayloadOf
<1>3. ASSUME NEW j \in 1..Len(rs), j # 1 PROVE j - 1 \in 1..Len(rs)
  BY <1>3
<1> QED
  BY <1>1, <1>2, <1>3 DEF Chained, VerifyChain, RecordHash, after

(* The inductive invariant behind the chain.                               *)
LedgerInv == TypeOK /\ LocksMatch /\ DraftIsNext /\ Chained(records)

LEMMA DraftIsNextStep == LedgerInv /\ [Next]_vars => DraftIsNext'
<1> SUFFICES ASSUME LedgerInv, [Next]_vars PROVE DraftIsNext'
  OBVIOUS
<1> USE DEF LedgerInv, DraftIsNext
<1>1. ASSUME UNCHANGED <<pc, job, out, draft, records>> PROVE DraftIsNext'
  BY <1>1
<1>2. ASSUME NEW t \in Threads, NEW id \in Ids, NEW state, ReturnEarly(t, id, state)
      PROVE DraftIsNext'
  BY <1>2 DEF ReturnEarly, Enters, TypeOK, ledgerVars
<1>3. ASSUME NEW t \in Threads, NEW id \in Ids, RunAcquire(t, id) PROVE DraftIsNext'
  BY <1>3 DEF RunAcquire, Enters, TypeOK, ledgerVars
<1>4. ASSUME NEW t \in Threads, Wake(t) PROVE DraftIsNext'
  BY <1>4 DEF Wake, TypeOK, ledgerVars
<1>5. ASSUME NEW t \in Threads, Finish(t) PROVE DraftIsNext'
  BY <1>5 DEF Finish, TypeOK, ledgerVars
<1>6. ASSUME NEW t \in Threads, Raise(t) PROVE DraftIsNext'
  BY <1>6 DEF Raise, TypeOK, ledgerVars
<1>7. ASSUME NEW t \in Threads, AddBegin(t) PROVE DraftIsNext'
  BY <1>7 DEF AddBegin, TypeOK
<1>8. ASSUME NEW t \in Threads, AddAppend(t) PROVE DraftIsNext'
  <2>1. ASSUME NEW u \in Threads, pc'[u] = "append" PROVE FALSE
    BY <1>8, <2>1, ConsoleAssumption DEF AddAppend, TypeOK, LocksMatch
  <2> QED
    BY <2>1
<1>9. ASSUME NEW t \in Threads, LogAndReturn(t) PROVE DraftIsNext'
  BY <1>9 DEF LogAndReturn, TypeOK, ledgerVars
<1>10. ASSUME NEW seq \in DOMAIN records, NEW value \in Confirmations, Attest(seq, value)
       PROVE DraftIsNext'
  <2>1. ASSUME NEW u \in Threads, pc'[u] = "append" PROVE FALSE
    BY <1>10, <2>1, ConsoleAssumption DEF Attest, runVars, TypeOK, LocksMatch
  <2> QED
    BY <2>1
<1>11. ASSUME \/ ReportVerify \/ ReportCount \/ ReportSum \/ ReportWrite \/ ReportDone
              \/ Tick \/ UNCHANGED vars
       PROVE DraftIsNext'
  BY <1>1, <1>11
  DEF ReportVerify, ReportCount, ReportSum, ReportWrite, ReportDone, ReportStep, Tick,
      vars, runVars, ledgerVars
<1> QED
  BY <1>2, <1>3, <1>4, <1>5, <1>6, <1>7, <1>8, <1>9, <1>10, <1>11
  DEF Next, Run, Proceed, TkThread, RunUnknown, RunUnavailable, RunNoCurl, RunBusy

(* The only steps that touch the ledger.                                   *)
LEMMA WhoWrites ==
  ASSUME [Next]_vars, records' # records
  PROVE  \/ \E t \in Threads : AddAppend(t)
         \/ \E seq \in DOMAIN records, value \in Confirmations : Attest(seq, value)
  BY DEF Next, Run, Proceed, TkThread, RunUnknown, RunUnavailable, RunNoCurl, RunBusy,
         ReturnEarly, RunAcquire, Wake, Finish, Raise, AddBegin, LogAndReturn,
         ReportVerify, ReportCount, ReportSum, ReportWrite, ReportDone, ReportStep,
         Tick, vars, ledgerVars

LEMMA ChainStep == LedgerInv /\ [Next]_vars => Chained(records')
<1> SUFFICES ASSUME LedgerInv, [Next]_vars PROVE Chained(records')
  OBVIOUS
<1> USE DEF LedgerInv
<1>1. CASE records' = records
  BY <1>1
<1>2. ASSUME NEW t \in Threads, AddAppend(t) PROVE Chained(records')
  <2>1. records' = Append(records, NewRecord(records, job[t], out[t]))
    BY <1>2 DEF AddAppend, DraftIsNext
  <2>2. records \in Seq(Record) /\ job[t] \in Triggers /\ out[t] \in States
    BY <1>2 DEF AddAppend, TypeOK
  <2> QED
    BY <2>1, <2>2, ChainExtended
<1>3. ASSUME NEW seq \in DOMAIN records, NEW value \in Confirmations, Attest(seq, value)
      PROVE  Chained(records')
  BY <1>3, ChainAnnotated DEF Attest, TypeOK
<1> QED
  BY <1>1, <1>2, <1>3, WhoWrites

LEMMA LedgerInvAlways == Spec => []LedgerInv
<1>1. Init => LedgerInv
  <2>1. Init => DraftIsNext /\ LocksMatch /\ Chained(records)
    BY ConsoleAssumption
    DEF Init, LocksMatch, OnWire, DraftIsNext, Chained, VerifyChain
  <2> QED
    BY <2>1, TypeCorrectInit DEF LedgerInv
<1>2. LedgerInv /\ [Next]_vars => LedgerInv'
  BY TypeCorrectStep, LocksMatchStep, DraftIsNextStep, ChainStep DEF LedgerInv, Chained, VerifyChain
<1> QED
  BY <1>1, <1>2, PTL DEF Spec

(* The hash chain verifies and the numbering is 1, 2, 3, ... at every      *)
(* moment, whatever threads add records and whatever is annotated.         *)
THEOREM ChainAlwaysIntact == Spec => []ChainIntact
<1>1. LedgerInv => ChainIntact
  BY DEF LedgerInv, Chained, ChainIntact
<1> QED
  BY <1>1, LedgerInvAlways, PTL

-----------------------------------------------------------------------------
(* Spacing.  What is left of the sleep makes up for what the gap still     *)
(* lacks, and the limiter never believes the wire quiet for longer than it *)
(* has been.                                                               *)
NapCoversGap ==
  /\ since <= quiet
  /\ \A t \in Threads : pc[t] = "nap" => since + nap >= Shorter(MinInterval, SleepCap)

LEMMA NapCoversGapStep ==
  TypeOK /\ LocksMatch /\ NapCoversGap /\ [Next]_vars => NapCoversGap'
<1> SUFFICES ASSUME TypeOK, LocksMatch, NapCoversGap, [Next]_vars PROVE NapCoversGap'
  OBVIOUS
<1> USE ConsoleAssumption DEF NapCoversGap, Shorter
<1>1. ASSUME NEW t \in Threads, NEW id \in Ids, NEW state, ReturnEarly(t, id, state)
      PROVE NapCoversGap'
  BY <1>1 DEF ReturnEarly, Enters, TypeOK, clockVars
<1>2. ASSUME NEW t \in Threads, NEW id \in Ids, RunAcquire(t, id) PROVE NapCoversGap'
  <2>1. \A u \in Threads : pc'[u] = "nap" => u = t
    BY <1>2 DEF RunAcquire, LockIsFree, LocksMatch, OnWire, TypeOK
  <2>2. since' + nap' >= Shorter(MinInterval, SleepCap) /\ since' <= quiet'
    BY <1>2 DEF RunAcquire, NapFor, TypeOK
  <2> QED
    BY <2>1, <2>2
<1>3. ASSUME NEW t \in Threads, Wake(t) PROVE NapCoversGap'
  BY <1>3 DEF Wake, TypeOK, clockVars
<1>4. ASSUME NEW t \in Threads, Finish(t) PROVE NapCoversGap'
  BY <1>4 DEF Finish, LetGo, LocksMatch, OnWire, TypeOK
<1>5. ASSUME NEW t \in Threads, Raise(t) PROVE NapCoversGap'
  BY <1>5 DEF Raise, LetGoRaising, LetGo, LocksMatch, OnWire, TypeOK
<1>6. ASSUME NEW t \in Threads, AddBegin(t) \/ AddAppend(t) \/ LogAndReturn(t)
      PROVE NapCoversGap'
  BY <1>6 DEF AddBegin, AddAppend, LogAndReturn, TypeOK, clockVars
<1>7. CASE Tick
  BY <1>7 DEF Tick, TypeOK, runVars
<1>8. CASE TkThread \/ UNCHANGED vars
  BY <1>8
  DEF TkThread, Attest, ReportVerify, ReportCount, ReportSum, ReportWrite, ReportDone,
      ReportStep, vars, runVars, clockVars
<1> QED
  BY <1>1, <1>2, <1>3, <1>4, <1>5, <1>6, <1>7, <1>8
  DEF Next, Run, Proceed, RunUnknown, RunUnavailable, RunNoCurl, RunBusy

(* Runs are spaced by the interval, or by as much of it as the limiter     *)
(* will ever sleep, for every interval and every cap.                      *)
THEOREM RunsSpaced == Spec => Spaced
<1>1. Init => NapCoversGap
  BY ConsoleAssumption DEF Init, NapCoversGap
<1>2. Spec => [](TypeOK /\ LocksMatch /\ NapCoversGap)
  BY <1>1, NapCoversGapStep, TypeCorrect, LocksMatchAlways, PTL DEF Spec
<1>3. TypeOK /\ NapCoversGap /\ [Next]_vars
        => [\A t \in Threads : pc[t] = "nap" /\ pc'[t] = "wire"
                               => quiet >= Shorter(MinInterval, SleepCap)]_vars
  <2> SUFFICES ASSUME TypeOK, NapCoversGap, [Next]_vars,
                      NEW t \in Threads, pc[t] = "nap", pc'[t] = "wire"
               PROVE  quiet >= Shorter(MinInterval, SleepCap)
    OBVIOUS
  <2>1. nap = 0
    BY DEF Next, Run, Proceed, TkThread, RunUnknown, RunUnavailable, RunNoCurl, RunBusy,
           ReturnEarly, RunAcquire, Enters, Wake, Finish, Raise, AddBegin, AddAppend,
           LogAndReturn, Attest, ReportVerify, ReportCount, ReportSum, ReportWrite,
           ReportDone, ReportStep, Tick, vars, runVars, TypeOK
  <2> QED
    BY <2>1, ConsoleAssumption DEF NapCoversGap, TypeOK, Shorter
<1> QED
  BY <1>2, <1>3, PTL DEF Spec, Spaced

-----------------------------------------------------------------------------
(* The ledger refines the append-only, annotate-only book.                 *)
LEMMA BookEnter ==
  ASSUME LedgerInv, NEW t \in Threads, AddAppend(t)
  PROVE  \E obs \in [id : Triggers, state : States, wire : {Wire[id] : id \in Triggers}] :
           Book!Enter(obs)
<1> DEFINE r == NewRecord(records, job[t], out[t])
           obs == Observed(r)
<1>1. /\ records \in Seq(Record) /\ job[t] \in Triggers /\ out[t] \in States
      /\ records' = Append(records, r)
  BY DEF AddAppend, LedgerInv, DraftIsNext, TypeOK
<1>2. /\ r.seq = Len(records) + 1 /\ r.id = job[t] /\ r.state = out[t]
      /\ r.wire = Wire[job[t]] /\ r.confirmed = "unset"
  BY <1>1, NewRecordFields
<1>3. r \in Record
  BY <1>1, NewRecordType
<1>4. obs \in [id : Triggers, state : States, wire : {Wire[id] : id \in Triggers}]
  BY <1>1, <1>2 DEF Observed
<1> HIDE DEF r
<1>5. /\ Len(records') = Len(records) + 1
      /\ \A i \in 1..Len(records) : records'[i] = records[i]
      /\ records'[Len(records) + 1] = r
  BY <1>1, <1>3, AppendProperties
<1> DEFINE e == [seq |-> Len(LedgerBook) + 1, seen |-> obs, confirmed |-> "unset"]
<1>6. Len(LedgerBook) = Len(records)
  BY <1>1 DEF LedgerBook
<1>7. e = [seq |-> r.seq, seen |-> Observed(r), confirmed |-> r.confirmed]
  BY <1>2, <1>6
<1> HIDE DEF e, obs
<1>8. LedgerBook' = Append(LedgerBook, e)
  BY <1>1, <1>5, <1>6, <1>7 DEF LedgerBook
<1> QED
  BY <1>4, <1>8 DEF Book!Enter, e

LEMMA BookAnnotate ==
  ASSUME LedgerInv, NEW seq \in DOMAIN records, NEW value \in Confirmations,
         Attest(seq, value)
  PROVE  seq \in DOMAIN LedgerBook /\ Book!Annotate(seq, value)
<1>1. records \in Seq(Record) /\ records' = [records EXCEPT ![seq].confirmed = value]
  BY DEF Attest, LedgerInv, TypeOK
<1>2. /\ Len(records') = Len(records)
      /\ \A j \in 1..Len(records) :
           records'[j] = IF j = seq THEN [records[j] EXCEPT !.confirmed = value]
                                    ELSE records[j]
  BY <1>1, Annotated
<1>3. ASSUME NEW j \in 1..Len(records)
      PROVE  /\ records'[j].seq = records[j].seq
             /\ Observed(records'[j]) = Observed(records[j])
             /\ records'[j].confirmed = IF j = seq THEN value ELSE records[j].confirmed
  <2>1. records[j] \in Record
    BY <1>1
  <2> QED
    BY <1>2, <2>1 DEF Record, Observed
<1>4. DOMAIN LedgerBook = 1..Len(records) /\ seq \in 1..Len(records)
  BY <1>1 DEF LedgerBook
<1>5. LedgerBook' = [j \in 1..Len(records) |->
         [seq |-> records[j].seq, seen |-> Observed(records[j]),
          confirmed |-> IF j = seq THEN value ELSE records[j].confirmed]]
  BY <1>2, <1>3 DEF LedgerBook
<1>6. LedgerBook' = [LedgerBook EXCEPT ![seq].confirmed = value]
  BY <1>4, <1>5 DEF LedgerBook
<1> QED
  BY <1>4, <1>6 DEF Book!Annotate

LEMMA BookStep == LedgerInv /\ [Next]_vars => [Book!Next]_LedgerBook
<1> SUFFICES ASSUME LedgerInv, [Next]_vars PROVE [Book!Next]_LedgerBook
  OBVIOUS
<1>1. CASE records' = records
  BY <1>1 DEF LedgerBook
<1>2. ASSUME NEW t \in Threads, AddAppend(t) PROVE Book!Next
  BY <1>2, BookEnter DEF Book!Next
<1>3. ASSUME NEW seq \in DOMAIN records, NEW value \in Confirmations, Attest(seq, value)
      PROVE  Book!Next
  BY <1>3, BookAnnotate DEF Book!Next
<1> QED
  BY <1>1, <1>2, <1>3, WhoWrites

(* Whatever threads and the Tk thread do, all anyone ever sees of the      *)
(* ledger is observations entered one by one under the next number and     *)
(* annotations made of them.                                               *)
THEOREM ConsoleImplementsBook == Spec => LedgerIsABook
<1>1. Init => Book!Init
  BY DEF Init, Book!Init, LedgerBook
<1> QED
  BY <1>1, BookStep, LedgerInvAlways, PTL DEF Spec, LedgerIsABook, Book!Spec

-----------------------------------------------------------------------------
(* A report under way.  What it has counted the ledger still holds, and    *)
(* its sum lies between what the records counted first had sent and what   *)
(* the ledger has recorded since.                                          *)
CountedBefore ==
  report.at \in {"sum", "write"} => report.triggers <= Len(records)

SummedBetween ==
  report.at = "write" =>
    /\ report.signals <= SignalsFired(records)
    /\ SignalsFired(SubSeq(records, 1, report.triggers)) <= report.signals

ReportInv ==
  /\ report.at # "rest" => report.ok
  /\ CountedBefore
  /\ SummedBetween
  /\ ReportBacked

(* No step takes a record out of the ledger or changes its signals.        *)
LEMMA LedgerGrows == LedgerInv /\ [Next]_vars => GrownFrom(records, records')
<1> SUFFICES ASSUME LedgerInv, [Next]_vars PROVE GrownFrom(records, records')
  OBVIOUS
<1>1. records \in Seq(Record) /\ Len(records) \in Nat
  BY DEF LedgerInv, TypeOK
<1>2. CASE records' = records
  BY <1>1, <1>2 DEF GrownFrom
<1>3. ASSUME NEW t \in Threads, AddAppend(t) PROVE GrownFrom(records, records')
  <2>1. draft[t] \in Record /\ records' = Append(records, draft[t])
    BY <1>3 DEF AddAppend, LedgerInv, TypeOK
  <2>2. /\ Len(records') = Len(records) + 1
        /\ \A i \in 1..Len(records) : records'[i] = records[i]
    BY <1>1, <2>1, AppendProperties
  <2> QED
    BY <1>1, <2>2 DEF GrownFrom
<1>4. ASSUME NEW seq \in DOMAIN records, NEW value \in Confirmations, Attest(seq, value)
      PROVE  GrownFrom(records, records')
  <2>1. /\ Len(records') = Len(records)
        /\ \A j \in 1..Len(records) :
             records'[j] = IF j = seq THEN [records[j] EXCEPT !.confirmed = value]
                                      ELSE records[j]
    BY <1>1, <1>4, Annotated DEF Attest
  <2>2. ASSUME NEW j \in 1..Len(records) PROVE records'[j].wire = records[j].wire
    <3>1. records[j] \in Record
      BY <1>1
    <3> QED
      BY <2>1, <3>1 DEF Record
  <2> QED
    BY <1>1, <2>1, <2>2 DEF GrownFrom
<1> QED
  BY <1>2, <1>3, <1>4, WhoWrites

(* The first records of a ledger that grew have sent what they had sent.   *)
LEMMA SamePrefix ==
  ASSUME NEW rs \in Seq(Record), NEW ts \in Seq(Record), GrownFrom(rs, ts),
         NEW n \in Nat, n <= Len(rs)
  PROVE  SignalsFired(SubSeq(ts, 1, n)) <= SignalsFired(SubSeq(rs, 1, n))
<1>1. Len(rs) \in Nat /\ Len(ts) \in Nat /\ n <= Len(ts)
  BY DEF GrownFrom
<1> DEFINE a == SubSeq(rs, 1, n)
           b == SubSeq(ts, 1, n)
<1>2. /\ a \in Seq(Record) /\ Len(a) = n
      /\ \A i \in 1..n : a[i] = rs[i]
  BY <1>1 DEF GrownFrom
<1>3. /\ b \in Seq(Record) /\ Len(b) = n
      /\ \A i \in 1..n : b[i] = ts[i]
  BY <1>1 DEF GrownFrom
<1>4. \A i \in 1..n : ts[i].wire = rs[i].wire
  <2>1. \A i \in 1..Len(rs) : ts[i].wire = rs[i].wire
    BY Zenon DEF GrownFrom
  <2>2. \A i \in 1..n : i \in 1..Len(rs)
    BY <1>1 DEF GrownFrom
  <2> QED
    BY Zenon, <2>1, <2>2
<1> HIDE DEF a, b
<1>5. GrownFrom(b, a)
  <2>1. \A i \in 1..n : a[i].wire = b[i].wire
    BY Zenon, <1>2, <1>3, <1>4
  <2>2. Len(a) = n /\ Len(b) = n /\ n <= n
    BY <1>2, <1>3
  <2> QED
    BY Zenon, <2>1, <2>2 DEF GrownFrom
<1>6. SignalsFired(b) <= SignalsFired(a)
  BY <1>2, <1>3, <1>5, MoreSignals
<1> QED
  BY <1>6 DEF a, b

LEMMA PrefixSignals ==
  ASSUME NEW rs \in Seq(Record), NEW n \in Nat, n <= Len(rs)
  PROVE  /\ SignalsFired(SubSeq(rs, 1, n)) \in Nat
         /\ SignalsFired(SubSeq(rs, 1, n)) <= SignalsFired(rs)
<1> DEFINE a == SubSeq(rs, 1, n)
<1>1. a \in Seq(Record) /\ Len(a) = n /\ \A i \in 1..n : a[i] = rs[i]
  OBVIOUS
<1> HIDE DEF a
<1>2. GrownFrom(a, rs)
  BY <1>1 DEF GrownFrom
<1>3. SignalsFired(a) \in Nat /\ SignalsFired(a) <= SignalsFired(rs)
  BY <1>1, <1>2, MoreSignals, SignalsAreCounted
<1> QED
  BY <1>3 DEF a

(* Whatever other threads and annotations do while it is written leaves    *)
(* the report as good as it was.                                           *)
LEMMA ReportHeld ==
  ASSUME LedgerInv, ReportInv, [Next]_vars, UNCHANGED report
  PROVE  ReportInv'
<1>1. /\ records \in Seq(Record) /\ records' \in Seq(Record)
      /\ GrownFrom(records, records')
  BY LedgerGrows, TypeCorrectStep DEF LedgerInv, TypeOK
<1>2. report.triggers \in Nat /\ report.signals \in Nat
  BY DEF LedgerInv, TypeOK, ReportType
<1>3. /\ Len(records) \in Nat /\ Len(records') \in Nat /\ Len(records) <= Len(records')
      /\ SignalsFired(records) \in Nat /\ SignalsFired(records') \in Nat
      /\ SignalsFired(records) <= SignalsFired(records')
  BY <1>1, MoreSignals, SignalsAreCounted DEF GrownFrom
<1>4. CountedBefore'
  BY <1>2, <1>3 DEF ReportInv, CountedBefore
<1>5. SummedBetween'
  <2> SUFFICES ASSUME report.at = "write"
               PROVE  /\ report.signals <= SignalsFired(records')
                      /\ SignalsFired(SubSeq(records', 1, report.triggers)) <= report.signals
    BY DEF SummedBetween
  <2> DEFINE n == report.triggers
             a == SignalsFired(SubSeq(records, 1, n))
             b == SignalsFired(SubSeq(records', 1, n))
  <2>1. n \in Nat /\ n <= Len(records) /\ n <= Len(records')
    BY <1>2, <1>3 DEF ReportInv, CountedBefore
  <2>2. report.signals <= SignalsFired(records) /\ a <= report.signals
    BY DEF ReportInv, SummedBetween
  <2> HIDE DEF n
  <2>3. b <= a /\ a \in Nat /\ b \in Nat
    BY <1>1, <2>1, SamePrefix, PrefixSignals
  <2> HIDE DEF a, b
  <2>4. b <= report.signals /\ report.signals <= SignalsFired(records')
    BY <1>2, <1>3, <2>2, <2>3
  <2> QED
    BY <2>4 DEF b, n
<1>6. (report.at # "rest" => report.ok)' /\ ReportBacked'
  BY DEF ReportInv, ReportBacked
<1> QED
  BY <1>4, <1>5, <1>6 DEF ReportInv

(* The Tk thread takes the report one read further.                        *)
LEMMA ReportMoved ==
  ASSUME LedgerInv, ReportInv, NEW from, NEW filled, ReportStep(from, filled)
  PROVE  /\ records' = records /\ report' = filled /\ report.at = from
         /\ report \in ReportType
         /\ records \in Seq(Record) /\ Len(records) \in Nat
         /\ SignalsFired(records) \in Nat /\ VerifyChain(records)
  BY SignalsAreCounted
  DEF ReportStep, ledgerVars, LedgerInv, TypeOK, Chained

LEMMA ReportVerified == LedgerInv /\ ReportInv /\ ReportVerify => ReportInv'
<1> SUFFICES ASSUME LedgerInv, ReportInv, ReportVerify PROVE ReportInv'
  OBVIOUS
<1> DEFINE filled == [report EXCEPT !.at = "count", !.ok = VerifyChain(records)]
<1>1. ReportStep("rest", filled)
  BY DEF ReportVerify
<1> HIDE DEF filled
<1>2. report' = filled /\ report \in ReportType /\ VerifyChain(records)
  BY <1>1, ReportMoved
<1>3. report'.at = "count" /\ report'.ok = VerifyChain(records)
  BY <1>2 DEF filled, ReportType
<1>4. (report.at # "rest" => report.ok)'
  BY Zenon, <1>2, <1>3
<1>5. CountedBefore' /\ SummedBetween' /\ ReportBacked'
  BY <1>3 DEF CountedBefore, SummedBetween, ReportBacked
<1> QED
  BY <1>4, <1>5 DEF ReportInv

LEMMA ReportCounted == LedgerInv /\ ReportInv /\ ReportCount => ReportInv'
<1> SUFFICES ASSUME LedgerInv, ReportInv, ReportCount PROVE ReportInv'
  OBVIOUS
<1> DEFINE filled == [report EXCEPT !.at = "sum", !.triggers = Len(records)]
<1>1. ReportStep("count", filled)
  BY DEF ReportCount
<1> HIDE DEF filled
<1>2. /\ report' = filled /\ report \in ReportType /\ records' = records
      /\ report.at = "count" /\ Len(records) \in Nat
  BY <1>1, ReportMoved
<1>3. /\ report'.at = "sum" /\ report'.triggers = Len(records)
      /\ report'.ok = report.ok
  BY <1>2 DEF filled, ReportType
<1>4. (report.at # "rest" => report.ok)'
  BY Zenon, <1>2, <1>3 DEF ReportInv
<1>5. CountedBefore' /\ SummedBetween' /\ ReportBacked'
  BY <1>2, <1>3 DEF CountedBefore, SummedBetween, ReportBacked
<1> QED
  BY <1>4, <1>5 DEF ReportInv

LEMMA ReportSummed == LedgerInv /\ ReportInv /\ ReportSum => ReportInv'
<1> SUFFICES ASSUME LedgerInv, ReportInv, ReportSum PROVE ReportInv'
  OBVIOUS
<1> DEFINE n == report.triggers
           total == SignalsFired(records)
           filled == [report EXCEPT !.at = "write", !.signals = total]
<1>1. ReportStep("sum", filled)
  BY DEF ReportSum
<1> HIDE DEF filled
<1>2. /\ report' = filled /\ report \in ReportType /\ records' = records
      /\ report.at = "sum" /\ records \in Seq(Record)
  BY <1>1, ReportMoved
<1> HIDE DEF total
<1>3. /\ report'.at = "write" /\ report'.signals = total
      /\ report'.ok = report.ok /\ report'.triggers = n
  BY <1>2 DEF filled, ReportType
<1>4. (report.at # "rest" => report.ok)'
  BY Zenon, <1>2, <1>3 DEF ReportInv
<1>5. n \in Nat /\ n <= Len(records)
  BY <1>2 DEF ReportInv, CountedBefore, ReportType
<1> HIDE DEF n
<1>6. total \in Nat /\ total <= total /\ SignalsFired(SubSeq(records, 1, n)) <= total
  BY <1>2, <1>5, PrefixSignals, SignalsAreCounted DEF total
<1>7. SummedBetween'
  BY Zenon, <1>2, <1>3, <1>6 DEF SummedBetween, total
<1>8. CountedBefore' /\ ReportBacked'
  BY <1>2, <1>3, <1>5 DEF CountedBefore, ReportBacked
<1> QED
  BY <1>4, <1>7, <1>8 DEF ReportInv

LEMMA ReportWritten == LedgerInv /\ ReportInv /\ ReportWrite => ReportInv'
<1> SUFFICES ASSUME LedgerInv, ReportInv, ReportWrite PROVE ReportInv'
  OBVIOUS
<1> DEFINE filled == [report EXCEPT !.at = "written", !.records = records]
<1>1. ReportStep("write", filled)
  BY DEF ReportWrite, RecordsShown
<1> HIDE DEF filled
<1>2. /\ report' = filled /\ report \in ReportType /\ records' = records
      /\ report.at = "write" /\ records \in Seq(Record) /\ VerifyChain(records)
  BY <1>1, ReportMoved
<1>3. /\ report'.at = "written" /\ report'.records = records /\ report'.ok = report.ok
      /\ report'.triggers = report.triggers /\ report'.signals = report.signals
  BY <1>2 DEF filled, ReportType
<1>4. report.ok /\ report.signals <= SignalsFired(records)
      /\ SignalsFired(SubSeq(records, 1, report.triggers)) <= report.signals
  BY <1>2 DEF ReportInv, SummedBetween
<1>5. report.triggers <= Len(records)
  BY <1>2 DEF ReportInv, CountedBefore
<1>6. ReportBacked'
  BY Zenon, <1>2, <1>3, <1>4, <1>5 DEF ReportBacked
<1>7. (report.at # "rest" => report.ok)'
  BY Zenon, <1>3, <1>4
<1>8. CountedBefore' /\ SummedBetween'
  BY <1>3 DEF CountedBefore, SummedBetween
<1> QED
  BY <1>6, <1>7, <1>8 DEF ReportInv

LEMMA ReportIsDone == LedgerInv /\ ReportInv /\ ReportDone => ReportInv'
<1> SUFFICES ASSUME ReportDone PROVE ReportInv'
  OBVIOUS
<1>1. report'.at = "rest" /\ report'.ok = TRUE
  BY DEF ReportDone, ReportStep, NoReport
<1> QED
  BY <1>1 DEF ReportInv, CountedBefore, SummedBetween, ReportBacked

LEMMA ReportInvStep == LedgerInv /\ ReportInv /\ [Next]_vars => ReportInv'
<1> SUFFICES ASSUME LedgerInv, ReportInv, [Next]_vars PROVE ReportInv'
  OBVIOUS
<1>1. CASE UNCHANGED report
  BY <1>1, ReportHeld
<1>2. report' # report =>
        ReportVerify \/ ReportCount \/ ReportSum \/ ReportWrite \/ ReportDone
  BY DEF Next, Run, Proceed, TkThread, RunUnknown, RunUnavailable, RunNoCurl, RunBusy,
         ReturnEarly, RunAcquire, Wake, Finish, Raise, AddBegin, AddAppend, LogAndReturn,
         Attest, Tick, vars
<1> QED
  BY <1>1, <1>2, ReportVerified, ReportCounted, ReportSummed, ReportWritten, ReportIsDone

(* An exported report never claims more than the records beside it show:   *)
(* to_dict() reads chain, count, sum and records at four moments, without  *)
(* the ledger's lock, while any number of threads add and annotate.        *)
THEOREM ReportsAreBacked == Spec => []ReportBacked
<1>1. Init => ReportInv
  BY DEF Init, NoReport, ReportInv, CountedBefore, SummedBetween, ReportBacked
<1>2. Spec => []ReportInv
  BY <1>1, ReportInvStep, LedgerInvAlways, PTL DEF Spec
<1>3. ReportInv => ReportBacked
  BY DEF ReportInv
<1> QED
  BY <1>2, <1>3, PTL

-----------------------------------------------------------------------------
(* One record per call.  The two halves of RecordedOnce.                   *)
CallsAddUp == Len(records) + raised + Cardinality(Unrecorded) = calls

HasOwnRecord ==
  \A t \in Threads : pc[t] = "log" =>
    /\ draft[t].seq \in DOMAIN records
    /\ PayloadOf(records[draft[t].seq])
         = [seq |-> draft[t].seq, id |-> job[t], state |-> out[t], wire |-> Wire[job[t]]]

LEMMA HasOwnRecordStep == LedgerInv /\ HasOwnRecord /\ [Next]_vars => HasOwnRecord'
<1> SUFFICES ASSUME LedgerInv, HasOwnRecord, [Next]_vars PROVE HasOwnRecord'
  OBVIOUS
<1> USE DEF HasOwnRecord
<1>1. ASSUME records' = records,
             NEW t \in Threads, pc'[t] # "log",
             \A u \in Threads \ {t} : /\ pc'[u] = pc[u] /\ job'[u] = job[u]
                                      /\ out'[u] = out[u] /\ draft'[u] = draft[u]
      PROVE  HasOwnRecord'
  BY <1>1
<1>2. ASSUME NEW t \in Threads, AddAppend(t) PROVE HasOwnRecord'
  <2> DEFINE r == draft[t]
  <2>1. /\ records \in Seq(Record) /\ r \in Record /\ records' = Append(records, r)
        /\ r = NewRecord(records, job[t], out[t])
    BY <1>2 DEF AddAppend, LedgerInv, DraftIsNext, TypeOK
  <2>2. /\ r.seq = Len(records) + 1 /\ r.id = job[t] /\ r.state = out[t]
        /\ r.wire = Wire[job[t]]
    BY <2>1, NewRecordFields
  <2> HIDE DEF r
  <2>3. /\ DOMAIN records' = 1..(Len(records) + 1)
        /\ \A i \in 1..Len(records) : records'[i] = records[i]
        /\ records'[Len(records) + 1] = r
    BY <2>1, AppendProperties
  <2>4. /\ r.seq \in DOMAIN records'
        /\ PayloadOf(records'[r.seq])
             = [seq |-> r.seq, id |-> job[t], state |-> out[t], wire |-> Wire[job[t]]]
    BY <2>1, <2>2, <2>3 DEF PayloadOf
  <2>5. ASSUME NEW u \in Threads, u # t, pc'[u] = "log"
        PROVE  /\ pc[u] = "log" /\ draft'[u] = draft[u] /\ job'[u] = job[u]
               /\ out'[u] = out[u]
    BY <1>2, <2>5 DEF AddAppend, LedgerInv, TypeOK
  <2>6. ASSUME NEW u \in Threads, u # t, pc'[u] = "log"
        PROVE  /\ draft'[u].seq \in DOMAIN records'
               /\ records'[draft'[u].seq] = records[draft[u].seq]
    <3>1. draft'[u] = draft[u] /\ draft[u].seq \in DOMAIN records
      BY <2>5, <2>6
    <3>2. DOMAIN records = 1..Len(records) /\ Len(records) \in Nat
      BY <2>1
    <3> HIDE DEF HasOwnRecord
    <3> QED
      BY <2>3, <3>1, <3>2
  <2>7. draft'[t] = r /\ job'[t] = job[t] /\ out'[t] = out[t]
    BY <1>2 DEF AddAppend, r
  <2> QED
    BY <2>4, <2>5, <2>6, <2>7
<1>3. ASSUME NEW seq \in DOMAIN records, NEW value \in Confirmations, Attest(seq, value)
      PROVE  HasOwnRecord'
  <2>1. /\ records \in Seq(Record)
        /\ records' = [records EXCEPT ![seq].confirmed = value]
        /\ UNCHANGED <<pc, job, out, draft>>
    BY <1>3 DEF Attest, LedgerInv, TypeOK, runVars
  <2>2. DOMAIN records' = DOMAIN records
    BY <2>1
  <2>3. ASSUME NEW j \in DOMAIN records PROVE PayloadOf(records'[j]) = PayloadOf(records[j])
    <3>1. records[j] \in Record /\ j \in 1..Len(records)
      BY <2>1
    <3>2. records'[j] = IF j = seq THEN [records[j] EXCEPT !.confirmed = value]
                                    ELSE records[j]
      BY <2>1, <3>1, Annotated
    <3> QED
      BY <3>1, <3>2 DEF Record, PayloadOf
  <2> QED
    BY <2>1, <2>2, <2>3
<1>4. CASE UNCHANGED <<records, pc, job, out, draft>>
  BY <1>4
<1>5. ASSUME NEW t \in Threads, NEW id \in Ids, NEW state, ReturnEarly(t, id, state)
      PROVE HasOwnRecord'
  BY <1>1, <1>5 DEF ReturnEarly, Enters, LedgerInv, TypeOK, ledgerVars
<1>6. ASSUME NEW t \in Threads, NEW id \in Ids, RunAcquire(t, id) PROVE HasOwnRecord'
  BY <1>1, <1>6 DEF RunAcquire, Enters, LedgerInv, TypeOK, ledgerVars
<1>7. ASSUME NEW t \in Threads, Wake(t) \/ Finish(t) \/ Raise(t) \/ AddBegin(t)
      PROVE HasOwnRecord'
  BY <1>1, <1>7 DEF Wake, Finish, Raise, AddBegin, LedgerInv, TypeOK, ledgerVars
<1>8. ASSUME NEW t \in Threads, LogAndReturn(t) PROVE HasOwnRecord'
  BY <1>1, <1>8 DEF LogAndReturn, LedgerInv, TypeOK, ledgerVars
<1> QED
  BY <1>2, <1>3, <1>4, <1>5, <1>6, <1>7, <1>8
  DEF Next, Run, Proceed, TkThread, RunUnknown, RunUnavailable, RunNoCurl, RunBusy,
      ReportVerify, ReportCount, ReportSum, ReportWrite, ReportDone, ReportStep, Tick,
      vars, runVars, ledgerVars

LEMMA CallsAddUpStep == LedgerInv /\ CallsAddUp /\ [Next]_vars => CallsAddUp'
<1> SUFFICES ASSUME LedgerInv, CallsAddUp, [Next]_vars PROVE CallsAddUp'
  OBVIOUS
<1>1. /\ IsFiniteSet(Unrecorded) /\ Cardinality(Unrecorded) \in Nat
      /\ Len(records) \in Nat /\ raised \in Nat /\ calls \in Nat
  <2>1. Unrecorded \in SUBSET Threads
    BY DEF Unrecorded
  <2>2. IsFiniteSet(Unrecorded)
    BY <2>1, FS_Subset, ConsoleAssumption
  <2> QED
    BY <2>2, FS_CardinalityType, ConsoleAssumption DEF LedgerInv, TypeOK
<1>2. ASSUME NEW t \in Threads, pc[t] = Idle, Unrecorded' = Unrecorded \cup {t},
             UNCHANGED <<records, raised>>, calls' = calls + 1
      PROVE  CallsAddUp'
  <2>1. Cardinality(Unrecorded') = Cardinality(Unrecorded) + 1
    BY <1>1, <1>2, FS_AddElement DEF Unrecorded
  <2> QED
    BY <1>1, <1>2, <2>1 DEF CallsAddUp
<1>3. ASSUME NEW t \in Threads, t \in Unrecorded, Unrecorded' = Unrecorded \ {t},
             Len(records') + raised' = Len(records) + raised + 1, calls' = calls,
             Len(records') \in Nat, raised' \in Nat
      PROVE  CallsAddUp'
  <2>1. Cardinality(Unrecorded') = Cardinality(Unrecorded) - 1
    BY <1>1, <1>3, FS_RemoveElement
  <2> QED
    BY <1>1, <1>3, <2>1 DEF CallsAddUp
<1>4. ASSUME Unrecorded' = Unrecorded, Len(records') = Len(records), UNCHANGED <<raised, calls>>
      PROVE  CallsAddUp'
  BY <1>4 DEF CallsAddUp
<1> USE DEF LedgerInv, TypeOK
<1>5. ASSUME NEW t \in Threads, NEW id \in Ids, NEW state, ReturnEarly(t, id, state)
      PROVE CallsAddUp'
  <2>1. Unrecorded' = Unrecorded \cup {t}
    BY <1>5 DEF ReturnEarly, Enters, Unrecorded
  <2> QED
    BY <1>2, <1>5, <2>1 DEF ReturnEarly, Enters, ledgerVars
<1>6. ASSUME NEW t \in Threads, NEW id \in Ids, RunAcquire(t, id) PROVE CallsAddUp'
  <2>1. Unrecorded' = Unrecorded \cup {t}
    BY <1>6 DEF RunAcquire, Enters, Unrecorded
  <2> QED
    BY <1>2, <1>6, <2>1 DEF RunAcquire, Enters, ledgerVars
<1>7. ASSUME NEW t \in Threads, Wake(t) \/ Finish(t) \/ AddBegin(t) PROVE CallsAddUp'
  <2>1. Unrecorded' = Unrecorded
    BY <1>7 DEF Wake, Finish, AddBegin, Unrecorded
  <2> QED
    BY <1>4, <1>7, <2>1 DEF Wake, Finish, AddBegin, ledgerVars, histVars
<1>8. ASSUME NEW t \in Threads, Raise(t) PROVE CallsAddUp'
  <2>1. t \in Unrecorded /\ Unrecorded' = Unrecorded \ {t}
    BY <1>8 DEF Raise, Unrecorded
  <2>2. UNCHANGED <<records, calls>> /\ raised' = raised + 1
    BY <1>8 DEF Raise, ledgerVars
  <2>3. /\ Len(records') + raised' = Len(records) + raised + 1
        /\ Len(records') \in Nat /\ raised' \in Nat
    <3>1. raised \in Nat /\ Len(records) \in Nat
      BY <1>1
    <3> QED
      BY <2>2, <3>1
  <2> QED
    BY <1>3, <2>1, <2>2, <2>3
<1>9. ASSUME NEW t \in Threads, AddAppend(t) PROVE CallsAddUp'
  <2>1. t \in Unrecorded /\ Unrecorded' = Unrecorded \ {t}
    BY <1>9 DEF AddAppend, Unrecorded
  <2>2. Len(records') = Len(records) + 1 /\ UNCHANGED histVars
    BY <1>9, AppendProperties DEF AddAppend
  <2> QED
    BY <1>1, <1>3, <2>1, <2>2 DEF histVars
<1>10. ASSUME NEW t \in Threads, LogAndReturn(t) PROVE CallsAddUp'
  <2>1. Unrecorded' = Unrecorded
    BY <1>10 DEF LogAndReturn, Unrecorded
  <2> QED
    BY <1>4, <1>10, <2>1 DEF LogAndReturn, ledgerVars, histVars
<1>11. ASSUME NEW seq \in DOMAIN records, NEW value \in Confirmations, Attest(seq, value)
       PROVE CallsAddUp'
  <2>1. Unrecorded' = Unrecorded /\ Len(records') = Len(records)
    BY <1>11, Annotated DEF Attest, Unrecorded, runVars
  <2> QED
    BY <1>4, <1>11, <2>1 DEF Attest, histVars
<1>12. CASE \/ ReportVerify \/ ReportCount \/ ReportSum \/ ReportWrite \/ ReportDone
            \/ Tick \/ UNCHANGED vars
  <2>1. UNCHANGED <<pc, records, raised, calls>>
    BY <1>12
    DEF ReportVerify, ReportCount, ReportSum, ReportWrite, ReportDone, ReportStep, Tick,
        vars, runVars, ledgerVars, histVars
  <2> QED
    BY <1>4, <2>1 DEF Unrecorded
<1> QED
  BY <1>5, <1>6, <1>7, <1>8, <1>9, <1>10, <1>11, <1>12
  DEF Next, Run, Proceed, TkThread, RunUnknown, RunUnavailable, RunNoCurl, RunBusy

(* A call that returns has left exactly one record, its own; the calls     *)
(* without one are those still under way and those that raised.            *)
THEOREM RecordedExactlyOnce == Spec => []RecordedOnce
<1>1. Init => CallsAddUp /\ HasOwnRecord
  <2>1. Init => Unrecorded = {}
    BY DEF Init, Unrecorded
  <2>2. Init => CallsAddUp
    <3> SUFFICES ASSUME Init PROVE CallsAddUp
      OBVIOUS
    <3>1. Cardinality(Unrecorded) = 0
      BY <2>1, FS_EmptySet
    <3>2. Len(records) = 0 /\ raised = 0 /\ calls = 0
      BY DEF Init
    <3> QED
      BY <3>1, <3>2 DEF CallsAddUp
  <2>3. Init => HasOwnRecord
    BY DEF Init, HasOwnRecord, Idle
  <2> QED
    BY <2>2, <2>3
<1>2. Spec => [](LedgerInv /\ CallsAddUp /\ HasOwnRecord)
  BY <1>1, CallsAddUpStep, HasOwnRecordStep, LedgerInvAlways, PTL DEF Spec
<1>3. CallsAddUp /\ HasOwnRecord => RecordedOnce
  BY DEF CallsAddUp, HasOwnRecord, RecordedOnce
<1> QED
  BY <1>2, <1>3, PTL
=============================================================================
