---------------------------- MODULE HarnessProofs ----------------------------
(***************************************************************************)
(* What the paired measurement may be believed, for any catalog, control   *)
(* and number of changes of the path and restarts of the reflector.        *)
(***************************************************************************)
EXTENDS Harness, FiniteSetTheorems, TLAPS

Fates == {"unsent", "dropped", "lost", "crossing", "refused", "arrived"}

Outcomes == {None, ARRIVED, MANGLED, BLOCKED, ERROR}

WellTyped ==
  /\ at \in {"send", "wait", "done", "raised"}
  /\ next \in Nat \ {0}
  /\ at = "wait" => next <= Len(Catalog)
  /\ at = "done" => next > Len(Catalog)
  /\ fate \in [Probes -> Fates]
  /\ ledger \in [Probes -> {None, "intact", "altered"}]
  /\ acked \in [Probes -> BOOLEAN]
  /\ results \in [Probes -> Outcomes]
  /\ flips \in Nat /\ restarts \in Nat

(* A probe is sent when its turn comes, and not before.                    *)
SentInOrder ==
  \A i \in DOMAIN Catalog : fate[Catalog[i]] = "unsent" <=> i > next \/ (i = next /\ at = "send")

(* What the reflector holds got there, and is what was made of it on the   *)
(* way; what was acknowledged got there, or was answered by the control.   *)
LedgerIsTrue ==
  \A p \in Probes :
    /\ ledger[p] # None => fate[p] = "arrived" /\ ledger[p] = DigestOf(p, cut)
    /\ fate[p] \in {"crossing", "arrived"} => Treatment(p) # "drop" \/ p \in cut
    /\ fate[p] = "arrived" /\ restarts = 0 => ledger[p] = DigestOf(p, cut)
    /\ acked[p] => fate[p] \in {"arrived", "dropped"}

(* A path that never changed was up or down for every probe.               *)
PathSteady ==
  flips = 0 => \A p \in Probes : (fate[p] = "lost" => ~path) /\ (fate[p] = "arrived" => path)

LEMMA CatalogTypes ==
  /\ \A i \in DOMAIN Catalog : Catalog[i] \in Probes
  /\ DOMAIN Catalog = 1..Len(Catalog) /\ Len(Catalog) \in Nat
  /\ \A p \in Probes : \E i \in DOMAIN Catalog : Catalog[i] = p
BY HarnessAssumption DEF Probes, ToSet

LEMMA DecideIs ==
  ASSUME NEW rules, NEW marks
  PROVE  /\ Decide(rules, marks) \in {"drop", "sanitize", "allow"}
         /\ Decide(rules, marks) = "drop" <=>
              \E i \in DOMAIN rules : rules[i].mark \in marks /\ rules[i].act = "drop"
<1> DEFINE acts == {rules[i].act : i \in {j \in DOMAIN rules : rules[j].mark \in marks}}
<1>1. Decide(rules, marks) =
        CASE "drop" \in acts                           -> "drop"
          [] "drop" \notin acts /\ "sanitize" \in acts -> "sanitize"
          [] acts \cap {"drop", "sanitize"} = {}       -> "allow"
  BY DEF Decide
<1>2. "drop" \in acts <=>
        \E i \in DOMAIN rules : rules[i].mark \in marks /\ rules[i].act = "drop"
  OBVIOUS
<1> HIDE DEF acts
<1>3. CASE "drop" \in acts
  BY <1>1, <1>2, <1>3
<1>4. CASE "drop" \notin acts /\ "sanitize" \in acts
  BY <1>1, <1>2, <1>4
<1>5. CASE "drop" \notin acts /\ "sanitize" \notin acts
  BY <1>1, <1>2, <1>5
<1> QED
  BY <1>3, <1>4, <1>5

LEMMA TreatmentIs == \A p : Treatment(p) \in {"drop", "sanitize", "allow"}
BY DecideIs DEF Treatment

(* A part of a body is dropped only if the whole of it would be.           *)
LEMMA PartDropped ==
  ASSUME NEW p, NEW part \in SUBSET Marks[p], Decide(policy, part) = "drop"
  PROVE  Treatment(p) = "drop"
BY DecideIs DEF Treatment

LEMMA CurrentTypes ==
  ASSUME WellTyped, at \in {"send", "wait"}, next <= Len(Catalog)
  PROVE  next \in DOMAIN Catalog /\ Current \in Probes
BY CatalogTypes DEF WellTyped, Current

(* What sending a probe makes of it.                                       *)
LEMMA SendDoes ==
  ASSUME WellTyped, Send \/ SendShort
  PROVE  /\ Current \in Probes /\ next \in DOMAIN Catalog
         /\ UNCHANGED <<next, acked, results, hung, net, ledger, restarts>>
         /\ at = "send" /\ at' = "wait"
         /\ fate' \in [Probes -> Fates]
         /\ \A p \in Probes : p # Current => fate'[p] = fate[p] /\ (p \in cut' <=> p \in cut)
         /\ fate'[Current] \in {"dropped", "lost", "crossing"}
         /\ fate'[Current] = "crossing" => Treatment(Current) # "drop" \/ Current \in cut'
         /\ fate'[Current] = "lost" => ~path
         /\ fate'[Current] = "dropped" => Treatment(Current) = "drop"
<1>1. Current \in Probes /\ next \in DOMAIN Catalog /\ at = "send"
  BY CurrentTypes DEF Send, SendShort, SendsNext
<1>2. PICK part \in SUBSET Marks[Current] :
        /\ Leaves(part)
        /\ \/ part = Marks[Current] /\ cut' = cut
           \/ cut' = cut \cup {Current}
  BY DEF Send, SendShort
<1> DEFINE drop == Decide(policy, part) = "drop"
<1>3. /\ fate' = [fate EXCEPT ![Current] = CASE drop           -> "dropped"
                                             [] ~drop /\ ~path -> "lost"
                                             [] ~drop /\ path  -> "crossing"]
      /\ at' = "wait" /\ UNCHANGED <<next, acked, results, hung, net, ledger, restarts>>
  BY <1>2 DEF Leaves
<1>4. fate \in [Probes -> Fates]
  BY DEF WellTyped
<1>5. /\ drop => Treatment(Current) = "drop"
      /\ ~drop => Treatment(Current) # "drop" \/ Current \in cut'
  BY <1>2, PartDropped DEF Treatment
<1>6. \/ drop /\ fate' = [fate EXCEPT ![Current] = "dropped"]
      \/ ~path /\ fate' = [fate EXCEPT ![Current] = "lost"]
      \/ ~drop /\ fate' = [fate EXCEPT ![Current] = "crossing"]
  <2> HIDE DEF drop
  <2>1. CASE drop
    BY <1>3, <2>1
  <2>2. CASE ~drop /\ path
    BY <1>3, <2>2
  <2>3. CASE ~drop /\ ~path
    BY <1>3, <2>3
  <2> QED
    BY <2>1, <2>2, <2>3
<1>7. \A p \in Probes : p # Current => (p \in cut' <=> p \in cut)
  BY <1>2
<1> HIDE DEF drop
<1> QED
  BY <1>1, <1>3, <1>4, <1>5, <1>6, <1>7 DEF Fates

LEMMA WellTypedStep ==
  ASSUME WellTyped, [Next]_vars
  PROVE  WellTyped'
<1> USE DEF WellTyped, Fates, Outcomes
<1>1. CASE Send \/ SendShort
  <2>1. fate' \in [Probes -> Fates]
    BY <1>1, SendDoes
  <2> QED
    BY <1>1, <2>1 DEF Send, SendShort, SendsNext, Leaves, net
<1>2. CASE Acknowledged \/ GiveUp
  <2>1. PICK ack \in BOOLEAN : Moves(ack)
    BY <1>2 DEF Acknowledged, GiveUp
  <2>2. acked' \in [Probes -> BOOLEAN]
    BY <2>1, Zenon DEF Moves
  <2>3. next' \in Nat \ {0}
    BY <2>1 DEF Moves
  <2> QED
    BY <2>1, <2>2, <2>3 DEF Moves, net
<1>3. CASE AnswerBroken
  BY <1>3 DEF AnswerBroken, net
<1>4. CASE LedgerRead \/ LedgerRefused
  <2>1. PICK outcomes : /\ ReadLedger(outcomes)
                        /\ outcomes \in [Probes -> Outcomes]
    <3>1. \A p \in Probes : Outcome(ledger, p) \in Outcomes
      <4> SUFFICES ASSUME NEW p \in Probes PROVE Outcome(ledger, p) \in Outcomes
        OBVIOUS
      <4>1. ledger[p] \in {None, "intact", "altered"}
        OBVIOUS
      <4> QED
        BY <4>1 DEF Outcome, None, ARRIVED, MANGLED, BLOCKED, ERROR
    <3> QED
      BY <1>4, <3>1 DEF LedgerRead, LedgerRefused
  <2> QED
    BY <2>1 DEF ReadLedger, net
<1>5. ASSUME NEW p \in Probes, Arrive(p) \/ Lose(p) PROVE WellTyped'
  <2>1. DigestOf(p, cut') \in {"intact", "altered"}
    BY DEF DigestOf
  <2>2. fate' \in [Probes -> Fates] /\ ledger' \in [Probes -> {None, "intact", "altered"}]
    BY <1>5, <2>1 DEF Arrive, Lose
  <2> QED
    BY <1>5, <2>2 DEF Arrive, Lose, run, net
<1>6. CASE PathChanges
  BY <1>6 DEF PathChanges, run
<1>7. CASE ReflectorRestarts
  BY <1>7 DEF ReflectorRestarts, run, net
<1>8. CASE UNCHANGED vars
  BY <1>8 DEF vars, run, net
<1> QED
  BY <1>1, <1>2, <1>3, <1>4, <1>5, <1>6, <1>7, <1>8 DEF Next, Step

LEMMA SentInOrderStep ==
  ASSUME WellTyped, SentInOrder, [Next]_vars
  PROVE  SentInOrder'
<1>1. CASE Send \/ SendShort
  <2>1. /\ at = "send" /\ at' = "wait" /\ next' = next
    BY <1>1, SendDoes
  <2>2. \A i \in DOMAIN Catalog : Catalog[i] = Current <=> i = next
    BY <1>1, SendDoes, HarnessAssumption DEF IsInjective, Current
  <2> QED
    BY <1>1, <2>1, <2>2, SendDoes, CatalogTypes DEF SentInOrder, WellTyped
<1>2. CASE Acknowledged \/ GiveUp
  <2>1. at = "wait" /\ at' = "send" /\ next' = next + 1 /\ UNCHANGED fate /\ next \in Nat
    BY <1>2 DEF Acknowledged, GiveUp, Moves, WellTyped
  <2>2. \A i \in DOMAIN Catalog : i \in Nat
    BY CatalogTypes
  <2> QED
    BY <2>1, <2>2 DEF SentInOrder
<1>3. CASE AnswerBroken
  BY <1>3 DEF AnswerBroken, SentInOrder
<1>4. CASE LedgerRead \/ LedgerRefused
  <2>1. next > Len(Catalog) /\ at' = "done" /\ UNCHANGED <<next, fate>> /\ next \in Nat
    BY <1>4 DEF LedgerRead, LedgerRefused, ReadLedger, WellTyped
  <2>2. \A i \in DOMAIN Catalog : i \in Nat /\ i <= Len(Catalog) /\ Len(Catalog) \in Nat
    BY CatalogTypes
  <2> QED
    BY <2>1, <2>2 DEF SentInOrder
<1>5. ASSUME NEW p \in Probes, Arrive(p) \/ Lose(p) PROVE SentInOrder'
  <2>1. UNCHANGED <<at, next>> /\ \A q \in Probes : fate'[q] = "unsent" <=> fate[q] = "unsent"
    BY <1>5 DEF Arrive, Lose, run, WellTyped
  <2> QED
    BY <2>1, CatalogTypes DEF SentInOrder
<1>6. CASE PathChanges \/ ReflectorRestarts \/ UNCHANGED vars
  BY <1>6 DEF PathChanges, ReflectorRestarts, vars, run, SentInOrder
<1> QED
  BY <1>1, <1>2, <1>3, <1>4, <1>5, <1>6 DEF Next, Step

LEMMA PolicyStays == [Next]_vars => UNCHANGED <<policy, oversize, trusted>>
BY DEF Next, Step, Send, SendShort, Leaves, Acknowledged, GiveUp, Moves, AnswerBroken, LedgerRead, LedgerRefused,
       ReadLedger, Arrive, Lose, PathChanges, ReflectorRestarts, vars, net

LEMMA TreatmentStays ==
  ASSUME [Next]_vars, NEW p
  PROVE  Treatment(p)' = Treatment(p)
BY PolicyStays DEF Treatment

(* The digest of a probe is another one only once it has been cut short.   *)
LEMMA DigestStays ==
  ASSUME [Next]_vars, NEW p, p \in cut' <=> p \in cut
  PROVE  DigestOf(p, cut)' = DigestOf(p, cut) /\ DigestOf(p, cut') = DigestOf(p, cut)
BY TreatmentStays DEF DigestOf

(* LedgerIsTrue of one probe.                                              *)
TrueOf(p) ==
  /\ ledger[p] # None => fate[p] = "arrived" /\ ledger[p] = DigestOf(p, cut)
  /\ fate[p] \in {"crossing", "arrived"} => Treatment(p) # "drop" \/ p \in cut
  /\ fate[p] = "arrived" /\ restarts = 0 => ledger[p] = DigestOf(p, cut)
  /\ acked[p] => fate[p] \in {"arrived", "dropped"}

LEMMA LedgerIsTrueStep ==
  ASSUME WellTyped, SentInOrder, LedgerIsTrue, [Next]_vars
  PROVE  LedgerIsTrue'
<1>0. \A p : Treatment(p)' = Treatment(p)
  BY TreatmentStays
<1>00. \A p \in Probes : TrueOf(p)
  BY DEF LedgerIsTrue, TrueOf
<1> SUFFICES ASSUME NEW p \in Probes PROVE TrueOf(p)'
  BY DEF LedgerIsTrue, TrueOf
<1>d. (p \in cut' <=> p \in cut) => DigestOf(p, cut)' = DigestOf(p, cut)
  BY DigestStays
<1>1. CASE Send \/ SendShort
  <2>1. fate[Current] = "unsent" /\ Current \in Probes
    BY <1>1, SendDoes DEF SentInOrder, Current, WellTyped
  <2>2. UNCHANGED <<ledger, restarts, acked>>
    BY <1>1, SendDoes
  <2>3. CASE p = Current
    <3>1. ledger[p] = None /\ ~acked[p]
      BY <1>00, <2>1, <2>3 DEF TrueOf, WellTyped
    <3> QED
      BY <1>0, <1>1, <2>2, <2>3, <3>1, SendDoes DEF TrueOf
  <2>4. CASE p # Current
    <3>1. fate'[p] = fate[p] /\ (p \in cut' <=> p \in cut)
      BY <1>1, <2>4, SendDoes
    <3> QED
      BY <1>0, <1>00, <1>d, <2>2, <3>1 DEF TrueOf
  <2> QED
    BY <2>3, <2>4
<1>2. CASE Acknowledged \/ GiveUp
  <2>1. UNCHANGED <<fate, cut, ledger, restarts>>
    BY <1>2 DEF Acknowledged, GiveUp, Moves
  <2>2. acked'[p] => fate[p] \in {"arrived", "dropped"}
    <3>1. CASE Acknowledged
      BY <1>00, <3>1 DEF Acknowledged, Moves, WellTyped, TrueOf
    <3>2. CASE GiveUp
      BY <1>00, <3>2 DEF GiveUp, Moves, WellTyped, TrueOf
    <3> QED
      BY <1>2, <3>1, <3>2
  <2> QED
    BY <1>0, <1>00, <1>d, <2>1, <2>2 DEF TrueOf
<1>3. ASSUME NEW q \in Probes, Arrive(q) PROVE TrueOf(p)'
  <2>1. /\ fate[q] = "crossing" /\ UNCHANGED <<restarts, acked>>
        /\ \/ fate' = [fate EXCEPT ![q] = "refused"] /\ UNCHANGED <<cut, ledger>>
           \/ /\ fate' = [fate EXCEPT ![q] = "arrived"]
              /\ cut' = cut \/ cut' = cut \cup {q}
              /\ ledger' = [ledger EXCEPT ![q] = DigestOf(q, cut')]
    BY <1>3 DEF Arrive, run
  <2>2. CASE p # q
    <3>1. ledger'[p] = ledger[p] /\ fate'[p] = fate[p] /\ (p \in cut' <=> p \in cut)
      BY <2>1, <2>2 DEF WellTyped
    <3> QED
      BY <1>0, <1>00, <1>d, <2>1, <3>1 DEF TrueOf
  <2>3. CASE p = q /\ fate'[q] = "refused"
    <3>1. ledger[p] = None /\ ~acked[p] /\ ledger' = ledger
      BY <1>00, <2>1, <2>3 DEF TrueOf, WellTyped
    <3> QED
      BY <2>1, <2>3, <3>1 DEF TrueOf
  <2>4. CASE p = q /\ fate'[q] # "refused"
    <3>1. /\ ledger'[p] = DigestOf(p, cut') /\ fate'[p] = "arrived"
          /\ p \in cut => p \in cut'
      BY <2>1, <2>4 DEF WellTyped
    <3>2. DigestOf(p, cut)' = DigestOf(p, cut')
      BY <1>0 DEF DigestOf
    <3>3. ~acked[p] /\ (Treatment(p) # "drop" \/ p \in cut)
      BY <1>00, <2>1, <2>4 DEF TrueOf
    <3> QED
      BY <1>0, <2>1, <3>1, <3>2, <3>3 DEF TrueOf
  <2> QED
    BY <2>2, <2>3, <2>4
<1>4. ASSUME NEW q \in Probes, Lose(q) PROVE TrueOf(p)'
  <2>1. /\ UNCHANGED <<cut, ledger, restarts, acked>>
        /\ fate'[p] = fate[p] \/ (fate[p] = "crossing" /\ fate'[p] = "lost")
    BY <1>4 DEF Lose, run, WellTyped
  <2> QED
    BY <1>0, <1>00, <1>d, <2>1 DEF TrueOf
<1>5. CASE ReflectorRestarts
  <2>1. /\ ledger'[p] = None
        /\ restarts' # 0 /\ UNCHANGED <<fate, cut, acked>>
    BY <1>5 DEF ReflectorRestarts, run, WellTyped
  <2> QED
    BY <1>0, <1>00, <2>1 DEF TrueOf
<1>6. CASE AnswerBroken \/ LedgerRead \/ LedgerRefused \/ PathChanges \/ UNCHANGED vars
  <2>1. UNCHANGED <<fate, cut, ledger, restarts, acked>>
    BY <1>6 DEF AnswerBroken, LedgerRead, LedgerRefused, ReadLedger, PathChanges, vars, run
  <2> QED
    BY <1>0, <1>00, <1>d, <2>1 DEF TrueOf
<1> QED
  BY <1>1, <1>2, <1>3, <1>4, <1>5, <1>6 DEF Next, Step

LEMMA PathSteadyStep ==
  ASSUME WellTyped, PathSteady, [Next]_vars
  PROVE  PathSteady'
<1>1. CASE Send \/ SendShort
  <2>1. UNCHANGED <<path, flips>>
    BY <1>1, SendDoes DEF net
  <2>2. \A p \in Probes : fate'[p] = "lost" => fate[p] = "lost" \/ ~path
    BY <1>1, SendDoes
  <2>3. \A p \in Probes : fate'[p] = "arrived" => fate[p] = "arrived"
    BY <1>1, SendDoes
  <2> QED
    BY <2>1, <2>2, <2>3 DEF PathSteady
<1>2. ASSUME NEW p \in Probes, Arrive(p) \/ Lose(p) PROVE PathSteady'
  BY <1>2 DEF Arrive, Lose, net, PathSteady, WellTyped
<1>3. CASE PathChanges
  BY <1>3 DEF PathChanges, PathSteady, WellTyped
<1>4. CASE \/ Acknowledged \/ GiveUp \/ AnswerBroken \/ LedgerRead \/ LedgerRefused
           \/ ReflectorRestarts \/ UNCHANGED vars
  <2>1. UNCHANGED <<path, flips, fate>>
    BY <1>4 DEF Acknowledged, GiveUp, Moves, AnswerBroken, LedgerRead, LedgerRefused, ReadLedger,
                ReflectorRestarts, vars, net
  <2> QED
    BY <2>1 DEF PathSteady
<1> QED
  BY <1>1, <1>2, <1>3, <1>4 DEF Next, Step

(* What a verified ledger with some arrival in it proves, whatever happens *)
(* to the probes that were still crossing when it was read.                *)
Evidence(p) ==
  /\ results[p] = ARRIVED => fate[p] = "arrived" /\ DigestOf(p, cut) = "intact"
  /\ results[p] = MANGLED => fate[p] = "arrived" /\ DigestOf(p, cut) = "altered"
  /\ results[p] = BLOCKED =>
       /\ acked[p] => fate[p] = "dropped" \/ restarts # 0
       /\ p \in hung \/ fate[p] \notin {"crossing", "unsent"}
       /\ p \notin hung /\ restarts = 0 => fate[p] # "arrived"

SomeArrival == \E p \in Probes : results[p] \in {ARRIVED, MANGLED} /\ fate[p] = "arrived"

ReadInv ==
  at = "done" =>
    /\ \A p \in Probes : fate[p] = "crossing" => p \in hung
    /\ \/ \A p \in Probes : results[p] = ERROR
       \/ trusted /\ SomeArrival /\ \A p \in Probes : Evidence(p)

LEMMA AllSent ==
  ASSUME WellTyped, SentInOrder, next > Len(Catalog)
  PROVE  \A p \in Probes : fate[p] # "unsent"
<1> SUFFICES ASSUME NEW p \in Probes PROVE fate[p] # "unsent"
  OBVIOUS
<1>1. PICK i \in 1..Len(Catalog) : Catalog[i] = p
  BY CatalogTypes
<1>2. i < next /\ ~(i > next) /\ i # next
  BY CatalogTypes DEF WellTyped
<1> QED
  BY <1>1, <1>2, CatalogTypes DEF SentInOrder

(* The moment the ledger is read.                                          *)
LEMMA ReadingProves ==
  ASSUME WellTyped, SentInOrder, LedgerIsTrue, LedgerRead \/ LedgerRefused
  PROVE  ReadInv'
<1>1. UNCHANGED <<acked, fate, cut, ledger, restarts, policy, trusted>>
  BY DEF LedgerRead, LedgerRefused, ReadLedger, net
<1>2. /\ \A p \in Probes : fate[p] # "unsent"
      /\ hung' = {p \in Probes : fate[p] = "crossing"}
  BY AllSent DEF LedgerRead, LedgerRefused, ReadLedger
<1>3. \A p : DigestOf(p, cut)' = DigestOf(p, cut)
  BY <1>1 DEF DigestOf, Treatment
<1>4. \/ \A p \in Probes : results'[p] = ERROR
      \/ trusted' /\ SomeArrival' /\ \A p \in Probes : Evidence(p)'
  <2>1. CASE LedgerRefused
    BY <2>1 DEF LedgerRefused, ReadLedger
  <2>2. CASE LedgerRead /\ ~PathUp(ledger)
    <3>1. \A p \in Probes : Outcome(ledger, p) = ERROR
      BY <2>2 DEF PathUp, Outcome, None
    <3> QED
      BY <2>2, <3>1 DEF LedgerRead, ReadLedger
  <2>3. CASE LedgerRead /\ PathUp(ledger)
    <3>1. trusted /\ \A p \in Probes : results'[p] = Outcome(ledger, p)
      BY <2>3 DEF LedgerRead, ReadLedger
    <3>2. \A p \in Probes :
            /\ ledger[p] = "intact" => results'[p] = ARRIVED
            /\ ledger[p] = "altered" => results'[p] = MANGLED
            /\ ledger[p] = None => results'[p] = BLOCKED
      BY <2>3, <3>1 DEF Outcome, None
    <3>3. \A p \in Probes : ledger[p] \in {None, "intact", "altered"}
      BY DEF WellTyped
    <3>4. PICK q \in Probes : ledger[q] # None
      BY <2>3 DEF PathUp
    <3>5. SomeArrival'
      BY <1>1, <3>2, <3>3, <3>4 DEF SomeArrival, LedgerIsTrue
    <3>6. ASSUME NEW p \in Probes PROVE Evidence(p)'
      <4>1. ASSUME ledger[p] = None
            PROVE  /\ acked[p] => fate[p] = "dropped" \/ restarts # 0
                   /\ p \in hung' \/ fate[p] \notin {"crossing", "unsent"}
                   /\ p \notin hung' /\ restarts = 0 => fate[p] # "arrived"
        <5>1. DigestOf(p, cut) # None
          BY DEF DigestOf, None
        <5>2. fate[p] = "arrived" => restarts # 0
          BY <4>1, <5>1 DEF LedgerIsTrue
        <5>3. acked[p] => fate[p] \in {"arrived", "dropped"}
          BY DEF LedgerIsTrue
        <5>4. p \in hung' \/ fate[p] # "crossing"
          BY <1>2
        <5> QED
          BY <1>2, <5>2, <5>3, <5>4
      <4>2. CASE ledger[p] = None
        BY <1>1, <1>3, <3>2, <4>1, <4>2 DEF Evidence, ARRIVED, MANGLED, BLOCKED
      <4>3. CASE ledger[p] # None
        <5>1. fate[p] = "arrived" /\ ledger[p] = DigestOf(p, cut)
          BY <4>3 DEF LedgerIsTrue
        <5> QED
          BY <1>1, <1>3, <3>2, <3>3, <4>3, <5>1 DEF Evidence, ARRIVED, MANGLED, BLOCKED
      <4> QED
        BY <4>2, <4>3
    <3> QED
      BY <1>1, <3>1, <3>5, <3>6
  <2> QED
    BY <2>1, <2>2, <2>3
<1> QED
  BY <1>1, <1>2, <1>4 DEF ReadInv

LEMMA ReadInvStep ==
  ASSUME WellTyped, SentInOrder, LedgerIsTrue, ReadInv, [Next]_vars
  PROVE  ReadInv'
<1>0. UNCHANGED trusted
  BY PolicyStays
<1>1. CASE Send \/ SendShort \/ Acknowledged \/ GiveUp \/ AnswerBroken
  <2>1. at' # "done"
    BY <1>1, SendDoes DEF Acknowledged, GiveUp, Moves, AnswerBroken
  <2> QED
    BY <2>1 DEF ReadInv
<1>2. CASE LedgerRead \/ LedgerRefused
  BY <1>2, ReadingProves
<1>3. ASSUME NEW p \in Probes, Arrive(p) \/ Lose(p), at = "done" PROVE ReadInv'
  <2>1. /\ UNCHANGED <<at, results, acked, hung, restarts>>
        /\ \A q \in Probes : q # p => fate'[q] = fate[q] /\ (q \in cut' <=> q \in cut)
        /\ fate[p] = "crossing"
    <3>1. cut' = cut \/ cut' = cut \cup {p}
      BY <1>3 DEF Arrive, Lose
    <3>2. \A q \in Probes : q # p => fate'[q] = fate[q]
      BY <1>3 DEF Arrive, Lose, WellTyped
    <3> QED
      BY <1>3, <3>1, <3>2 DEF Arrive, Lose, run
  <2>2. p \in hung
    BY <1>3, <2>1 DEF ReadInv
  <2>3. ASSUME NEW q \in Probes, Evidence(q) PROVE Evidence(q)'
    <3>1. CASE q # p
      <4>1. DigestOf(q, cut)' = DigestOf(q, cut)
        BY <2>1, <3>1, DigestStays
      <4> QED
        BY <2>1, <2>2, <2>3, <3>1, <4>1 DEF Evidence
    <3>2. CASE q = p
      BY <2>1, <2>2, <2>3, <3>2 DEF Evidence
    <3> QED
      BY <3>1, <3>2
  <2>4. SomeArrival => SomeArrival'
    BY <2>1 DEF SomeArrival
  <2> QED
    BY <1>0, <1>3, <2>1, <2>2, <2>3, <2>4 DEF ReadInv
<1>4. ASSUME NEW p \in Probes, Arrive(p) \/ Lose(p), at # "done" PROVE ReadInv'
  BY <1>4 DEF Arrive, Lose, run, ReadInv
<1>5. CASE PathChanges \/ ReflectorRestarts \/ UNCHANGED vars
  <2>1. /\ UNCHANGED <<at, results, acked, hung, fate, cut>>
        /\ restarts' # 0 \/ restarts' = restarts
    BY <1>5 DEF PathChanges, ReflectorRestarts, vars, run, WellTyped
  <2>2. ASSUME NEW q \in Probes, Evidence(q) PROVE Evidence(q)'
    <3>1. DigestOf(q, cut)' = DigestOf(q, cut)
      BY <2>1, DigestStays
    <3> QED
      BY <2>1, <2>2, <3>1 DEF Evidence
  <2>3. SomeArrival => SomeArrival'
    BY <2>1 DEF SomeArrival
  <2> QED
    BY <1>0, <2>1, <2>2, <2>3 DEF ReadInv
<1> QED
  BY <1>1, <1>2, <1>3, <1>4, <1>5 DEF Next, Step

HarnessInv == WellTyped /\ SentInOrder /\ LedgerIsTrue /\ PathSteady /\ ReadInv

LEMMA HarnessInvAlways == Spec => []HarnessInv
<1>1. Init => HarnessInv
  <2> SUFFICES ASSUME Init PROVE HarnessInv
    OBVIOUS
  <2>1. WellTyped
    BY CatalogTypes DEF Init, WellTyped, Fates, Outcomes
  <2>2. SentInOrder
    BY CatalogTypes DEF Init, SentInOrder
  <2>3. LedgerIsTrue /\ PathSteady /\ ReadInv
    BY DEF Init, LedgerIsTrue, PathSteady, ReadInv
  <2> QED
    BY <2>1, <2>2, <2>3 DEF HarnessInv
<1>2. HarnessInv /\ [Next]_vars => HarnessInv'
  BY WellTypedStep, SentInOrderStep, LedgerIsTrueStep, PathSteadyStep, ReadInvStep DEF HarnessInv
<1> QED
  BY <1>1, <1>2, PTL DEF Spec

(* What was reported to have arrived got there, whole and as the control   *)
(* lets it; what was reported mangled was altered by the control or cut    *)
(* short; what was acknowledged and reported as blocked, the control       *)
(* stopped, unless the reflector restarted.                                *)
THEOREM NoFalseArrival == Spec => []ArrivalsAreReal
<1>1. HarnessInv => ArrivalsAreReal
  <2> SUFFICES ASSUME HarnessInv, at = "done", NEW p \in Probes
               PROVE  /\ results[p] = ARRIVED =>
                           fate[p] = "arrived" /\ p \notin cut /\ Treatment(p) = "allow"
                      /\ results[p] = MANGLED =>
                           fate[p] = "arrived" /\ (p \in cut \/ Treatment(p) = "sanitize")
                      /\ results[p] = BLOCKED /\ acked[p] => fate[p] = "dropped" \/ restarts > 0
    BY DEF ArrivalsAreReal
  <2>1. results[p] = ERROR \/ Evidence(p)
    BY DEF HarnessInv, ReadInv
  <2>2. fate[p] = "arrived" => Treatment(p) # "drop" \/ p \in cut
    BY DEF HarnessInv, LedgerIsTrue
  <2>3. restarts \in Nat
    BY DEF HarnessInv, WellTyped
  <2>4. /\ DigestOf(p, cut) = "intact" => p \notin cut /\ Treatment(p) # "sanitize"
        /\ DigestOf(p, cut) = "altered" => p \in cut \/ Treatment(p) = "sanitize"
    BY DEF DigestOf
  <2> QED
    BY <2>1, <2>2, <2>3, <2>4, TreatmentIs DEF Evidence, ERROR, ARRIVED, MANGLED, BLOCKED
<1> QED
  BY <1>1, HarnessInvAlways, PTL

(* A probe reported as blocked was dropped by the control, or one of the   *)
(* four things befell it that reconcile cannot tell from that.             *)
THEOREM BlocksAreProven == Spec => []BlockIsProven
<1>1. HarnessInv => BlockIsProven
  <2> SUFFICES ASSUME HarnessInv, at = "done",
                      NEW p \in Probes, results[p] = BLOCKED, p \notin hung
               PROVE  \/ fate[p] \in {"dropped", "refused"}
                      \/ fate[p] = "lost" /\ flips > 0
                      \/ fate[p] = "arrived" /\ restarts > 0
    BY DEF BlockIsProven
  <2>1. SomeArrival /\ Evidence(p)
    BY DEF HarnessInv, ReadInv, BLOCKED, ERROR
  <2>2. fate[p] \notin {"crossing", "unsent"} /\ (fate[p] = "arrived" => restarts # 0)
    BY <2>1 DEF Evidence
  <2>3. fate[p] = "lost" => flips # 0
    BY <2>1 DEF SomeArrival, HarnessInv, PathSteady
  <2>4. fate[p] \in Fates /\ flips \in Nat /\ restarts \in Nat
    BY DEF HarnessInv, WellTyped
  <2> QED
    BY <2>2, <2>3, <2>4 DEF Fates
<1> QED
  BY <1>1, HarnessInvAlways, PTL

(* "You never score what you could not test".                              *)
LEMMA ScoredOnArrival ==
  ASSUME HarnessInv, at = "done", Effectiveness # NoRate
  PROVE  trusted /\ SomeArrival
<1>1. Tested(Malicious) # {}
  BY DEF Effectiveness, Rate
<1>2. PICK p \in Malicious : results[p] # ERROR
  BY <1>1 DEF Tested, Scored
<1>3. p \in Probes
  BY HarnessAssumption
<1> QED
  BY <1>2, <1>3 DEF HarnessInv, ReadInv

-----------------------------------------------------------------------------
(* What a score is worth.                                                  *)

LEMMA Quotient ==
  ASSUME NEW a \in Int, NEW d \in Int, d > 0
  PROVE  /\ a \div d \in Int
         /\ d * (a \div d) <= a /\ a < d * (a \div d) + d
OBVIOUS

LEMMA Times ==
  ASSUME NEW a \in Int, NEW b \in Int, NEW c \in Nat, a <= b
  PROVE  a * c <= b * c /\ c * a <= c * b /\ a * c \in Int /\ b * c \in Int
OBVIOUS

(* Rounded is within a half. *)
LEMMA RoundedIs ==
  ASSUME NEW n \in Int, NEW d \in Int, d > 0
  PROVE  /\ Rounded(n, d) \in Int
         /\ 2 * (d * Rounded(n, d)) <= 2 * n + d
         /\ 2 * n - d < 2 * (d * Rounded(n, d))
<1> DEFINE q == (2 * n + d) \div (2 * d)
<1>1. 2 * n + d \in Int /\ 2 * d \in Int /\ 2 * d > 0
  OBVIOUS
<1>2. q \in Int /\ (2 * d) * q <= 2 * n + d /\ 2 * n + d < (2 * d) * q + 2 * d
  BY ONLY <1>1, Quotient
<1> HIDE DEF q
<1>3. (2 * d) * q = 2 * (d * q) /\ d * q \in Int
  BY <1>2
<1> DEFINE p == d * q
           r == (2 * d) * q
<1>4. p \in Int /\ r = 2 * p /\ r <= 2 * n + d /\ 2 * n + d < r + 2 * d
  BY <1>2, <1>3
<1> HIDE DEF p, r
<1>5. 2 * p <= 2 * n + d /\ 2 * n - d < 2 * p
  BY <1>4
<1> QED
  BY <1>2, <1>5 DEF q, p, Rounded

(* r is n of d in thousandths, to the rounding.                            *)
Near(r, n, d) == 2 * (d * r) - 2000 * n <= d /\ 2000 * n - 2 * (d * r) <= d

(* a thousandths and n of d are one at most apart.                         *)
Within(a, n, d) == a * d - 1000 * n <= 1000 * d /\ 1000 * n - a * d <= 1000 * d

(* Two fractions that differ by one at most still do when rounded.         *)
LEMMA RoundedClose ==
  ASSUME NEW a \in Int, NEW n \in Int, NEW d \in Int, d > 0,
         Within(a, n, d)
  PROVE  Rounded(a, 1000) - Rounded(n, d) \in -1..1
<1> DEFINE e == Rounded(a, 1000)
           w == Rounded(n, d)
           dw == d * w
           ad == a * d
<1>0. ad - 1000 * n <= 1000 * d /\ 1000 * n - ad <= 1000 * d
  BY DEF Within
<1>1. /\ e \in Int /\ 2 * (1000 * e) <= 2 * a + 1000 /\ 2 * a - 1000 < 2 * (1000 * e)
      /\ w \in Int /\ 2 * dw <= 2 * n + d /\ 2 * n - d < 2 * dw
  <2>1. 1000 \in Int /\ 1000 > 0
    OBVIOUS
  <2>2. e \in Int /\ 2 * (1000 * e) <= 2 * a + 1000 /\ 2 * a - 1000 < 2 * (1000 * e)
    BY ONLY <2>1, a \in Int, RoundedIs
  <2>3. w \in Int /\ 2 * dw <= 2 * n + d /\ 2 * n - d < 2 * dw
    BY ONLY n \in Int, d \in Int, d > 0, RoundedIs
  <2> QED
    BY <2>2, <2>3
<1>2. dw \in Int /\ ad \in Int
  BY <1>1
<1>3. ASSUME e >= w + 2 PROVE FALSE
  <2>1. 1000 * w + 1500 <= a /\ 1000 * w + 1500 \in Int
    BY ONLY <1>1, <1>3, a \in Int
  <2>2. (1000 * w + 1500) * d <= ad
    BY <2>1, Times
  <2>3. (1000 * w + 1500) * d = 1000 * dw + 1500 * d
    BY <1>1
  <2> HIDE DEF e, w, dw, ad
  <2>4. 1000 * dw + 1500 * d <= ad /\ ad <= 1000 * n + 1000 * d
    BY <1>0, <1>2, <2>2, <2>3 DEF ad
  <2> QED
    BY <1>1, <1>2, <2>4
<1>4. ASSUME e <= w - 2 PROVE FALSE
  <2>1. a <= 1000 * w - 1501 /\ 1000 * w - 1501 \in Int
    BY ONLY <1>1, <1>4, a \in Int
  <2>2. ad <= (1000 * w - 1501) * d
    BY <2>1, Times
  <2>3. (1000 * w - 1501) * d = 1000 * dw - 1501 * d
    BY <1>1
  <2> HIDE DEF e, w, dw, ad
  <2>4. ad <= 1000 * dw - 1501 * d /\ 1000 * n - 1000 * d <= ad
    BY <1>0, <1>2, <2>2, <2>3 DEF ad
  <2> QED
    BY <1>1, <1>2, <2>4
<1>5. e - w \in -1..1
  <2>1. ~(e >= w + 2) /\ ~(e <= w - 2) /\ e \in Int /\ w \in Int
    BY <1>1, <1>3, <1>4
  <2> QED
    BY ONLY <2>1
<1> QED
  BY <1>5

Shares(m, b, x, u, sm, c, a, n, d) ==
  /\ m \in Nat /\ b \in Nat /\ x \in 0..1000 /\ u \in Int /\ sm \in Nat /\ c \in 0..b
  /\ Near(x, sm, m) /\ Near(u, c, b)
  /\ a = x * u /\ n = 1000 * sm * c /\ d = m * b

(* x is sm of m in thousandths, and u is c of b, each to the rounding.     *)
LEMMA ProductClose ==
  ASSUME NEW m, NEW b, NEW x, NEW u, NEW sm, NEW c, NEW a, NEW n, NEW d,
         Shares(m, b, x, u, sm, c, a, n, d)
  PROVE  Within(a, n, d)
<1> USE DEF Shares
<1> DEFINE mx == m * x
           bu == b * u
           e == 2 * mx - 2000 * sm
           f == 2 * bu - 2000 * c
           mb == m * b
<1>1. mx \in Nat /\ bu \in Int /\ mb \in Nat /\ e \in Int /\ f \in Int
  OBVIOUS
<1>2. mx <= 1000 * m
  <2>1. x <= 1000 /\ x \in Int /\ m \in Nat
    OBVIOUS
  <2> QED
    BY <2>1, Times
<1>3. e <= m /\ -m <= e /\ f <= b /\ -b <= f
  BY DEF Near
<1>4. mx * f <= 1000 * mb /\ -(1000 * mb) <= mx * f
  <2>1. mx * f <= mx * b /\ mx * (-b) <= mx * f
    <3> HIDE DEF mx, f
    <3> QED
      BY <1>1, <1>3, Times
  <2>2. mx * b <= (1000 * m) * b
    <3> HIDE DEF mx
    <3> QED
      BY <1>1, <1>2, Times
  <2>3. (1000 * m) * b = 1000 * mb
    OBVIOUS
  <2>4. mx * (-b) = -(mx * b)
    <3> HIDE DEF mx
    <3> QED
      BY <1>1
  <2>5. mx * b \in Int /\ mx * f \in Int
    <3> HIDE DEF mx, f
    <3> QED
      BY <1>1
  <2> HIDE DEF mx, f, mb
  <2> QED
    BY <1>1, <2>1, <2>2, <2>3, <2>4, <2>5
<1>5. c * e <= mb /\ -mb <= c * e
  <2>1. c * e <= c * m /\ c * (-m) <= c * e
    <3> HIDE DEF e
    <3> QED
      BY <1>1, <1>3, Times
  <2>2. c * m <= b * m
    BY Times
  <2>3. b * m = mb /\ c * (-m) = -(c * m) /\ c * m \in Int
    OBVIOUS
  <2>4. c * e \in Int
    BY <1>1
  <2> HIDE DEF e, mb
  <2> QED
    BY <1>1, <2>1, <2>2, <2>3, <2>4
<1>6. mx * f = 2 * (mx * bu) - 2000 * (mx * c)
  <2> HIDE DEF mx, bu
  <2> QED
    BY <1>1
<1>7. c * e = 2 * (mx * c) - 2000 * (sm * c)
  <2> HIDE DEF mx
  <2> QED
    BY <1>1
<1>8. (x * u) * mb = mx * bu
  OBVIOUS
<1>9. 1000 * (1000 * sm * c) = 1000000 * (sm * c)
  OBVIOUS
<1>10. mx * bu \in Int /\ mx * c \in Int /\ sm * c \in Int
  <2> HIDE DEF mx, bu
  <2> QED
    BY <1>1
<1> DEFINE k == mx * bu
           l == mx * c
           j == sm * c
           mf == mx * f
           ce == c * e
<1>11. /\ mf = 2 * k - 2000 * l /\ ce = 2 * l - 2000 * j
       /\ mf <= 1000 * mb /\ -(1000 * mb) <= mf /\ ce <= mb /\ -mb <= ce
       /\ k \in Int /\ l \in Int /\ j \in Int
  BY <1>4, <1>5, <1>6, <1>7, <1>10
<1> HIDE DEF mx, bu, e, f, mb, k, l, j, mf, ce
<1>12. k - 1000000 * j <= 1000 * mb /\ 1000000 * j - k <= 1000 * mb
  BY <1>1, <1>11
<1> QED
  BY <1>8, <1>9, <1>12 DEF k, j, mb, Within

LEMMA ProbesFinite ==
  /\ IsFiniteSet(Probes)
  /\ \A S \in SUBSET Probes : IsFiniteSet(S) /\ Cardinality(S) \in Nat
<1>1. IsFiniteSet(1..Len(Catalog))
  <2>1. 1 \in Int /\ Len(Catalog) \in Int
    BY CatalogTypes
  <2> QED
    BY ONLY <2>1, FS_Interval
<1>2. Catalog \in Surjection(1..Len(Catalog), Probes)
  BY CatalogTypes, HarnessAssumption DEF Surjection
<1>3. IsFiniteSet(Probes)
  BY <1>1, <1>2, FS_Surjection
<1> QED
  BY <1>3, FS_Subset, FS_CardinalityType

(* A part and the rest of a class.                                         *)
LEMMA ClassSplits ==
  ASSUME NEW S \in SUBSET Probes, NEW T \in SUBSET S
  PROVE  /\ Cardinality(S) \in Nat /\ Cardinality(T) \in 0..Cardinality(S)
         /\ Cardinality(S \ T) = Cardinality(S) - Cardinality(T)
<1>1. /\ IsFiniteSet(S) /\ Cardinality(S) \in Nat
      /\ Cardinality(T) \in Nat /\ Cardinality(T) <= Cardinality(S)
  BY ProbesFinite, FS_Subset
<1>2. Cardinality(S \ T) = Cardinality(S) - Cardinality(S \cap T)
  BY <1>1, FS_Difference
<1>3. S \cap T = T
  OBVIOUS
<1>4. Cardinality(S \ T) = Cardinality(S) - Cardinality(T)
  BY <1>2, <1>3
<1>5. Cardinality(T) \in 0..Cardinality(S)
  BY <1>1
<1> QED
  BY <1>1, <1>4, <1>5

IsRate(r, n, d) == n \in Nat /\ d \in Nat /\ d > 0 /\ n <= d /\ r = Rounded(1000 * n, d)

(* A rate is one of tenths of a percent, and near the share it stands for. *)
LEMMA RateIs ==
  ASSUME NEW r, NEW n, NEW d, IsRate(r, n, d)
  PROVE  r \in 0..1000 /\ Near(r, n, d)
<1> USE DEF IsRate
<1> DEFINE dr == d * r
<1>1. r \in Int /\ 2 * dr <= 2000 * n + d /\ 2000 * n - d < 2 * dr
  BY RoundedIs
<1>2. dr \in Int
  BY <1>1
<1>3. ~(r < 0)
  <2>1. ASSUME r <= -1 PROVE FALSE
    <3>1. d * r <= d * (-1)
      BY <1>1, <2>1, Times
    <3>2. dr <= -d
      BY <3>1
    <3> HIDE DEF dr
    <3> QED
      BY <1>1, <1>2, <3>2
  <2> QED
    BY <1>1, <2>1
<1>4. ~(r > 1000)
  <2>1. ASSUME 1001 <= r PROVE FALSE
    <3>1. d * 1001 <= d * r
      BY <1>1, <2>1, Times
    <3>2. 1001 * d <= dr
      BY <3>1
    <3> HIDE DEF dr
    <3> QED
      BY <1>1, <1>2, <3>2
  <2> QED
    BY <1>1, <2>1
<1>5. r \in 0..1000
  BY <1>1, <1>3, <1>4
<1>6. 2 * dr - 2000 * n <= d /\ 2000 * n - 2 * dr <= d
  <2> HIDE DEF dr
  <2> QED
    BY <1>1, <1>2
<1> QED
  BY <1>5, <1>6 DEF dr, Near

-----------------------------------------------------------------------------

(* Once the ledger was read, a probe has an outcome; what the control      *)
(* dropped never gets on the way.                                          *)
OutcomesAre ==
  /\ \A p \in Probes : fate[p] = "dropped" => Treatment(p) = "drop"
  /\ at = "done" =>
       \/ \A p \in Probes : results[p] = ERROR
       \/ \A p \in Probes : results[p] \in {ARRIVED, MANGLED, BLOCKED}

LEMMA OutcomesAreStep ==
  ASSUME WellTyped, OutcomesAre, [Next]_vars
  PROVE  OutcomesAre'
<1>0. \A p : Treatment(p)' = Treatment(p)
  BY TreatmentStays
<1>1. CASE Send \/ SendShort
  <2>1. at' = "wait" /\ \A p \in Probes : p # Current => fate'[p] = fate[p]
    BY <1>1, SendDoes
  <2>2. fate'[Current] = "dropped" => Treatment(Current) = "drop"
    BY <1>1, SendDoes
  <2>3. \A p \in Probes : fate'[p] = "dropped" => Treatment(p) = "drop"
    BY <2>1, <2>2 DEF OutcomesAre
  <2> QED
    BY <1>0, <2>1, <2>3 DEF OutcomesAre
<1>2. CASE Acknowledged \/ GiveUp \/ AnswerBroken
  <2>1. at' # "done" /\ UNCHANGED fate
    BY <1>2 DEF Acknowledged, GiveUp, Moves, AnswerBroken
  <2> QED
    BY <1>0, <2>1 DEF OutcomesAre
<1>3. CASE LedgerRefused
  <2>1. UNCHANGED fate /\ \A p \in Probes : results'[p] = ERROR
    BY <1>3 DEF LedgerRefused, ReadLedger
  <2> QED
    BY <1>0, <2>1 DEF OutcomesAre
<1>4. CASE LedgerRead
  <2>1. UNCHANGED fate /\ \A p \in Probes : results'[p] = Outcome(ledger, p)
    BY <1>4 DEF LedgerRead, ReadLedger
  <2>2. CASE PathUp(ledger)
    <3>1. \A p \in Probes : ledger[p] \in {None, "intact", "altered"}
      BY DEF WellTyped
    <3>2. \A p \in Probes : Outcome(ledger, p) \in {ARRIVED, MANGLED, BLOCKED}
      BY <2>2, <3>1 DEF Outcome, None
    <3> QED
      BY <1>0, <2>1, <3>2 DEF OutcomesAre
  <2>3. CASE ~PathUp(ledger)
    <3>1. \A p \in Probes : Outcome(ledger, p) = ERROR
      BY <2>3 DEF PathUp, Outcome, None
    <3> QED
      BY <1>0, <2>1, <3>1 DEF OutcomesAre
  <2> QED
    BY <2>2, <2>3
<1>5. ASSUME NEW p \in Probes, Arrive(p) \/ Lose(p) PROVE OutcomesAre'
  <2>1. /\ UNCHANGED <<at, results>>
        /\ \A q \in Probes : fate'[q] = "dropped" => fate[q] = "dropped"
    BY <1>5 DEF Arrive, Lose, run, WellTyped
  <2> QED
    BY <1>0, <2>1 DEF OutcomesAre
<1>6. CASE PathChanges \/ ReflectorRestarts \/ UNCHANGED vars
  <2>1. UNCHANGED <<at, results, fate>>
    BY <1>6 DEF PathChanges, ReflectorRestarts, vars, run
  <2> QED
    BY <1>0, <2>1 DEF OutcomesAre
<1> QED
  BY <1>1, <1>2, <1>3, <1>4, <1>5, <1>6 DEF Next, Step

(* Undisturbed, the outcome of a probe is what the control does to it.     *)
LEMMA OutcomeIsTreatment ==
  ASSUME HarnessInv, OutcomesAre, at = "done", Undisturbed, SomeArrival, NEW p \in Probes
  PROVE  results[p] # ERROR /\ (Stopped(results[p]) <=> Treatment(p) # "allow")
<1>1. results[p] \in {ARRIVED, MANGLED, BLOCKED} /\ results[p] # ERROR
  BY DEF OutcomesAre, SomeArrival, ERROR, ARRIVED, MANGLED, BLOCKED
<1>2. Evidence(p)
  BY <1>1 DEF HarnessInv, ReadInv
<1>3. CASE results[p] = ARRIVED
  <2>1. Treatment(p) = "allow"
    <3>1. fate[p] = "arrived" /\ Treatment(p) # "sanitize"
      BY <1>2, <1>3 DEF Evidence, DigestOf
    <3>2. Treatment(p) # "drop"
      BY <3>1 DEF HarnessInv, LedgerIsTrue, Undisturbed
    <3> QED
      BY <3>1, <3>2, TreatmentIs
  <2> QED
    BY <1>1, <1>3, <2>1 DEF Stopped, ARRIVED, MANGLED, BLOCKED
<1>4. CASE results[p] = MANGLED
  <2>1. DigestOf(p, cut) = "altered"
    BY <1>2, <1>4 DEF Evidence
  <2>2. Treatment(p) = "sanitize"
    BY <2>1 DEF DigestOf, Undisturbed
  <2> QED
    BY <1>1, <1>4, <2>2 DEF Stopped
<1>5. CASE results[p] = BLOCKED
  <2>1. fate[p] \notin {"arrived", "crossing", "unsent", "refused"}
    BY <1>2, <1>5 DEF Evidence, Undisturbed
  <2>2. fate[p] # "lost"
    BY DEF SomeArrival, HarnessInv, PathSteady, Undisturbed
  <2>3. fate[p] = "dropped"
    BY <2>1, <2>2 DEF HarnessInv, WellTyped, Fates
  <2>4. Treatment(p) = "drop"
    BY <2>3 DEF OutcomesAre
  <2> QED
    BY <1>1, <1>5, <2>4 DEF Stopped
<1> QED
  BY <1>1, <1>3, <1>4, <1>5

(* The score of an undisturbed run is the worth of the control.            *)
LEMMA ScoreIsWorth ==
  ASSUME HarnessInv, OutcomesAre, at = "done", Undisturbed, SomeArrival, Effectiveness # NoRate
  PROVE  Effectiveness - Worth \in -1..1
<1> DEFINE All(class) == class \ {Canary}
           Let(class) == {p \in class \ {Canary} : Treatment(p) = "allow"}
           m == Cardinality(All(Malicious))
           b == Cardinality(All(Benign))
           lm == Cardinality(Let(Malicious))
           c == Cardinality(Let(Benign))
           x == Rate(Malicious)
           y == Rate(Benign)
<1>1. Malicious \subseteq Probes /\ Benign \subseteq Probes
  BY HarnessAssumption DEF Benign
<1>2. ASSUME NEW class \in SUBSET Probes
      PROVE  Tested(class) = All(class) /\ StoppedOf(class) = All(class) \ Let(class)
  <2>1. \A p \in class : results[p] # ERROR /\ (Stopped(results[p]) <=> Treatment(p) # "allow")
    BY <1>2, OutcomeIsTreatment
  <2> QED
    BY <2>1 DEF Tested, StoppedOf, Scored
<1>3. ASSUME NEW class \in SUBSET Probes
      PROVE  /\ Cardinality(All(class)) \in Nat
             /\ Cardinality(Let(class)) \in 0..Cardinality(All(class))
             /\ Cardinality(StoppedOf(class)) = Cardinality(All(class)) - Cardinality(Let(class))
             /\ Cardinality(Tested(class)) = Cardinality(All(class))
  <2>1. All(class) \in SUBSET Probes /\ Let(class) \in SUBSET All(class)
    BY <1>3
  <2> HIDE DEF All, Let
  <2> QED
    BY <1>2, <1>3, <2>1, ClassSplits
<1>4. ASSUME NEW class \in SUBSET Probes, Rate(class) # NoRate
      PROVE  /\ Cardinality(All(class)) > 0
             /\ Rate(class) = Rounded(1000 * (Cardinality(All(class)) - Cardinality(Let(class))),
                                      Cardinality(All(class)))
  <2>1. Tested(class) # {}
    BY <1>4 DEF Rate
  <2>2. Cardinality(Tested(class)) # 0
    <3>1. Tested(class) \in SUBSET Probes
      BY DEF Tested
    <3>2. IsFiniteSet(Tested(class))
      BY <3>1, ProbesFinite
    <3> QED
      BY <2>1, <3>2, FS_EmptySet
  <2> HIDE DEF All, Let
  <2> QED
    BY <1>3, <2>1, <2>2 DEF Rate
<1>5. x # NoRate /\ y # NoRate /\ Effectiveness = Rounded(x * (1000 - y), 1000)
  BY DEF Effectiveness
<1>6. /\ m \in Nat /\ m > 0 /\ lm \in 0..m /\ x = Rounded(1000 * (m - lm), m)
      /\ b \in Nat /\ b > 0 /\ c \in 0..b /\ y = Rounded(1000 * (b - c), b)
  <2>1. Malicious \in SUBSET Probes /\ Benign \in SUBSET Probes
    BY <1>1
  <2> HIDE DEF All, Let
  <2>2. m \in Nat /\ lm \in 0..m
    BY <1>3, <2>1
  <2>3. b \in Nat /\ c \in 0..b
    BY <1>3, <2>1
  <2>4. m > 0 /\ x = Rounded(1000 * (m - lm), m)
    BY <1>4, <1>5, <2>1
  <2>5. b > 0 /\ y = Rounded(1000 * (b - c), b)
    BY <1>4, <1>5, <2>1
  <2> QED
    BY <2>2, <2>3, <2>4, <2>5
<1>7. Worth = Rounded(1000 * (m - lm) * c, m * b)
  BY DEF Worth
<1> HIDE DEF m, b, lm, c, x, y
<1> DEFINE sm == m - lm
           sb == b - c
           u == 1000 - y
<1>8. /\ sm \in Nat /\ sm <= m /\ x = Rounded(1000 * sm, m)
      /\ sb \in Nat /\ sb <= b /\ y = Rounded(1000 * sb, b)
  BY <1>6
<1>9. x \in 0..1000 /\ Near(x, sm, m)
  <2> HIDE DEF sm, sb
  <2>1. IsRate(x, sm, m)
    BY <1>6, <1>8 DEF IsRate
  <2> QED
    BY <2>1, RateIs
<1>10. y \in 0..1000 /\ Near(y, sb, b)
  <2> HIDE DEF sm, sb
  <2>1. IsRate(y, sb, b)
    BY <1>6, <1>8 DEF IsRate
  <2> QED
    BY <2>1, RateIs
<1>11. u \in Int /\ Near(u, c, b)
  <2>1. b * u = 1000 * b - b * y /\ b * y \in Int
    <3>1. b \in Nat /\ y \in Int
      BY <1>6, <1>10
    <3> QED
      BY ONLY <3>1
  <2> DEFINE by == b * y
             bu == b * u
  <2>2. bu = 1000 * b - by /\ by \in Int /\ 2 * by - 2000 * sb <= b /\ 2000 * sb - 2 * by <= b
    BY <1>10, <2>1 DEF Near
  <2>3. u \in Int
    BY <1>10
  <2> HIDE DEF by, bu
  <2>4. 2 * bu - 2000 * c <= b /\ 2000 * c - 2 * bu <= b
    BY <1>6, <2>2
  <2> QED
    BY <2>3, <2>4 DEF bu, Near
<1> DEFINE a == x * u
           n == 1000 * sm * c
           d == m * b
<1>12. a \in Int /\ n \in Int /\ d \in Int /\ d > 0
  <2> HIDE DEF sm, u
  <2>1. /\ x \in Int /\ u \in Int /\ sm \in Int /\ c \in Int
        /\ m \in Nat \ {0} /\ b \in Nat \ {0}
    <3>1. x \in Int
      BY <1>9
    <3>2. u \in Int
      BY <1>11
    <3>3. sm \in Int
      BY <1>8
    <3>4. c \in Int /\ m \in Nat \ {0} /\ b \in Nat \ {0}
      BY <1>6
    <3> QED
      BY <3>1, <3>2, <3>3, <3>4
  <2>2. x * u \in Int /\ 1000 * sm * c \in Int
    BY ONLY <2>1
  <2>3. m * b \in Int /\ m * b > 0
    BY ONLY <2>1
  <2> QED
    BY <2>2, <2>3
<1>13. Within(a, n, d)
  <2>1. m \in Nat /\ b \in Nat /\ sm \in Nat /\ c \in 0..b
    BY <1>6, <1>8
  <2> HIDE DEF sm, u
  <2>2. a = x * u /\ n = 1000 * sm * c /\ d = m * b
    OBVIOUS
  <2> HIDE DEF a, n, d
  <2>3. Shares(m, b, x, u, sm, c, a, n, d)
    BY <1>9, <1>11, <2>1, <2>2 DEF Shares
  <2> QED
    BY <2>3, ProductClose
<1>14. Effectiveness = Rounded(a, 1000) /\ Worth = Rounded(n, d)
  BY <1>5, <1>7
<1> HIDE DEF a, n, d
<1>15. Rounded(a, 1000) - Rounded(n, d) \in -1..1
  BY <1>12, <1>13, RoundedClose
<1> QED
  BY <1>14, <1>15

(* "You never score what you could not test", and what an undisturbed run  *)
(* scores is the control's own rate, for any catalog and rules.            *)
THEOREM ScoresAreEarned == Spec => []ScoreIsEarned
<1>1. Init => OutcomesAre
  BY DEF Init, OutcomesAre
<1>2. HarnessInv /\ OutcomesAre /\ [Next]_vars => OutcomesAre'
  BY OutcomesAreStep DEF HarnessInv
<1>3. HarnessInv /\ OutcomesAre => ScoreIsEarned
  <2> SUFFICES ASSUME HarnessInv, OutcomesAre, at = "done", Effectiveness # NoRate
               PROVE  /\ trusted /\ SomeArrival
                      /\ Undisturbed => Effectiveness - Worth \in -1..1
    BY DEF ScoreIsEarned, SomeArrival
  <2>1. trusted /\ SomeArrival
    BY ScoredOnArrival
  <2> QED
    BY <2>1, ScoreIsWorth
<1> QED
  BY <1>1, <1>2, <1>3, HarnessInvAlways, PTL DEF Spec
=============================================================================
